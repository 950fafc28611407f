------------------------------- MODULE Ina237 -------------------------------
(***************************************************************************)
(* The driver of the INA237 voltage and current monitor,                   *)
(* firmware/crates/pdcan-drivers/src/ina237.rs, on an I2C bus whose        *)
(* transfers may fail.                                                     *)
(*                                                                         *)
(* configure makes three writes and read_measurement six reads.  Between   *)
(* them the input changes, the chip converts it or starts again from its   *)
(* reset values.  The driver keeps nothing but its configuration: it never *)
(* asks the chip how it is set.                                            *)
(*                                                                         *)
(* The chip is external, as docs/data-sheets/TI/INA237.pdf has it.  The    *)
(* input is counted in the chip's own units: 1.25 uV of shunt voltage,     *)
(* 3.125 mV of bus voltage, 0.125 C.                                       *)
(***************************************************************************)
EXTENDS Integers, Sequences

CONSTANTS
    Configs,        \* the configurations a driver is made with
    Inputs,         \* what there may be to measure
    NoMeasurement,
    MaxFaults,      \* bounds the transfers that fail,
    MaxChanges,     \* the changes of the input
    MaxResets       \* and the times the chip loses its power

\* The integers of the conversions fit 32 bits.
ASSUME Ina237Assumption ==
    /\ \A c \in Configs : c.current_lsb_microamps \in 0..1000000 /\ c.shunt_microohms \in Nat
    /\ MaxFaults \in Nat /\ MaxChanges \in Nat /\ MaxResets \in Nat

VARIABLES
    config,                 \* Ina237.config
    task, taken,            \* the call under way and its transfers so far
    raw,                    \* what it has read,
    shown,                  \* history: the inputs the chip showed it,
    trusted,                \* and whether the chip was ready at each of its reads and
                            \* has not started again since the call began
    reply, measurement,     \* what the last call returned
    narrow, shunt_cal,      \* the chip: its range and calibration,
    conversion,             \* the input it last converted, with its settings then
    input,
    configured, ready,      \* history: configure has succeeded since the chip
                            \* started, and the chip has converted since
    faults, changes, resets

reader == <<task, taken, raw, shown, trusted, reply, measurement>>
meter == <<narrow, shunt_cal, conversion, input, configured, ready>>
limits == <<faults, changes, resets>>
inaVars == <<config, reader, meter, limits>>

-----------------------------------------------------------------------------
\* The conversions.  A division rounds towards zero.

Quotient(n, d) == IF n >= 0 THEN n \div d ELSE -((-n) \div d)

Wide(c) == c.adc_range = "Wide"

\* (8192 n + 5000000) / 10000000 in smaller numbers.
Scaled(c) == (64 * c.current_lsb_microamps * c.shunt_microohms + 39062) \div 78125

Calibrates(c) ==
    /\ c.shunt_microohms # 0 /\ c.current_lsb_microamps # 0
    /\ Scaled(c) \in 1..32767

bus_voltage_mv(word) == (word * 25 + 4) \div 8

shunt_voltage_uv(word, c) ==
    CASE Wide(c) -> word * 5
      [] ~ Wide(c) /\ word >= 0 -> Quotient(word * 5 + 2, 4)
      [] ~ Wide(c) /\ word < 0 -> Quotient(word * 5 - 2, 4)

\* The sample is the word without its last four bits.
die_temperature_centi_c(word) ==
    LET scaled == (word \div 16) * 25
    IN  Quotient(IF scaled >= 0 THEN scaled + 1 ELSE scaled - 1, 2)

current_ma(word, c) == Quotient(word * c.current_lsb_microamps, 1000)

\* word * lsb / 5000 in smaller numbers.
power_mw(word, c) ==
    (word \div 5000) * c.current_lsb_microamps
        + ((word % 5000) * c.current_lsb_microamps) \div 5000

Measurement(words, c) ==
    [shunt_voltage_uv |-> shunt_voltage_uv(words[1], c),
     bus_voltage_mv |-> bus_voltage_mv(words[2]),
     die_temperature_centi_c |-> die_temperature_centi_c(words[3]),
     current_ma |-> current_ma(words[4], c),
     power_mw |-> power_mw(words[5], c)]

-----------------------------------------------------------------------------
\* The chip's registers after a conversion.  It counts the current in units of
\* shunt_cal / (819.2e6 * shunt), a quarter of that in the narrow range (8.1.2).

Size(n) == IF n < 0 THEN -n ELSE n

\* The nearest 16-bit number.
Word16(n) == IF n > 32767 THEN 32767 ELSE IF n < -32768 THEN -32768 ELSE n

VSHUNT(v) == Word16(IF v.narrow THEN v.input.shunt ELSE v.input.shunt \div 4)

CURRENT(v) == IF v.shunt_cal = 0 THEN 0 ELSE Word16(Quotient(VSHUNT(v) * 4096, v.shunt_cal))

\* What the six reads of read_measurement return, in their order; the flags are left
\* out.
Registers(v) ==
    <<VSHUNT(v), v.input.bus, v.input.temperature * 16, CURRENT(v),
      Size(v.input.bus * CURRENT(v)) \div 64, 0>>

Zero == [shunt |-> 0, bus |-> 0, temperature |-> 0]

\* The values after a reset.
ResetCalibration == 4096
NoConversion == [input |-> Zero, narrow |-> FALSE, shunt_cal |-> ResetCalibration]

-----------------------------------------------------------------------------
InaInit ==
    /\ config \in Configs
    /\ task = "none" /\ taken = 0 /\ raw = <<>> /\ shown = <<>> /\ trusted = TRUE
    /\ reply = "none" /\ measurement = NoMeasurement
    /\ narrow = FALSE /\ shunt_cal = ResetCalibration /\ conversion = NoConversion
    /\ input \in Inputs
    /\ configured = FALSE /\ ready = FALSE
    /\ faults = 0 /\ changes = 0 /\ resets = 0

\* A call up to its first transfer.
InaBegin(t) ==
    /\ task = "none"
    /\ t = "configure" => Calibrates(config)
    /\ task' = t /\ taken' = 0
    /\ raw' = <<>> /\ shown' = <<>> /\ trusted' = TRUE
    /\ reply' = "none" /\ measurement' = NoMeasurement
    /\ UNCHANGED <<config, meter, limits>>

\* ConfigError, before any transfer.
InaRefuse ==
    /\ task = "none"
    /\ ~ Calibrates(config)
    /\ raw' = <<>> /\ shown' = <<>> /\ trusted' = TRUE
    /\ reply' = "Config" /\ measurement' = NoMeasurement
    /\ UNCHANGED <<config, task, taken, meter, limits>>

InaReturns(result, m) ==
    /\ task' = "none" /\ taken' = 0
    /\ reply' = result /\ measurement' = m

\* Mutant: the calibration is left out.
ConfigureWrites_NoCalibration == 2

\* CONFIG, ADC_CONFIG and SHUNT_CAL.
ConfigureWrites == 3

\* The chip takes the write that comes next.
Takes ==
    /\ narrow' = IF taken = 0 THEN ~ Wide(config) ELSE narrow
    /\ shunt_cal' = IF taken = 2 THEN Scaled(config) ELSE shunt_cal

ConfigureWrite ==
    /\ task = "configure"
    /\ Takes
    /\ IF taken + 1 = ConfigureWrites
       THEN InaReturns("Ok", NoMeasurement) /\ configured' = (configured \/ trusted)
       ELSE taken' = taken + 1 /\ UNCHANGED <<task, reply, measurement, configured>>
    /\ UNCHANGED <<config, raw, shown, trusted, conversion, input, ready, limits>>

MeasurementRead ==
    /\ task = "read_measurement"
    /\ raw' = Append(raw, Registers(conversion)[taken + 1])
    /\ shown' = Append(shown, conversion.input)
    /\ trusted' = (trusted /\ ready)
    /\ IF taken + 1 = 6
       THEN InaReturns("Ok", Measurement(raw', config))
       ELSE taken' = taken + 1 /\ UNCHANGED <<task, reply, measurement>>
    /\ UNCHANGED <<config, meter, limits>>

\* A transfer fails.  A write may have reached the chip.
InaFails ==
    /\ task # "none"
    /\ faults < MaxFaults
    /\ faults' = faults + 1
    /\ \/ UNCHANGED <<narrow, shunt_cal>>
       \/ task = "configure" /\ Takes
    /\ InaReturns("Bus", NoMeasurement)
    /\ UNCHANGED <<config, raw, shown, trusted, conversion, input, configured, ready,
                   changes, resets>>

\* The chip makes a conversion with the settings it has.
Converts ==
    /\ conversion' = [input |-> input, narrow |-> narrow, shunt_cal |-> shunt_cal]
    /\ ready' = configured
    /\ UNCHANGED <<config, reader, narrow, shunt_cal, input, configured, limits>>

InputChanges(i) ==
    /\ i # input
    /\ changes < MaxChanges
    /\ changes' = changes + 1
    /\ input' = i
    /\ UNCHANGED <<config, reader, narrow, shunt_cal, conversion, configured, ready,
                   faults, resets>>

ChipResets ==
    /\ resets < MaxResets
    /\ resets' = resets + 1
    /\ narrow' = FALSE /\ shunt_cal' = ResetCalibration /\ conversion' = NoConversion
    /\ configured' = FALSE /\ ready' = FALSE /\ trusted' = FALSE
    /\ UNCHANGED <<config, task, taken, raw, shown, reply, measurement, input,
                   faults, changes>>

InaNext ==
    \/ \E t \in {"configure", "read_measurement"} : InaBegin(t)
    \/ InaRefuse
    \/ ConfigureWrite \/ MeasurementRead \/ InaFails
    \/ Converts \/ ChipResets
    \/ \E i \in Inputs : InputChanges(i)

InaSpec == InaInit /\ [][InaNext]_inaVars

-----------------------------------------------------------------------------
\* A measurement is about this chip: it was read from conversions made after
\* configure succeeded.
Meaningful == measurement # NoMeasurement /\ trusted

\* The current that flows in milliamperes, and how much of an error the quantities
\* allow: a step of the shunt voltage, one of the current and the rounding of the
\* calibration.
TrueCurrent(i) == Quotient(1250 * i.shunt, config.shunt_microohms)

CurrentError(i) ==
    5000 \div config.shunt_microohms + config.current_lsb_microamps \div 1000 + 3
        + Size(TrueCurrent(i)) \div Scaled(config)

\* The current is one that the register has a number for.
WithinRange(i) == Size(TrueCurrent(i)) < 32 * config.current_lsb_microamps

\* The current of a measurement is the one that flows through the shunt, as
\* shunt_calibration promises by the "Datasheet equation" and the comment of
\* INA237_CONFIG by "A 1 mA current LSB covers the intended 30 A working range"
\* (ina237.rs:36, backplane/src/lib.rs:65).
CurrentIsTrue ==
    Meaningful /\ WithinRange(shown[4]) =>
        Size(measurement.current_ma - TrueCurrent(shown[4])) <= CurrentError(shown[4])

PowerIsTrue ==
    Meaningful /\ WithinRange(shown[5]) =>
        LET i == shown[5]
            mv == bus_voltage_mv(i.bus)
        IN  Size(measurement.power_mw - (mv * Size(TrueCurrent(i))) \div 1000)
                <= (mv * CurrentError(i)) \div 1000 + Size(TrueCurrent(i)) \div 1000 + 2

\* Every value of a measurement is what the chip had converted when that value was
\* read, to the nearest millivolt, microvolt and hundredth of a degree, and in the
\* wide range to a step of the quantities for the current and the power, whatever
\* transfers of this or of an earlier call failed: the driver scales by the
\* configuration it holds what the chip scaled by the one it was sent, and a call
\* of configure that fails over a configured chip leaves it so (ina237.rs:101, 110).
MeasurementIsTrue ==
    Meaningful =>
        /\ LET uv == 4 * measurement.shunt_voltage_uv - 5 * shown[1].shunt
           IN  Size(uv) <= IF Wide(config) THEN 15 ELSE 2
        /\ Size(8 * measurement.bus_voltage_mv - 25 * shown[2].bus) <= 4
        /\ Size(2 * measurement.die_temperature_centi_c - 25 * shown[3].temperature) <= 1
        /\ Wide(config) => CurrentIsTrue /\ PowerIsTrue
=============================================================================
