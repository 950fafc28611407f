----------------------------- MODULE Thermometer -----------------------------
(***************************************************************************)
(* Conversions and readings of the DS18B20 temperature sensors,            *)
(* start_conversion_all and read_temperature_centi_c of                    *)
(* firmware/crates/pdcan-drivers/src/ds18b20.rs.                           *)
(*                                                                         *)
(* A call resets the bus, addresses all sensors or the one of a ROM code,  *)
(* sends a function command and, for a reading, takes the 72 bits of nine  *)
(* bytes one after the other, the lowest bit of each byte first.  Between  *)
(* any two of these a conversion may end, a sensor may be unplugged or     *)
(* plugged in, and the bus may fail.                                       *)
(*                                                                         *)
(* Sensors that answer together pull the bus low for a zero, so that a bit *)
(* is one if all of them send a one, and when none answers.  The sensors   *)
(* are external, as docs/data-sheets/DS18B20.pdf has them.                 *)
(***************************************************************************)
EXTENDS Integers, Sequences
LOCAL INSTANCE FiniteSetsExt
LOCAL INSTANCE SequencesExt

CONSTANTS
    Sensors,
    Words,              \* what they may measure, in sixteenths of a degree
    NoReading,
    MaxBusFailures,     \* bounds the failures of the bus,
    MaxUnplugs,         \* the sensors that are unplugged
    MaxConversions      \* and the conversions

\* A sensor measures -55 to 125 degrees, so that TemperatureOutOfRange never comes.
ASSUME ThermometerAssumption ==
    /\ Words \subseteq -880..2000
    /\ MaxBusFailures \in Nat /\ MaxUnplugs \in Nat /\ MaxConversions \in Nat

VARIABLES
    request,            \* "none", "conversion", or the sensor that is being read
    stage, bits,        \* how far the call is, and what it has read
    result, reading,    \* what the last call returned
    plugged, addressed, \* the sensors on the bus, and those that listen
    word, converting,   \* their scratchpads, and those that have a conversion to make
    samples,            \* history: what the sensor that was asked has held since then,
    torn,               \* and whether it changed where the checksum may not tell
    bus_failures, unplugs, conversions

caller == <<request, stage, bits, result, reading>>
sensors == <<plugged, addressed, word, converting, samples, torn>>
tally == <<bus_failures, unplugs, conversions>>
thermometerVars == <<caller, sensors, tally>>

-----------------------------------------------------------------------------
\* The bits of a sequence of bytes in the order in which they are sent, and the
\* number that a sequence of bits is.
SentBits(numbers) ==
    [n \in 1..(8 * Len(numbers)) |->
        (numbers[(n - 1) \div 8 + 1] \div 2^((n - 1) % 8)) % 2 = 1]

Number(few) == MapThenSumSet(LAMBDA n : 2^(n - 1), {n \in DOMAIN few : few[n]})

\* One bit of the polynomial division: 0x8C has the bits 2, 3 and 7.
CrcBit(crc, bit) ==
    LET shifted == {i - 1 : i \in crc \ {0}}
    IN  IF (0 \in crc) # bit THEN SymDiff(shifted, {2, 3, 7}) ELSE shifted

\* The checksum, as its eight bits.
crc8(body) ==
    LET crc == FoldLeft(CrcBit, {}, body)
    IN  [i \in 1..8 |-> i - 1 \in crc]

\* The scratchpad of the driver's test.
ASSUME CrcAssumption ==
    crc8(SentBits(<<80, 5, 75, 70, 127, 255, 12, 16>>)) = SentBits(<<28>>)

\* The temperature of a scratchpad: a 16-bit number, rounded to hundredths of a degree.
Centi(scratchpad) ==
    LET unsigned == Number(SubSeq(scratchpad, 1, 16))
        scaled == 25 * (IF unsigned >= 32768 THEN unsigned - 65536 ELSE unsigned)
    IN  IF scaled >= 0 THEN (scaled + 2) \div 4 ELSE -((2 - scaled) \div 4)

\* Mutant: the checksum is not looked at.
Intact_Always(scratchpad) == TRUE

Intact(scratchpad) == crc8(SubSeq(scratchpad, 1, 64)) = SubSeq(scratchpad, 65, 72)

\* The scratchpad of a sensor with its checksum; the alarm and reserved bytes are
\* those of the test.
Scratchpad == [w \in Words \cup {1360} |->
    LET body == SentBits(<<w % 256, (w \div 256) % 256, 75, 70, 127, 255, 12, 16>>)
    IN  body \o crc8(body)]

\* 85 degrees, which a sensor holds until its first conversion.
PowerOn == 1360

-----------------------------------------------------------------------------
ThermometerInit ==
    /\ request = "none" /\ stage = "none" /\ bits = <<>>
    /\ result = "none" /\ reading = NoReading
    /\ plugged \in SUBSET Sensors
    /\ addressed = {} /\ converting = {} /\ samples = {}
    /\ torn = FALSE
    /\ word = [s \in Sensors |-> PowerOn]
    /\ bus_failures = 0 /\ unplugs = 0 /\ conversions = 0

Ask(r) ==
    /\ request = "none"
    /\ request' = r /\ stage' = "reset" /\ bits' = <<>>
    /\ result' = "none" /\ reading' = NoReading
    /\ samples' = {} /\ torn' = FALSE
    /\ UNCHANGED <<plugged, addressed, word, converting, tally>>

Answers(res, celsius) ==
    /\ request' = "none" /\ stage' = "none" /\ bits' = <<>>
    /\ result' = res /\ reading' = celsius

Reset ==
    /\ stage = "reset"
    /\ plugged # {}
    /\ addressed' = plugged
    /\ stage' = "rom"
    /\ UNCHANGED <<request, bits, result, reading>>
    /\ UNCHANGED <<plugged, word, converting, samples, torn, tally>>

NobodyThere ==
    /\ stage = "reset"
    /\ plugged = {}
    /\ addressed' = {}
    /\ Answers("NoPresence", NoReading)
    /\ UNCHANGED <<plugged, word, converting, samples, torn, tally>>

\* SKIP_ROM, or MATCH_ROM with its code.
AddressSensors ==
    /\ stage = "rom"
    /\ addressed' = IF request = "conversion" THEN addressed ELSE addressed \cap {request}
    /\ samples' = {word[s] : s \in addressed' \cap {request}}
    /\ stage' = "function"
    /\ UNCHANGED <<request, bits, result, reading, plugged, word, converting, torn, tally>>

\* CONVERT_T
StartConversion ==
    /\ stage = "function" /\ request = "conversion"
    /\ converting' = converting \cup addressed
    /\ Answers("Ok", NoReading)
    /\ UNCHANGED <<plugged, addressed, word, samples, torn, tally>>

\* READ_SCRATCHPAD
StartReading ==
    /\ stage = "function" /\ request # "conversion"
    /\ stage' = "bits"
    /\ UNCHANGED <<request, bits, result, reading, sensors, tally>>

OnTheBus == \A s \in addressed : Scratchpad[word[s]][Len(bits) + 1]

ReadBit ==
    /\ stage = "bits"
    /\ LET scratchpad == Append(bits, OnTheBus)
       IN  \/ /\ Len(scratchpad) < 72
              /\ bits' = scratchpad
              /\ UNCHANGED <<request, stage, result, reading>>
           \/ /\ Len(scratchpad) = 72
              /\ IF Intact(scratchpad) THEN Answers("Ok", Centi(scratchpad))
                                     ELSE Answers("Crc", NoReading)
    /\ UNCHANGED <<sensors, tally>>

\* A bit fails, whether or not it completed a command to convert.
BusFails ==
    /\ request # "none"
    /\ bus_failures < MaxBusFailures
    /\ bus_failures' = bus_failures + 1
    /\ Answers("Bus", NoReading)
    /\ \/ UNCHANGED converting
       \/ stage = "function" /\ request = "conversion" /\ converting' = converting \cup addressed
    /\ UNCHANGED <<plugged, addressed, word, samples, torn, unplugs, conversions>>

Asked(s) == s = request /\ s \in addressed

ConversionEnds(s, w) ==
    /\ s \in converting
    /\ conversions < MaxConversions
    /\ conversions' = conversions + 1
    /\ converting' = converting \ {s}
    /\ word' = [word EXCEPT ![s] = w]
    /\ samples' = IF Asked(s) THEN samples \cup {w} ELSE samples
    /\ torn' = (torn \/ (Asked(s) /\ Len(bits) \in 9..15))
    /\ UNCHANGED <<caller, plugged, addressed, bus_failures, unplugs>>

Unplug(s) ==
    /\ s \in plugged
    /\ unplugs < MaxUnplugs
    /\ unplugs' = unplugs + 1
    /\ plugged' = plugged \ {s}
    /\ addressed' = addressed \ {s} /\ converting' = converting \ {s}
    /\ word' = [word EXCEPT ![s] = PowerOn]
    /\ torn' = \/ torn
               \/ Asked(s) /\ Len(bits) \in 1..15
               \/ Asked(s) /\ Len(bits) > 15 /\ samples # {word[s]}
    /\ UNCHANGED <<caller, samples, bus_failures, conversions>>

\* It listens from the next reset.
Plug(s) ==
    /\ s \notin plugged
    /\ plugged' = plugged \cup {s}
    /\ UNCHANGED <<caller, addressed, word, converting, samples, torn, tally>>

ThermometerNext ==
    \/ \E r \in Sensors \cup {"conversion"} : Ask(r)
    \/ Reset \/ NobodyThere \/ AddressSensors
    \/ StartConversion \/ StartReading \/ ReadBit \/ BusFails
    \/ \E s \in Sensors :
          Unplug(s) \/ Plug(s) \/ \E w \in Words : ConversionEnds(s, w)

ThermometerSpec == ThermometerInit /\ [][ThermometerNext]_thermometerVars

-----------------------------------------------------------------------------
\* A temperature that is returned is one that the sensor it was asked of held during
\* the call, to the nearest hundredth of a degree (ds18b20.rs:143): never the low
\* byte of one conversion with the high byte of the next, never another sensor's,
\* never the ones of a bus on which it does not answer.
\*
\* It need not be so when the reading is torn: the sensor has a new temperature in the
\* middle of the second byte, or is unplugged in the middle of the two bytes that hold
\* the temperature, or both during one call.  Eight bits of checksum cannot tell every
\* such mixture: a sensor at 18.06 degrees that is unplugged after its first byte is
\* read as -13.94 degrees.
ReadingIsOneSample ==
    reading # NoReading /\ ~ torn => \E w \in samples : 4 * reading - 25 * w \in -2..2
=============================================================================
