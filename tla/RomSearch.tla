------------------------------ MODULE RomSearch ------------------------------
(***************************************************************************)
(* The search for the temperature sensors on a 1-Wire bus,                 *)
(* SearchState of firmware/crates/pdcan-drivers/src/ds18b20.rs.            *)
(*                                                                         *)
(* A ROM code is the set of its bit numbers that are one.  A call of next  *)
(* makes a pass over the bits: the devices that still follow the pass      *)
(* answer each bit together and those that disagree with the direction     *)
(* taken drop out.  The state of a search is overwritten bit by bit, so a  *)
(* bus error in the middle of a pass leaves part of a path in it, and the  *)
(* caller calls next again.                                                *)
(*                                                                         *)
(* The bus and the devices are external.  Devices come and go between two  *)
(* bits of a pass.                                                         *)
(***************************************************************************)
EXTENDS Integers

CONSTANTS
    Bits,           \* 64 there
    Roms,           \* the devices there are, by their ROM codes
    Ours,           \* those that RomCode::from_bytes accepts
    MaxErrors,      \* bounds the bus errors,
    MaxMoves,       \* the devices that come or go
    MaxRestarts     \* and the calls of restart

ASSUME RomAssumption ==
    /\ Bits \in Nat \ {0}
    /\ Roms \subseteq SUBSET (1..Bits)
    /\ Ours \subseteq Roms
    /\ MaxErrors \in Nat /\ MaxMoves \in Nat /\ MaxRestarts \in Nat

VARIABLES
    rom, last_discrepancy, complete,    \* SearchState
    bit_number, last_zero,              \* the pass under way, 0 when there is none
    answer,                             \* what the last call of next returned
    present, selected,                  \* the devices on the bus, and those that
                                        \* follow the pass
    found,                              \* history of this search: the codes of its
                                        \* passes,
    repeated,                           \* whether one of them came twice,
    stayed,                             \* the devices that were there all along,
    left,                               \* and whether any has gone
    errors, moves, restarts

search == <<rom, last_discrepancy, complete>>
pass == <<bit_number, last_zero, selected>>
history == <<found, repeated>>
bus == <<present, stayed, left>>
counts == <<errors, moves, restarts>>
romVars == <<search, pass, answer, bus, history, counts>>

-----------------------------------------------------------------------------
\* What read_bit returns: a device pulls the bus low for a zero.
TrueBit == \A d \in selected : bit_number \in d
Complement == \A d \in selected : bit_number \notin d

\* Mutant: the stored path is not followed below the last discrepancy.
Direction_NotStored ==
    \/ TrueBit /\ ~ Complement
    \/ (TrueBit <=> Complement) /\ bit_number = last_discrepancy

\* The direction of the pass at a bit: what the devices agree on, or else the stored
\* path, and then the one at its last discrepancy.
Direction ==
    \/ TrueBit /\ ~ Complement
    \/ (TrueBit <=> Complement) /\ bit_number < last_discrepancy /\ bit_number \in rom
    \/ (TrueBit <=> Complement) /\ bit_number = last_discrepancy

set_bit(code, b, value) == IF value THEN code \cup {b} ELSE code \ {b}

RomReturns(result) ==
    /\ answer' = result
    /\ bit_number' = 0 /\ last_zero' = 0 /\ selected' = {}

\* SearchState::new
New == rom = {} /\ last_discrepancy = 0 /\ complete = FALSE

RomInit ==
    /\ New
    /\ bit_number = 0 /\ last_zero = 0 /\ selected = {}
    /\ answer = "none"
    /\ present \in SUBSET Roms
    /\ found = {} /\ repeated = FALSE
    /\ stayed = present /\ left = FALSE
    /\ errors = 0 /\ moves = 0 /\ restarts = 0

\* next, up to the first bit.
BeginPass ==
    /\ bit_number = 0
    /\ ~ complete
    /\ present # {}
    /\ bit_number' = 1 /\ last_zero' = 0
    /\ selected' = present
    /\ UNCHANGED <<search, answer, bus, history, counts>>

AlreadyComplete ==
    /\ bit_number = 0
    /\ complete
    /\ RomReturns("none")
    /\ UNCHANGED <<search, bus, history, counts>>

NoPresence ==
    /\ bit_number = 0
    /\ ~ complete
    /\ present = {}
    /\ RomReturns("NoPresence")
    /\ UNCHANGED <<search, bus, history, counts>>

\* The reset or the command fails.
BeginFails ==
    /\ bit_number = 0
    /\ ~ complete
    /\ errors < MaxErrors
    /\ errors' = errors + 1
    /\ RomReturns("Bus")
    /\ UNCHANGED <<search, bus, history, moves, restarts>>

LastZero == IF ~ Direction /\ ~ TrueBit /\ ~ Complement THEN bit_number ELSE last_zero

Follow ==
    /\ bit_number # 0
    /\ ~ (TrueBit /\ Complement)
    /\ rom' = set_bit(rom, bit_number, Direction)

MoreBits == bit_number < Bits

\* A bit of the pass but the last.
NextBit ==
    /\ Follow
    /\ MoreBits
    /\ bit_number' = bit_number + 1
    /\ last_zero' = LastZero
    /\ selected' = {d \in selected : bit_number \in d <=> Direction}
    /\ UNCHANGED <<last_discrepancy, complete, answer, bus, history, counts>>

\* The last bit, and the code.  A code that is refused was a pass all the same.
LastBit ==
    /\ Follow
    /\ ~ MoreBits
    /\ last_discrepancy' = LastZero
    /\ complete' = (LastZero = 0)
    /\ RomReturns(IF rom' \in Ours THEN "Some" ELSE "Rom")
    /\ found' = found \cup {rom'}
    /\ repeated' = (repeated \/ rom' \in found)
    /\ UNCHANGED <<bus, counts>>

\* No device answers a bit: they have all gone.
SearchProtocol ==
    /\ bit_number # 0
    /\ TrueBit /\ Complement
    /\ RomReturns("SearchProtocol")
    /\ UNCHANGED <<search, bus, history, counts>>

\* A bus error at a bit, before or after it is stored.
BitFails ==
    /\ bit_number # 0
    /\ errors < MaxErrors
    /\ errors' = errors + 1
    /\ \/ UNCHANGED rom
       \/ ~ (TrueBit /\ Complement) /\ rom' = set_bit(rom, bit_number, Direction)
    /\ RomReturns("Bus")
    /\ UNCHANGED <<last_discrepancy, complete, bus, history, moves, restarts>>

restart ==
    /\ bit_number = 0
    /\ restarts < MaxRestarts
    /\ restarts' = restarts + 1
    /\ rom' = {} /\ last_discrepancy' = 0 /\ complete' = FALSE
    /\ found' = {} /\ repeated' = FALSE
    /\ stayed' = present /\ left' = FALSE
    /\ UNCHANGED <<pass, answer, present, errors, moves>>

\* A device that comes follows the passes that begin after it.
Comes(d) ==
    /\ d \notin present
    /\ moves < MaxMoves
    /\ moves' = moves + 1
    /\ present' = present \cup {d}
    /\ UNCHANGED <<search, pass, answer, stayed, left, history, errors, restarts>>

Goes(d) ==
    /\ d \in present
    /\ moves < MaxMoves
    /\ moves' = moves + 1
    /\ present' = present \ {d}
    /\ stayed' = stayed \ {d}
    /\ left' = TRUE
    /\ selected' = selected \ {d}
    /\ UNCHANGED <<search, bit_number, last_zero, answer, history, errors, restarts>>

RomNext ==
    \/ BeginPass \/ AlreadyComplete \/ NoPresence \/ BeginFails
    \/ NextBit \/ LastBit \/ SearchProtocol \/ BitFails
    \/ restart
    \/ \E d \in Roms : Comes(d) \/ Goes(d)

RomSpec == RomInit /\ [][RomNext]_romVars

-----------------------------------------------------------------------------
\* Type invariant: a code is a set of bits, and a pass is at one of its bits.
RomSearchTypeOK ==
    /\ rom \in SUBSET (1..Bits)
    /\ last_discrepancy \in 0..Bits
    /\ complete \in BOOLEAN
    /\ bit_number \in 0..Bits
    /\ last_zero \in 0..Bits /\ (bit_number > 0 => last_zero < bit_number)
    /\ answer \in {"none", "Some", "Rom", "NoPresence", "SearchProtocol", "Bus"}
    /\ selected \subseteq present /\ present \subseteq Roms
    /\ \A code \in found : code \subseteq 1..Bits
    /\ stayed \subseteq present
    /\ repeated \in BOOLEAN /\ left \in BOOLEAN
    /\ errors \in 0..MaxErrors /\ moves \in 0..MaxMoves /\ restarts \in 0..MaxRestarts

\* As long as no device goes away, each code that the search finds is that of a
\* device, never a mixture of two, and none comes twice; and when the search says
\* that it is complete it has found every device that was there from its start,
\* whatever passes failed half way and were repeated (ds18b20.rs:102).
FindsEachDeviceOnce ==
    ~ left => /\ found \subseteq Roms
              /\ ~ repeated
              /\ complete => stayed \subseteq found
=============================================================================
