---------------------------- MODULE Drivers_proofs ----------------------------
(***************************************************************************)
(* Proofs about the drivers of pdcan-drivers: the ROM search of the 1-Wire *)
(* bus, for any number of bits and any devices, and the SW3538 driver, for *)
(* every set of policies and any number of failed transfers.               *)
(***************************************************************************)
EXTENDS Sw3538, RomSearch, TLAPS

(***************************************************************************)
(* THE ROM SEARCH finds every device once, as long as none goes away.      *)
(*                                                                         *)
(* A search walks the codes in the order that a zero comes before a one at *)
(* the first bit where two codes differ.  Between two passes the last      *)
(* discrepancy splits them: what is found lies behind the point that the   *)
(* state names, and what is not found lies ahead of it.                    *)
(***************************************************************************)
-----------------------------------------------------------------------------
\* The invariant.

\* Two codes do not differ before a bit.
Agree(d, c, b) == \A j \in 1..Bits : j < b => (j \in d <=> j \in c)

\* A code ahead of a search that will take the one at bit ld of the path c ...
Ahead(d, c, ld) ==
    \E k \in 1..Bits : k <= ld /\ Agree(d, c, k) /\ k \in d /\ (k < ld => k \notin c)

\* ... and one behind it.
Behind(d, c, ld) ==
    \E k \in 1..Bits : k <= ld /\ Agree(d, c, k) /\ k \notin d /\ (k < ld => k \in c)

\* Devices on both sides of the last discrepancy.
Parted(S, c, ld) ==
    /\ \E f \in S : Agree(f, c, ld) /\ ld \notin f
    /\ \E g \in S : Agree(g, c, ld) /\ ld \in g

\* The state of a search that has passes to make.
Between(c) ==
    /\ last_discrepancy = 0 => found = {}
    /\ last_discrepancy > 0 =>
          /\ \A f \in found : Behind(f, c, last_discrepancy)
          /\ \A d \in stayed \ found : Ahead(d, c, last_discrepancy)
          /\ Parted(present, c, last_discrepancy)

\* A pass before bit b, on the path c, followed by S, with z the last bit where it
\* left ones aside: who is not found yet follows it or was left aside.
PassAt(c, S, z, b) ==
    /\ S \subseteq present /\ S # {}
    /\ \A d \in S : Agree(d, c, b)
    /\ last_discrepancy > 0 /\ b > last_discrepancy => last_discrepancy \in c
    /\ last_discrepancy > 0 /\ b <= last_discrepancy => Parted(S, c, last_discrepancy)
    /\ z > 0 => z < b /\ z \notin c /\ \E g \in present : Agree(g, c, z) /\ z \in g
    /\ \A d \in stayed \ found : d \notin S =>
          \E k \in 1..Bits : k < b /\ k <= z /\ Agree(d, c, k) /\ k \in d /\ k \notin c

SearchInv ==
    /\ RomSearchTypeOK
    /\ complete => bit_number = 0
    /\ ~ left =>
          /\ found \subseteq Roms /\ ~ repeated
          /\ complete => stayed \subseteq found
          /\ ~ complete => Between(rom)
          /\ bit_number > 0 => PassAt(rom, selected, last_zero, bit_number)

-----------------------------------------------------------------------------
\* One bit of a pass.

\* The direction: that of the stored path, a one at the last discrepancy, and after
\* it a zero wherever there is a choice.
LEMMA DirectionFacts ==
    ASSUME RomSearchTypeOK, bit_number > 0, ~ complete, ~ left, Between(rom),
           PassAt(rom, selected, last_zero, bit_number)
    PROVE  /\ ~ (TrueBit /\ Complement)
           /\ Direction \in BOOLEAN
           /\ \E d \in selected : bit_number \in d <=> Direction
           /\ bit_number < last_discrepancy => (Direction <=> bit_number \in rom)
           /\ bit_number = last_discrepancy => Direction
           /\ \A d \in selected : bit_number \notin d /\ Direction =>
                 bit_number <= last_discrepancy
           /\ \A d \in selected : bit_number \in d /\ ~ Direction => LastZero = bit_number
           /\ \/ LastZero = last_zero
              \/ /\ LastZero = bit_number /\ ~ Direction
                 /\ \E g \in selected : bit_number \in g
<1> DEFINE b == bit_number
           ld == last_discrepancy
<1>1. b \in 1..Bits /\ ld \in 0..Bits
  BY DEF RomSearchTypeOK
<1>2. PICK e \in selected : TRUE
  BY DEF PassAt
<1>3. /\ TrueBit <=> \A d \in selected : b \in d
      /\ Complement <=> \A d \in selected : b \notin d
      /\ TrueBit \in BOOLEAN /\ Complement \in BOOLEAN
  BY DEF TrueBit, Complement
<1>4. ~ (TrueBit /\ Complement)
  BY <1>2, <1>3
<1>5. ASSUME b <= ld
      PROVE  /\ \E f \in selected : Agree(f, rom, ld) /\ ld \notin f
             /\ \E g \in selected : Agree(g, rom, ld) /\ ld \in g
  BY <1>1, <1>5 DEF PassAt, Parted
<1>6. CASE TrueBit
  <2>1. ~ Complement /\ Direction
    BY <1>3, <1>4, <1>6 DEF Direction
  <2>2. b < ld => b \in rom
    BY <1>1, <1>3, <1>5, <1>6 DEF Agree
  <2> QED BY <1>1, <1>2, <1>3, <1>6, <2>1, <2>2 DEF LastZero
<1>7. CASE Complement
  <2>1. ~ TrueBit /\ ~ Direction
    BY <1>3, <1>4, <1>7 DEF Direction
  <2>2. b < ld => b \notin rom
    BY <1>1, <1>3, <1>5, <1>7 DEF Agree
  <2>3. b # ld
    BY <1>1, <1>3, <1>5, <1>7
  <2>4. LastZero = last_zero /\ Direction \in BOOLEAN
    BY <1>7, <2>1 DEF LastZero, Direction
  <2>5. \A d \in selected : b \notin d
    BY <1>3, <1>7
  <2> QED BY <1>1, <1>2, <1>4, <2>1, <2>2, <2>3, <2>4, <2>5
<1>8. CASE ~ TrueBit /\ ~ Complement
  <2>1. Direction <=> (b < ld /\ b \in rom) \/ b = ld
    BY <1>8 DEF Direction
  <2>2. /\ \E d \in selected : b \in d
        /\ \E d \in selected : b \notin d
    BY <1>3, <1>8
  <2>3. LastZero = IF ~ Direction THEN b ELSE last_zero
    BY <1>8 DEF LastZero
  <2>4. Direction \in BOOLEAN
    BY DEF Direction
  <2> QED BY <1>1, <1>8, <2>1, <2>2, <2>3, <2>4
<1> QED BY <1>6, <1>7, <1>8

\* A bit keeps the path up to the last discrepancy, and the pass goes on.
LEMMA FollowKeeps ==
    ASSUME RomSearchTypeOK, bit_number > 0, ~ complete, ~ left, Between(rom),
           PassAt(rom, selected, last_zero, bit_number)
    PROVE  LET r == set_bit(rom, bit_number, Direction)
               S == {d \in selected : bit_number \in d <=> Direction}
           IN  /\ r \subseteq 1..Bits
               /\ \A j \in 1..Bits : j < last_discrepancy => (j \in r <=> j \in rom)
               /\ PassAt(r, S, LastZero, bit_number + 1)
               /\ LastZero \in 0..bit_number
<1> DEFINE b == bit_number
           ld == last_discrepancy
           r == set_bit(rom, b, Direction)
           S == {d \in selected : b \in d <=> Direction}
           z == LastZero
<1>0. /\ b \in 1..Bits /\ ld \in 0..Bits /\ rom \subseteq 1..Bits
      /\ last_zero \in 0..Bits /\ last_zero < b
      /\ selected \subseteq present
  BY DEF RomSearchTypeOK
<1>1. /\ Direction \in BOOLEAN
      /\ \E d \in selected : b \in d <=> Direction
      /\ b < ld => (Direction <=> b \in rom)
      /\ b = ld => Direction
      /\ \A d \in selected : b \notin d /\ Direction => b <= ld
      /\ \A d \in selected : b \in d /\ ~ Direction => z = b
      /\ z = last_zero \/ (z = b /\ ~ Direction /\ \E g \in selected : b \in g)
  BY DirectionFacts
<1> HIDE DEF z
<1>2. /\ r \subseteq 1..Bits
      /\ b \in r <=> Direction
      /\ \A j \in 1..Bits : j # b => (j \in r <=> j \in rom)
  BY <1>0, <1>1 DEF set_bit
<1> HIDE DEF r
<1>3. z \in 0..b
  BY <1>0, <1>1
<1>4. ASSUME NEW d, NEW k \in 1..Bits, k <= b, Agree(d, rom, k)
      PROVE  Agree(d, r, k)
  BY <1>0, <1>2, <1>4 DEF Agree
<1>5. \A j \in 1..Bits : j < ld => (j \in r <=> j \in rom)
  BY <1>0, <1>1, <1>2
<1>6. S \subseteq present /\ S # {}
  BY <1>0, <1>1
<1>7. ASSUME NEW d \in S PROVE Agree(d, r, b + 1)
  <2>1. Agree(d, rom, b)
    BY DEF PassAt
  <2> QED BY <1>0, <1>2, <2>1 DEF Agree
<1>8. ld > 0 /\ b + 1 > ld => ld \in r
  <2>1. CASE b = ld
    BY <1>0, <1>1, <1>2, <2>1
  <2>2. CASE b > ld
    BY <1>0, <1>2, <2>2 DEF PassAt
  <2> QED BY <1>0, <2>1, <2>2
<1>9. ASSUME ld > 0, b + 1 <= ld
      PROVE  Parted(S, r, ld)
  <2>1. PICK f \in selected : Agree(f, rom, ld) /\ ld \notin f
    BY <1>0, <1>9 DEF PassAt, Parted
  <2>2. PICK g \in selected : Agree(g, rom, ld) /\ ld \in g
    BY <1>0, <1>9 DEF PassAt, Parted
  <2>3. f \in S /\ g \in S
    BY <1>0, <1>1, <1>9, <2>1, <2>2 DEF Agree
  <2>4. Agree(f, r, ld) /\ Agree(g, r, ld)
    BY <1>5, <2>1, <2>2 DEF Agree
  <2> HIDE DEF S
  <2> QED BY <2>1, <2>2, <2>3, <2>4 DEF Parted
<1>10. z > 0 => z < b + 1 /\ z \notin r /\ \E g \in present : Agree(g, r, z) /\ z \in g
  <2>1. CASE z = last_zero /\ z > 0
    <3>1. z \notin rom /\ z < b
      BY <1>0, <2>1 DEF PassAt
    <3>2. PICK g \in present : Agree(g, rom, z) /\ z \in g
      BY <2>1 DEF PassAt
    <3>3. Agree(g, r, z)
      BY <1>0, <1>3, <1>4, <2>1, <3>1, <3>2
    <3> QED BY <1>0, <1>2, <1>3, <2>1, <3>1, <3>2, <3>3
  <2>2. CASE z = b /\ ~ Direction /\ \E g \in selected : b \in g
    <3>1. PICK g \in selected : b \in g
      BY <2>2
    <3>2. Agree(g, r, b)
      BY <1>0, <1>4, <3>1 DEF PassAt
    <3> QED BY <1>0, <1>2, <2>2, <3>1, <3>2
  <2> QED BY <1>1, <2>1, <2>2
<1>11. ASSUME NEW d \in stayed \ found, d \notin S
       PROVE  \E k \in 1..Bits :
                 k < b + 1 /\ k <= z /\ Agree(d, r, k) /\ k \in d /\ k \notin r
  <2>1. CASE d \notin selected
    <3>1. PICK k \in 1..Bits :
              k < b /\ k <= last_zero /\ Agree(d, rom, k) /\ k \in d /\ k \notin rom
      BY <2>1 DEF PassAt
    <3>2. k <= z /\ k \notin r /\ k < b + 1
      BY <1>0, <1>1, <1>2, <3>1
    <3>3. Agree(d, r, k)
      BY <1>0, <1>4, <3>1
    <3> QED BY <3>1, <3>2, <3>3
  <2>2. CASE d \in selected /\ Direction
    <3>1. b \notin d /\ b <= ld /\ Agree(d, rom, b)
      BY <1>1, <1>11, <2>2 DEF PassAt
    <3>2. PICK k \in 1..Bits : k <= ld /\ Agree(d, rom, k) /\ k \in d /\ (k < ld => k \notin rom)
      BY <1>0, <3>1 DEF Between, Ahead
    <3>3. CASE k < b
      BY <1>0, <3>1, <3>2, <3>3 DEF Agree
    <3>4. CASE k > b
      <4>1. b < ld /\ b \in rom
        BY <1>0, <1>1, <2>2, <3>2, <3>4
      <4> QED BY <1>0, <3>1, <3>2, <3>4, <4>1 DEF Agree
    <3> QED BY <1>0, <3>1, <3>2, <3>3, <3>4
  <2>3. CASE d \in selected /\ ~ Direction
    <3>1. b \in d /\ z = b
      BY <1>1, <1>11, <2>3
    <3>2. Agree(d, r, b)
      BY <1>0, <1>4, <2>3 DEF PassAt
    <3> QED BY <1>0, <1>2, <2>3, <3>1, <3>2
  <2> QED BY <1>1, <2>1, <2>2, <2>3
<1> HIDE DEF S
<1>12. PassAt(r, S, z, b + 1)
  BY <1>6, <1>7, <1>8, <1>9, <1>10, <1>11 DEF PassAt
<1> QED BY <1>2, <1>3, <1>5, <1>12 DEF r, S, z

-----------------------------------------------------------------------------
\* The last bit of a pass: the code that it found, and the next last discrepancy.
LEMMA PassEnds ==
    ASSUME RomSearchTypeOK, ~ complete, ~ left, Between(rom),
           NEW c, c \subseteq 1..Bits,
           \A j \in 1..Bits : j < last_discrepancy => (j \in c <=> j \in rom),
           NEW S, NEW z \in 0..Bits, PassAt(c, S, z, Bits + 1)
    PROVE  /\ c \in present
           /\ c \notin found
           /\ z = 0 => stayed \subseteq found \cup {c}
           /\ z > 0 => /\ \A f \in found \cup {c} : Behind(f, c, z)
                       /\ \A d \in stayed \ (found \cup {c}) : Ahead(d, c, z)
                       /\ Parted(present, c, z)
<1> DEFINE ld == last_discrepancy
<1>0. /\ Bits \in Nat \ {0} /\ ld \in 0..Bits
      /\ present \subseteq SUBSET (1..Bits) /\ stayed \subseteq present
  BY RomAssumption DEF RomSearchTypeOK
<1>1. ASSUME NEW d \in S PROVE d = c
  <2>1. d \subseteq 1..Bits /\ \A j \in 1..Bits : j \in d <=> j \in c
    BY <1>0 DEF PassAt, Agree
  <2> QED BY <2>1
<1>2. c \in S /\ c \in present
  BY <1>1 DEF PassAt
<1>3. ASSUME NEW d \in stayed \ (found \cup {c})
      PROVE  \E k \in 1..Bits : k <= z /\ Agree(d, c, k) /\ k \in d /\ k \notin c
  <2>1. d \notin S
    BY <1>1
  <2> QED BY <2>1 DEF PassAt
<1>4. ASSUME NEW f \in found
      PROVE  \E k \in 1..Bits : k <= ld /\ Agree(f, c, k) /\ k \notin f /\ k \in c
  <2>1. ld > 0 /\ Behind(f, rom, ld)
    BY <1>0 DEF Between
  <2>2. PICK k \in 1..Bits : k <= ld /\ Agree(f, rom, k) /\ k \notin f /\ (k < ld => k \in rom)
    BY <2>1 DEF Behind
  <2>3. Agree(f, c, k)
    BY <1>0, <2>2 DEF Agree
  <2>4. k \in c
    BY <1>0, <2>1, <2>2 DEF PassAt
  <2> QED BY <2>2, <2>3, <2>4
<1>5. z > 0 => z \notin c /\ \E g \in present : Agree(g, c, z) /\ z \in g
  BY DEF PassAt
<1>6. Agree(c, c, z)
  BY DEF Agree
<1>7. ASSUME z > 0, NEW f \in found \cup {c}
      PROVE  Behind(f, c, z)
  <2>1. CASE f = c
    BY <1>5, <1>6, <1>7, <2>1 DEF Behind
  <2>2. CASE f \in found
    <3>1. PICK k \in 1..Bits : k <= ld /\ Agree(f, c, k) /\ k \notin f /\ k \in c
      BY <1>4, <2>2
    <3>2. CASE k < z
      BY <3>1, <3>2 DEF Behind
    <3>3. CASE z < k
      <4>1. Agree(f, c, z) /\ z \notin f
        BY <1>5, <1>7, <3>1, <3>3 DEF Agree
      <4> QED BY <1>7, <4>1 DEF Behind
    <3> QED BY <1>5, <1>7, <3>1, <3>2, <3>3
  <2> QED BY <2>1, <2>2
<1>8. ASSUME z > 0, NEW d \in stayed \ (found \cup {c})
      PROVE  Ahead(d, c, z)
  BY <1>3 DEF Ahead
<1>9. z > 0 => Parted(present, c, z)
  BY <1>2, <1>5, <1>6 DEF Parted
<1>10. z = 0 => stayed \subseteq found \cup {c}
  BY <1>3
<1> QED BY <1>2, <1>4, <1>7, <1>8, <1>9, <1>10

\* The codes between two passes matter below the last discrepancy only.
LEMMA BetweenDepends ==
    ASSUME RomSearchTypeOK, Between(rom), NEW c,
           \A j \in 1..Bits : j < last_discrepancy => (j \in c <=> j \in rom)
    PROVE  Between(c)
<1> DEFINE ld == last_discrepancy
<1>1. ASSUME NEW d, NEW k \in 1..Bits, k <= ld, Agree(d, rom, k)
      PROVE  Agree(d, c, k)
  BY <1>1 DEF Agree, RomSearchTypeOK
<1>2. ld \in 0..Bits
  BY DEF RomSearchTypeOK
<1>3. ASSUME NEW f, ld > 0, Behind(f, rom, ld)
      PROVE  Behind(f, c, ld)
  <2>1. PICK k \in 1..Bits : k <= ld /\ Agree(f, rom, k) /\ k \notin f /\ (k < ld => k \in rom)
    BY <1>3 DEF Behind
  <2> QED BY <1>1, <2>1 DEF Behind
<1>4. ASSUME NEW d, ld > 0, Ahead(d, rom, ld)
      PROVE  Ahead(d, c, ld)
  <2>1. PICK k \in 1..Bits : k <= ld /\ Agree(d, rom, k) /\ k \in d /\ (k < ld => k \notin rom)
    BY <1>4 DEF Ahead
  <2> QED BY <1>1, <2>1 DEF Ahead
<1>5. ASSUME ld > 0, Parted(present, rom, ld)
      PROVE  Parted(present, c, ld)
  <2>1. ld \in 1..Bits /\ ld <= ld
    BY <1>2, <1>5
  <2> QED BY <1>1, <1>5, <2>1 DEF Parted
<1> QED BY <1>3, <1>4, <1>5 DEF Between

\* The invariant holds at the start ...
LEMMA SearchInit == RomInit => SearchInv
<1> SUFFICES ASSUME RomInit PROVE SearchInv
  OBVIOUS
<1>1. RomSearchTypeOK
  <2>1. /\ 0 \in 0..Bits /\ 0 \in 0..MaxErrors /\ 0 \in 0..MaxMoves /\ 0 \in 0..MaxRestarts
        /\ ~ (0 > 0)
    BY RomAssumption
  <2> QED BY <2>1 DEF RomInit, New, RomSearchTypeOK
<1> QED BY <1>1 DEF RomInit, New, SearchInv, Between

\* ... and is preserved by every step.
LEMMA SearchNext == SearchInv /\ [RomNext]_romVars => SearchInv'
<1> SUFFICES ASSUME SearchInv, [RomNext]_romVars
             PROVE  SearchInv'
  OBVIOUS
<1>0. /\ RomSearchTypeOK /\ Bits \in Nat \ {0}
      /\ complete => bit_number = 0
      /\ ~ left => /\ found \subseteq Roms /\ ~ repeated
                   /\ complete => stayed \subseteq found
                   /\ ~ complete => Between(rom)
                   /\ bit_number > 0 => PassAt(rom, selected, last_zero, bit_number)
  BY RomAssumption DEF SearchInv
<1>1. CASE BeginPass
  <2>1. /\ bit_number' = 1 /\ last_zero' = 0 /\ selected' = present /\ present # {}
        /\ ~ complete
        /\ UNCHANGED <<rom, last_discrepancy, complete, answer, present, stayed, left,
                       found, repeated, errors, moves, restarts>>
    BY <1>1 DEF BeginPass, search, bus, history, counts
  <2>2. RomSearchTypeOK'
    BY <1>0, <2>1 DEF RomSearchTypeOK
  <2>3. ASSUME ~ left PROVE PassAt(rom, present, 0, 1)
    <3>1. \A d \in present : Agree(d, rom, 1)
      BY DEF Agree
    <3>2. last_discrepancy \in 0..Bits /\ stayed \subseteq present
      BY <1>0 DEF RomSearchTypeOK
    <3>3. last_discrepancy > 0 => Parted(present, rom, last_discrepancy)
      BY <1>0, <2>1, <2>3 DEF Between
    <3> QED BY <2>1, <3>1, <3>2, <3>3 DEF PassAt
  <2>4. PassAt(rom, selected, last_zero, bit_number)' <=> PassAt(rom, present, 0, 1)
    BY <2>1 DEF PassAt, Parted, Agree
  <2>5. Between(rom)' <=> Between(rom)
    BY <2>1 DEF Between, Parted, Agree, Ahead, Behind
  <2> QED BY <1>0, <2>1, <2>2, <2>3, <2>4, <2>5 DEF SearchInv
<1>2. CASE AlreadyComplete \/ NoPresence \/ BeginFails \/ SearchProtocol
  <2>1. /\ bit_number' = 0 /\ last_zero' = 0 /\ selected' = {}
        /\ answer' \in {"none", "NoPresence", "Bus", "SearchProtocol"}
        /\ errors' \in 0..MaxErrors
        /\ UNCHANGED <<rom, last_discrepancy, complete, present, stayed, left,
                       found, repeated, moves, restarts>>
    <3>1. errors \in 0..MaxErrors /\ MaxErrors \in Nat
      BY <1>0, RomAssumption DEF RomSearchTypeOK
    <3>2. CASE AlreadyComplete
      BY <3>1, <3>2 DEF AlreadyComplete, RomReturns, search, bus, history, counts
    <3>3. CASE NoPresence
      BY <3>1, <3>3 DEF NoPresence, RomReturns, search, bus, history, counts
    <3>4. CASE BeginFails
      BY <3>1, <3>4 DEF BeginFails, RomReturns, search, bus, history
    <3>5. CASE SearchProtocol
      BY <3>1, <3>5 DEF SearchProtocol, RomReturns, search, bus, history, counts
    <3> QED BY <1>2, <3>2, <3>3, <3>4, <3>5
  <2>2. RomSearchTypeOK'
    BY <1>0, <2>1 DEF RomSearchTypeOK
  <2>3. Between(rom)' <=> Between(rom)
    BY <2>1 DEF Between, Parted, Agree, Ahead, Behind
  <2> QED BY <1>0, <2>1, <2>2, <2>3 DEF SearchInv
<1>3. CASE NextBit
  <2>1. /\ bit_number > 0 /\ bit_number < Bits
        /\ rom' = set_bit(rom, bit_number, Direction)
        /\ bit_number' = bit_number + 1
        /\ last_zero' = LastZero
        /\ selected' = {d \in selected : bit_number \in d <=> Direction}
        /\ UNCHANGED <<last_discrepancy, complete, answer, present, stayed, left,
                       found, repeated, errors, moves, restarts>>
    BY <1>0, <1>3 DEF NextBit, Follow, MoreBits, search, bus, history, counts, RomSearchTypeOK
  <2>2. RomSearchTypeOK'
    <3>1. LastZero \in 0..bit_number
      BY <1>0, <2>1 DEF LastZero, RomSearchTypeOK
    <3>2. rom' \subseteq 1..Bits
      <4>1. rom \subseteq 1..Bits /\ bit_number \in 1..Bits
        BY <1>0, <2>1 DEF RomSearchTypeOK
      <4>2. rom' = rom \cup {bit_number} \/ rom' = rom \ {bit_number}
        BY <2>1 DEF set_bit
      <4> QED BY <4>1, <4>2
    <3>3. /\ last_zero' \in 0..Bits
          /\ bit_number' \in 0..Bits
          /\ bit_number' > 0 => last_zero' < bit_number'
      BY <1>0, <2>1, <3>1, RomAssumption DEF RomSearchTypeOK
    <3>4. selected' \subseteq present'
      BY <1>0, <2>1 DEF RomSearchTypeOK
    <3> QED BY <1>0, <2>1, <3>2, <3>3, <3>4 DEF RomSearchTypeOK
  <2>3. ASSUME ~ left
        PROVE  /\ Between(rom')
               /\ PassAt(rom', selected', last_zero', bit_number')
    <3>1. ~ complete
      BY <1>0, <2>1
    <3>2. /\ \A j \in 1..Bits : j < last_discrepancy => (j \in rom' <=> j \in rom)
          /\ PassAt(rom', selected', last_zero', bit_number')
      BY <1>0, <2>1, <2>3, <3>1, FollowKeeps
    <3>3. Between(rom')
      BY <1>0, <2>3, <3>1, <3>2, BetweenDepends
    <3> QED BY <3>2, <3>3
  <2>4. /\ Between(rom)' <=> Between(rom')
        /\ PassAt(rom, selected, last_zero, bit_number)'
           <=> PassAt(rom', selected', last_zero', bit_number')
    BY <2>1 DEF Between, PassAt, Parted, Agree, Ahead, Behind
  <2> QED BY <1>0, <2>1, <2>2, <2>3, <2>4 DEF SearchInv
<1>4. CASE LastBit
  <2>1. /\ bit_number > 0 /\ bit_number = Bits
        /\ rom' = set_bit(rom, bit_number, Direction)
        /\ last_discrepancy' = LastZero
        /\ complete' = (LastZero = 0)
        /\ bit_number' = 0 /\ last_zero' = 0 /\ selected' = {}
        /\ answer' \in {"Some", "Rom"}
        /\ found' = found \cup {rom'}
        /\ repeated' = (repeated \/ rom' \in found)
        /\ UNCHANGED <<present, stayed, left, errors, moves, restarts>>
    BY <1>0, <1>4 DEF LastBit, Follow, MoreBits, RomReturns, bus, counts, RomSearchTypeOK
  <2>2. LastZero \in 0..Bits /\ rom' \subseteq 1..Bits
    BY <1>0, <2>1 DEF LastZero, set_bit, RomSearchTypeOK
  <2>3. RomSearchTypeOK'
    <3>1. complete' \in BOOLEAN /\ repeated' \in BOOLEAN
      <4>1. complete' \in BOOLEAN
        BY <2>1
      <4>2. repeated' \in BOOLEAN
        BY <2>1
      <4> QED BY <4>1, <4>2
    <3>2. \A code \in found' : code \subseteq 1..Bits
      <4>1. \A code \in found : code \subseteq 1..Bits
        BY <1>0 DEF RomSearchTypeOK
      <4> QED BY <2>1, <2>2, <4>1
    <3>3. 0 \in 0..Bits /\ ~ (0 > 0)
      BY <1>0
    <3> QED BY <1>0, <2>1, <2>2, <3>1, <3>2, <3>3 DEF RomSearchTypeOK
  <2>4. ASSUME ~ left
        PROVE  /\ rom' \in present /\ rom' \notin found
               /\ LastZero = 0 => stayed \subseteq found \cup {rom'}
               /\ LastZero > 0 =>
                     /\ \A f \in found \cup {rom'} : Behind(f, rom', LastZero)
                     /\ \A d \in stayed \ (found \cup {rom'}) : Ahead(d, rom', LastZero)
                     /\ Parted(present, rom', LastZero)
    <3>1. ~ complete
      BY <1>0, <2>1
    <3>2. PICK S : PassAt(rom', S, LastZero, Bits + 1)
      BY <1>0, <2>1, <2>4, <3>1, FollowKeeps
    <3>3. \A j \in 1..Bits : j < last_discrepancy => (j \in rom' <=> j \in rom)
      BY <1>0, <2>1, <2>4, <3>1, FollowKeeps
    <3> QED BY <1>0, <2>2, <2>4, <3>1, <3>2, <3>3, PassEnds
  <2>5. Between(rom)' <=>
          /\ LastZero = 0 => found \cup {rom'} = {}
          /\ LastZero > 0 =>
                /\ \A f \in found \cup {rom'} : Behind(f, rom', LastZero)
                /\ \A d \in stayed \ (found \cup {rom'}) : Ahead(d, rom', LastZero)
                /\ Parted(present, rom', LastZero)
    BY <2>1 DEF Between, Parted, Agree, Ahead, Behind
  <2>6. ASSUME ~ left
        PROVE  /\ found' \subseteq Roms /\ ~ repeated'
               /\ complete' => stayed' \subseteq found'
               /\ ~ complete' => Between(rom)'
    <3>1. present \subseteq Roms
      BY <1>0 DEF RomSearchTypeOK
    <3>2. found' \subseteq Roms /\ ~ repeated'
      BY <1>0, <2>1, <2>4, <2>6, <3>1
    <3>3. complete' => stayed' \subseteq found'
      BY <2>1, <2>4, <2>6
    <3>4. ~ complete' => Between(rom)'
      BY <2>1, <2>2, <2>4, <2>5, <2>6
    <3> QED BY <3>2, <3>3, <3>4
  <2>7. ~ (bit_number' > 0)
    BY <2>1
  <2> QED BY <2>1, <2>3, <2>6, <2>7 DEF SearchInv
<1>5. CASE BitFails
  <2>1. /\ bit_number > 0
        /\ rom' = rom \/ rom' = set_bit(rom, bit_number, Direction)
        /\ bit_number' = 0 /\ last_zero' = 0 /\ selected' = {}
        /\ answer' = "Bus" /\ errors' \in 0..MaxErrors
        /\ UNCHANGED <<last_discrepancy, complete, present, stayed, left,
                       found, repeated, moves, restarts>>
    <3>1. bit_number \in 0..Bits /\ errors \in 0..MaxErrors /\ MaxErrors \in Nat
      BY <1>0, RomAssumption DEF RomSearchTypeOK
    <3>2. rom' = rom \/ rom' = set_bit(rom, bit_number, Direction)
      BY <1>5 DEF BitFails
    <3>3. bit_number # 0 /\ errors < MaxErrors /\ errors' = errors + 1
      BY <1>5 DEF BitFails
    <3>4. bit_number' = 0 /\ last_zero' = 0 /\ selected' = {} /\ answer' = "Bus"
      BY <1>5 DEF BitFails, RomReturns
    <3>5. UNCHANGED <<last_discrepancy, complete, present, stayed, left,
                      found, repeated, moves, restarts>>
      BY <1>5 DEF BitFails, bus, history
    <3> QED BY <3>1, <3>2, <3>3, <3>4, <3>5
  <2>2. RomSearchTypeOK'
    <3>1. rom' \subseteq 1..Bits
      <4>1. rom \subseteq 1..Bits /\ bit_number \in 1..Bits
        BY <1>0, <2>1 DEF RomSearchTypeOK
      <4>2. set_bit(rom, bit_number, Direction) \subseteq 1..Bits
        BY <4>1 DEF set_bit
      <4> QED BY <2>1, <4>1, <4>2
    <3> QED BY <1>0, <2>1, <3>1 DEF RomSearchTypeOK
  <2>3. ASSUME ~ left PROVE Between(rom')
    <3>1. ~ complete
      BY <1>0, <2>1
    <3>2. \A j \in 1..Bits : j < last_discrepancy => (j \in rom' <=> j \in rom)
      BY <1>0, <2>1, <2>3, <3>1, FollowKeeps
    <3> QED BY <1>0, <2>3, <3>1, <3>2, BetweenDepends
  <2>4. Between(rom)' <=> Between(rom')
    BY <2>1 DEF Between, Parted, Agree, Ahead, Behind
  <2> QED BY <1>0, <2>1, <2>2, <2>3, <2>4 DEF SearchInv
<1>6. CASE restart
  <2>1. /\ bit_number = 0
        /\ rom' = {} /\ last_discrepancy' = 0 /\ complete' = FALSE
        /\ found' = {} /\ repeated' = FALSE /\ stayed' = present /\ left' = FALSE
        /\ restarts' \in 0..MaxRestarts
        /\ UNCHANGED <<bit_number, last_zero, selected, answer, present, errors, moves>>
    BY <1>0, <1>6, RomAssumption DEF restart, pass, RomSearchTypeOK
  <2>2. RomSearchTypeOK'
    BY <1>0, <2>1 DEF RomSearchTypeOK
  <2>3. Between(rom)'
    BY <2>1 DEF Between
  <2> QED BY <1>0, <2>1, <2>2, <2>3 DEF SearchInv
<1>7. ASSUME NEW d \in Roms, Comes(d)
      PROVE  SearchInv'
  <2>1. /\ present' = present \cup {d} /\ moves' \in 0..MaxMoves
        /\ UNCHANGED <<rom, last_discrepancy, complete, bit_number, last_zero, selected,
                       answer, stayed, left, found, repeated, errors, restarts>>
    BY <1>0, <1>7, RomAssumption DEF Comes, search, pass, history, RomSearchTypeOK
  <2>2. RomSearchTypeOK'
    BY <1>0, <2>1 DEF RomSearchTypeOK
  <2>3. Between(rom) => Between(rom)'
    BY <2>1 DEF Between, Parted, Agree, Ahead, Behind
  <2>4. PassAt(rom, selected, last_zero, bit_number)
        => PassAt(rom, selected, last_zero, bit_number)'
    BY <2>1 DEF PassAt, Parted, Agree
  <2> QED BY <1>0, <2>1, <2>2, <2>3, <2>4 DEF SearchInv
<1>8. ASSUME NEW d \in Roms, Goes(d)
      PROVE  SearchInv'
  <2>1. /\ present' = present \ {d} /\ moves' \in 0..MaxMoves
        /\ stayed' = stayed \ {d} /\ selected' = selected \ {d} /\ left' = TRUE
        /\ UNCHANGED <<rom, last_discrepancy, complete, bit_number, last_zero,
                       answer, found, repeated, errors, restarts>>
    BY <1>0, <1>8, RomAssumption DEF Goes, search, history, RomSearchTypeOK
  <2>2. RomSearchTypeOK'
    BY <1>0, <2>1 DEF RomSearchTypeOK
  <2> QED BY <1>0, <2>1, <2>2 DEF SearchInv
<1>9. CASE UNCHANGED romVars
  <2>1. UNCHANGED <<rom, last_discrepancy, complete, bit_number, last_zero, selected,
                    answer, present, stayed, left, found, repeated, errors, moves, restarts>>
    BY <1>9 DEF romVars, search, pass, bus, history, counts
  <2> QED BY <2>1 DEF SearchInv, RomSearchTypeOK, Between, PassAt, Parted, Agree, Ahead, Behind
<1> QED BY <1>1, <1>2, <1>3, <1>4, <1>5, <1>6, <1>7, <1>8, <1>9 DEF RomNext

\* The state of a search is a path and a bit of it.
THEOREM RomTypeCorrect == RomSpec => []RomSearchTypeOK
<1>1. RomSpec => []SearchInv
  BY SearchInit, SearchNext, PTL DEF RomSpec
<1>2. SearchInv => RomSearchTypeOK
  BY DEF SearchInv
<1> QED BY <1>1, <1>2, PTL

\* As long as no device goes away, the search finds each device, and once, for any
\* number of bits, devices and failed passes.
THEOREM SearchCorrect == RomSpec => []FindsEachDeviceOnce
<1>1. RomSpec => []SearchInv
  BY SearchInit, SearchNext, PTL DEF RomSpec
<1>2. SearchInv => FindsEachDeviceOnce
  BY DEF SearchInv, FindsEachDeviceOnce
<1> QED BY <1>1, <1>2, PTL

(***************************************************************************)
(* THE SW3538 DRIVER.                                                      *)
(***************************************************************************)
-----------------------------------------------------------------------------
\* Arithmetic.

\* A quotient times its divisor, for the voltages of PD.
LEMMA Division ==
    ASSUME NEW x \in Nat
    PROVE  /\ x \div 10 \in Nat /\ 10 * (x \div 10) <= x
           /\ x \div 5000 \in Nat /\ 5000 * (x \div 5000) <= x
           /\ x \div 9000 \in Nat /\ 9000 * (x \div 9000) <= x
           /\ x \div 12000 \in Nat /\ 12000 * (x \div 12000) <= x
           /\ x \div 15000 \in Nat /\ 15000 * (x \div 15000) <= x
           /\ x \div 20000 \in Nat /\ 20000 * (x \div 20000) <= x
BY SMT

\* The cap on a current, in 10 mA.
LEMMA Bounded ==
    ASSUME NEW i \in Nat, i <= 5000, NEW q \in Nat
    PROVE  LET c == AtMost(AtMost(i, q) \div 10, 1023)
           IN  c \in 0..500 /\ 10 * c <= i /\ 10 * c <= q
BY Division, SMT DEF AtMost

\* A current within the power limit.
LEMMA Power ==
    ASSUME NEW x \in Nat, NEW q \in Nat, NEW c \in Nat, 10 * c <= q
    PROVE  /\ 5000 * q <= x => 10 * c * 5000 <= x
           /\ 9000 * q <= x => 10 * c * 9000 <= x
           /\ 12000 * q <= x => 10 * c * 12000 <= x
           /\ 15000 * q <= x => 10 * c * 15000 <= x
           /\ 20000 * q <= x => 10 * c * 20000 <= x
BY SMT

\* The currents of a plan stay within the current and the power of its policy.
LEMMA CurrentBounds ==
    ASSUME NEW limits \in PdLimits, WithinSafeMax(limits), NEW v \in Voltages
    PROVE  /\ CurrentFor(limits, v) \in 0..500
           /\ 10 * CurrentFor(limits, v) <= limits.max_current_ma
           /\ 10 * CurrentFor(limits, v) * v <= 1000 * limits.max_power_mw
<1> DEFINE x == limits.max_power_mw * 1000
           q == x \div v
<1>1. /\ limits.max_current_ma \in Nat /\ limits.max_current_ma <= 5000
      /\ x \in Nat /\ 1000 * limits.max_power_mw = x
  BY SMT DEF WithinSafeMax, PdLimits
<1>2. /\ q \in Nat
      /\ v \in {5000, 9000, 12000, 15000, 20000}
      /\ v * q <= x
  <2> HIDE DEF x
  <2>1. CASE v = 5000  BY <1>1, <2>1, Division
  <2>2. CASE v = 9000  BY <1>1, <2>2, Division
  <2>3. CASE v = 12000  BY <1>1, <2>3, Division
  <2>4. CASE v = 15000  BY <1>1, <2>4, Division
  <2>5. CASE v = 20000  BY <1>1, <2>5, Division
  <2> QED BY <2>1, <2>2, <2>3, <2>4, <2>5 DEF Voltages
<1>3. CurrentFor(limits, v) = AtMost(AtMost(limits.max_current_ma, q) \div 10, 1023)
  BY SMT DEF CurrentFor
<1> HIDE DEF q, x
<1>4. /\ CurrentFor(limits, v) \in 0..500
      /\ 10 * CurrentFor(limits, v) <= limits.max_current_ma
      /\ 10 * CurrentFor(limits, v) <= q
  <2> DEFINE i == limits.max_current_ma
             c == AtMost(AtMost(i, q) \div 10, 1023)
  <2> HIDE DEF i
  <2>1. i \in Nat /\ i <= 5000
    BY <1>1 DEF i
  <2>2. c \in 0..500 /\ 10 * c <= i /\ 10 * c <= q
    BY <2>1, <1>2, Bounded
  <2>3. CurrentFor(limits, v) = c
    BY <1>3 DEF i
  <2> HIDE DEF c
  <2> QED BY <2>2, <2>3 DEF i
<1>5. 10 * CurrentFor(limits, v) * v <= x
  <2> DEFINE c == CurrentFor(limits, v)
  <2> c \in Nat /\ 10 * c <= q  BY <1>4
  <2> HIDE DEF c
  <2> 10 * c * v <= x  BY <1>1, <1>2, Power
  <2> QED BY DEF c
<1> QED BY <1>1, <1>4, <1>5

\* Eight high bits and two low ones make up a current of ten bits.
LEMMA SplitCurrent ==
    ASSUME NEW c \in 0..500
    PROVE  High(c) \in 0..255 /\ 4 * High(c) + (c % 4) = c /\ c % 4 \in 0..3
BY SMT DEF High

\* The register with the low bits of four currents gives each of them back.
LEMMA LowBitsPacked ==
    ASSUME NEW a \in 0..3, NEW b \in 0..3, NEW c \in 0..3, NEW d \in 0..3
    PROVE  LET low == 64 * d + 16 * c + 4 * b + a
           IN  /\ low \in 0..255
               /\ low % 4 = a /\ (low \div 4) % 4 = b
               /\ (low \div 16) % 4 = c /\ (low \div 64) % 4 = d
BY SMT

\* The bits of a byte ...
LEMMA BitValues ==
    ASSUME NEW x \in 0..255
    PROVE  /\ Bit(x, 1) \in 0..1 /\ Bit(x, 2) \in 0..1
           /\ Bit(x, 4) \in 0..1 /\ Bit(x, 8) \in 0..1
           /\ Bit(x, 16) \in 0..1 /\ Bit(x, 32) \in 0..1
           /\ Bit(x, 64) \in 0..1 /\ Bit(x, 128) \in 0..1
BY SMT DEF Bit

\* ... make it up, and are found in it again.
LEMMA BitsOf ==
    ASSUME NEW b1 \in 0..1, NEW b2 \in 0..1, NEW b4 \in 0..1, NEW b8 \in 0..1,
           NEW b16 \in 0..1, NEW b32 \in 0..1, NEW b64 \in 0..1, NEW b128 \in 0..1
    PROVE  LET x == 128 * b128 + 64 * b64 + 32 * b32 + 16 * b16
                    + 8 * b8 + 4 * b4 + 2 * b2 + b1
           IN  /\ x \in 0..255
               /\ Bit(x, 1) = b1 /\ Bit(x, 2) = b2 /\ Bit(x, 4) = b4 /\ Bit(x, 8) = b8
               /\ Bit(x, 16) = b16 /\ Bit(x, 32) = b32 /\ Bit(x, 64) = b64
               /\ Bit(x, 128) = b128
               /\ x % 4 = 2 * b2 + b1
<1> DEFINE x == 128 * b128 + 64 * b64 + 32 * b32 + 16 * b16
                + 8 * b8 + 4 * b4 + 2 * b2 + b1
<1>1. /\ x \in 0..255
      /\ Bit(x, 1) = b1 /\ Bit(x, 2) = b2 /\ Bit(x, 4) = b4 /\ Bit(x, 8) = b8
  BY SMT DEF Bit
<1>2. /\ Bit(x, 16) = b16 /\ Bit(x, 32) = b32 /\ Bit(x, 64) = b64
      /\ Bit(x, 128) = b128
  BY SMT DEF Bit
<1>3. x % 4 = 2 * b2 + b1
  BY SMT
<1> HIDE DEF x
<1>4. /\ x \in 0..255
      /\ Bit(x, 1) = b1 /\ Bit(x, 2) = b2 /\ Bit(x, 4) = b4 /\ Bit(x, 8) = b8
      /\ Bit(x, 16) = b16 /\ Bit(x, 32) = b32 /\ Bit(x, 64) = b64
      /\ Bit(x, 128) = b128
      /\ x % 4 = 2 * b2 + b1
  BY <1>1, <1>2, <1>3
<1> QED BY <1>4 DEF x

\* The register with the enable bits.
LEMMA EnableBitsPacked ==
    ASSUME NEW a \in 0..1, NEW b \in 0..1, NEW c \in 0..1, NEW d \in 0..1
    PROVE  LET bits == 1 * a + 2 * b + 4 * c + 8 * d
           IN  /\ bits \in 0..255
               /\ Bit(bits, 1) = a /\ Bit(bits, 2) = b
               /\ Bit(bits, 4) = c /\ Bit(bits, 8) = d
<1>1. LET bits == 128 * 0 + 64 * 0 + 32 * 0 + 16 * 0 + 8 * d + 4 * c + 2 * b + a
      IN  /\ bits \in 0..255
          /\ Bit(bits, 1) = a /\ Bit(bits, 2) = b
          /\ Bit(bits, 4) = c /\ Bit(bits, 8) = d
          /\ bits = 1 * a + 2 * b + 4 * c + 8 * d
  BY BitsOf
<1> QED BY <1>1

\* What is left of a byte under the masks of modify_protected.
LEMMA AndMasks ==
    ASSUME NEW x \in 0..255
    PROVE  /\ And(x, 254) = 128 * Bit(x, 128) + 64 * Bit(x, 64) + 32 * Bit(x, 32)
                            + 16 * Bit(x, 16) + 8 * Bit(x, 8) + 4 * Bit(x, 4) + 2 * Bit(x, 2)
           /\ And(x, 1) = Bit(x, 1)
           /\ And(x, 12) = 8 * Bit(x, 8) + 4 * Bit(x, 4)
           /\ And(x, 243) = 128 * Bit(x, 128) + 64 * Bit(x, 64) + 32 * Bit(x, 32)
                            + 16 * Bit(x, 16) + 2 * Bit(x, 2) + Bit(x, 1)
           /\ And(x, 253) = 128 * Bit(x, 128) + 64 * Bit(x, 64) + 32 * Bit(x, 32)
                            + 16 * Bit(x, 16) + 8 * Bit(x, 8) + 4 * Bit(x, 4) + Bit(x, 1)
           /\ And(x, 2) = 2 * Bit(x, 2)
<1>1. /\ Bit(254, 1) = 0 /\ Bit(254, 2) = 1 /\ Bit(254, 4) = 1 /\ Bit(254, 8) = 1
      /\ Bit(254, 16) = 1 /\ Bit(254, 32) = 1 /\ Bit(254, 64) = 1 /\ Bit(254, 128) = 1
  BY SMT DEF Bit
<1>2. /\ Bit(1, 1) = 1 /\ Bit(1, 2) = 0 /\ Bit(1, 4) = 0 /\ Bit(1, 8) = 0
      /\ Bit(1, 16) = 0 /\ Bit(1, 32) = 0 /\ Bit(1, 64) = 0 /\ Bit(1, 128) = 0
  BY SMT DEF Bit
<1>3. /\ Bit(12, 1) = 0 /\ Bit(12, 2) = 0 /\ Bit(12, 4) = 1 /\ Bit(12, 8) = 1
      /\ Bit(12, 16) = 0 /\ Bit(12, 32) = 0 /\ Bit(12, 64) = 0 /\ Bit(12, 128) = 0
  BY SMT DEF Bit
<1>4. /\ Bit(243, 1) = 1 /\ Bit(243, 2) = 1 /\ Bit(243, 4) = 0 /\ Bit(243, 8) = 0
      /\ Bit(243, 16) = 1 /\ Bit(243, 32) = 1 /\ Bit(243, 64) = 1 /\ Bit(243, 128) = 1
  BY SMT DEF Bit
<1>5. /\ Bit(253, 1) = 1 /\ Bit(253, 2) = 0 /\ Bit(253, 4) = 1 /\ Bit(253, 8) = 1
      /\ Bit(253, 16) = 1 /\ Bit(253, 32) = 1 /\ Bit(253, 64) = 1 /\ Bit(253, 128) = 1
  BY SMT DEF Bit
<1>6. /\ Bit(2, 1) = 0 /\ Bit(2, 2) = 1 /\ Bit(2, 4) = 0 /\ Bit(2, 8) = 0
      /\ Bit(2, 16) = 0 /\ Bit(2, 32) = 0 /\ Bit(2, 64) = 0 /\ Bit(2, 128) = 0
  BY SMT DEF Bit
<1> QED BY <1>1, <1>2, <1>3, <1>4, <1>5, <1>6, BitValues, SMTT(60) DEF And

\* modify_protected writes the bits of its mask and keeps the others.
LEMMA UpdatePdControl ==
    ASSUME NEW h \in Byte, NEW v \in 0..1
    PROVE  /\ And(h, 254) + And(v, 1) \in Byte
           /\ Bit(And(h, 254) + And(v, 1), 1) = v
           /\ And(And(h, 254) + And(v, 1), 254) = And(h, 254)
<1>1. And(v, 1) = v
  <2>1. Bit(v, 1) = v  BY SMT DEF Bit
  <2> QED BY <2>1, AndMasks
<1>2. LET y == 128 * Bit(h, 128) + 64 * Bit(h, 64) + 32 * Bit(h, 32)
               + 16 * Bit(h, 16) + 8 * Bit(h, 8) + 4 * Bit(h, 4) + 2 * Bit(h, 2) + v
      IN  /\ y \in Byte /\ Bit(y, 1) = v /\ And(y, 254) = And(h, 254)
          /\ y = And(h, 254) + And(v, 1)
  BY <1>1, BitValues, BitsOf, AndMasks DEF Byte
<1> QED BY <1>2

\* The same for the register of the 5 V current,
LEMMA UpdateCurrentControl ==
    ASSUME NEW h \in Byte, NEW c \in 0..3
    PROVE  /\ And(h, 12) + And(32 + c, 243) \in Byte
           /\ (And(h, 12) + And(32 + c, 243)) % 4 = c
           /\ And(And(h, 12) + And(32 + c, 243), 12) = And(h, 12)
<1>1. /\ Bit(32 + c, 128) = 0 /\ Bit(32 + c, 64) = 0 /\ Bit(32 + c, 32) = 1
      /\ Bit(32 + c, 16) = 0 /\ 2 * Bit(32 + c, 2) + Bit(32 + c, 1) = c
      /\ Bit(32 + c, 1) \in 0..1 /\ Bit(32 + c, 2) \in 0..1
  BY SMT DEF Bit
<1>2. And(32 + c, 243) = 32 + 2 * Bit(32 + c, 2) + Bit(32 + c, 1)
  BY <1>1, AndMasks
<1>3. LET y == 128 * 0 + 64 * 0 + 32 * 1 + 16 * 0 + 8 * Bit(h, 8) + 4 * Bit(h, 4)
               + 2 * Bit(32 + c, 2) + Bit(32 + c, 1)
      IN  /\ y \in Byte /\ y % 4 = c /\ And(y, 12) = And(h, 12)
          /\ y = And(h, 12) + And(32 + c, 243)
  BY <1>1, <1>2, BitValues, BitsOf, AndMasks DEF Byte
<1> QED BY <1>3

\* and for the one with the CC bit.
LEMMA UpdatePort ==
    ASSUME NEW h \in Byte, NEW u \in 0..1
    PROVE  /\ And(h, 253) + And(2 * u, 2) \in Byte
           /\ Bit(And(h, 253) + And(2 * u, 2), 2) = u
           /\ And(And(h, 253) + And(2 * u, 2), 253) = And(h, 253)
<1>1. And(2 * u, 2) = 2 * u
  <2>1. Bit(2 * u, 2) = u  BY SMT DEF Bit
  <2> QED BY <2>1, AndMasks
<1>2. LET y == 128 * Bit(h, 128) + 64 * Bit(h, 64) + 32 * Bit(h, 32)
               + 16 * Bit(h, 16) + 8 * Bit(h, 8) + 4 * Bit(h, 4) + 2 * u + Bit(h, 1)
      IN  /\ y \in Byte /\ Bit(y, 2) = u /\ And(y, 253) = And(h, 253)
          /\ y = And(h, 253) + And(2 * u, 2)
  BY <1>1, BitValues, BitsOf, AndMasks DEF Byte
<1> QED BY <1>2

-----------------------------------------------------------------------------
\* Registers and programs.

\* A flag is a bit.
LEMMA FlagValue == ASSUME NEW b PROVE Flag(b) \in 0..1
BY DEF Flag

\* The registers the driver has a name for.
Readable == Writable \cup AdcData \cup StatusRegisters

\* The bank of a register, and its address there.
LEMMA RegisterFacts ==
    ASSUME NEW r \in Readable
    PROVE  /\ r \in Nat /\ Extended(r) \in BOOLEAN
           /\ Extended(r) => 256 + (r % 256) = r /\ r % 256 \in 0..255 /\ r # 384
           /\ ~ Extended(r) => r % 256 = r /\ r # 16 /\ r # 384
           /\ r # 16
BY SMT DEF Readable, Writable, PdoRegisters, CurrentRegisters, AdcData, StatusRegisters,
           PORT_CONTROL, ADC_SELECT, PD_COMMAND, PD_CONTROL, PD_VOLTAGE_ENABLE,
           PD_FIXED_CURRENT_CONTROL, PD_FIXED_CURRENT_LOW, Extended

\* The registers that are only updated in part.
Shared == {PD_CONTROL, PD_FIXED_CURRENT_CONTROL, PORT_CONTROL}

\* What the driver has reason to access.
Operations ==
    {[kind |-> "read", register |-> r, mask |-> 0, value |-> 0] : r \in Readable}
    \cup {[kind |-> "write", register |-> r, mask |-> 255, value |-> v] :
             r \in Writable \ Shared, v \in Byte}
    \cup {[kind |-> "write", register |-> PD_CONTROL, mask |-> 1, value |-> v] : v \in 0..1}
    \cup {[kind |-> "write", register |-> PD_FIXED_CURRENT_CONTROL, mask |-> 243,
           value |-> 32 + c] : c \in 0..3}
    \cup {[kind |-> "write", register |-> PORT_CONTROL, mask |-> 2, value |-> 2 * u] :
             u \in 0..1}

\* What is written is a byte.
LEMMA ValueIsByte ==
    ASSUME NEW op \in Operations, op.kind = "write", held \in Byte
    PROVE  Value(op) \in Byte
<1>1. CASE op.mask = 255
  BY <1>1 DEF Operations, Value
<1>2. CASE op.mask = 1
  <2>1. op.value \in 0..1 /\ Value(op) = And(held, 254) + And(op.value, 1)
    BY <1>2 DEF Operations, Value
  <2> QED BY <2>1, UpdatePdControl
<1>3. CASE op.mask = 243
  <2>1. PICK c \in 0..3 : op.value = 32 + c
    BY <1>3 DEF Operations
  <2>2. Value(op) = And(held, 12) + And(32 + c, 243)
    BY <1>3, <2>1 DEF Value
  <2> QED BY <2>2, UpdateCurrentControl
<1>4. CASE op.mask = 2
  <2>1. PICK u \in 0..1 : op.value = 2 * u
    BY <1>4 DEF Operations
  <2>2. Value(op) = And(held, 253) + And(2 * u, 2)
    BY <1>4, <2>1 DEF Value
  <2> QED BY <2>2, UpdatePort
<1> QED BY <1>1, <1>2, <1>3, <1>4 DEF Operations

\* The parts of a plan fit the registers.
LEMMA PlanFits ==
    ASSUME NEW p \in Policies, Acceptable(p)
    PROVE  LET plan == from_policy(p)
           IN  /\ plan.pd_enabled = p.enabled /\ p.enabled \in BOOLEAN
               /\ \A v \in Voltages : plan.current[v] \in 0..500
               /\ p.enabled =>
                     /\ \A v \in plan.enabled : v <= p.pd_limits.max_voltage_mv
                     /\ \A v \in Voltages :
                           /\ 10 * plan.current[v] <= p.pd_limits.max_current_ma
                           /\ 10 * plan.current[v] * v <= 1000 * p.pd_limits.max_power_mw
<1> DEFINE plan == from_policy(p)
           limits == p.pd_limits
<1>1. p.enabled \in BOOLEAN /\ limits \in PdLimits /\ WithinSafeMax(limits)
  BY Sw3538Assumption DEF Acceptable
<1>2. plan.pd_enabled = p.enabled
  BY DEF from_policy
<1>3. ASSUME NEW v \in Voltages
      PROVE  plan.current[v] = 0 \/ (p.enabled /\ plan.current[v] = CurrentFor(limits, v))
  BY DEF from_policy
<1>4. ASSUME NEW v \in Voltages
      PROVE  /\ plan.current[v] \in 0..500
             /\ 10 * plan.current[v] <= limits.max_current_ma
             /\ 10 * plan.current[v] * v <= 1000 * limits.max_power_mw
  <2>1. CASE plan.current[v] = 0
    <3>1. limits.max_current_ma \in Nat /\ limits.max_power_mw \in Nat /\ v \in Nat
      BY <1>1 DEF PdLimits, Voltages
    <3> HIDE DEF plan, limits
    <3> QED BY <2>1, <3>1
  <2>2. CASE plan.current[v] = CurrentFor(limits, v)
    <3> HIDE DEF plan, limits
    <3> QED BY <1>1, <2>2, CurrentBounds
  <2> QED BY <1>3, <2>1, <2>2
<1>5. ASSUME NEW v \in plan.enabled
      PROVE  v <= limits.max_voltage_mv
  <2>1. v \in Voltages /\ EnabledVoltage(limits, v)
    BY DEF from_policy
  <2> HIDE DEF plan, limits
  <2> QED BY <1>1, <2>1 DEF EnabledVoltage, Voltages, PdLimits
<1> HIDE DEF plan, limits
<1>6. /\ plan.pd_enabled = p.enabled /\ p.enabled \in BOOLEAN
      /\ \A v \in Voltages : plan.current[v] \in 0..500
      /\ \A v \in plan.enabled : v <= limits.max_voltage_mv
      /\ \A v \in Voltages :
            /\ 10 * plan.current[v] <= limits.max_current_ma
            /\ 10 * plan.current[v] * v <= 1000 * limits.max_power_mw
  BY <1>1, <1>2, <1>4, <1>5
<1> QED BY <1>6 DEF plan, limits

\* Every access of every call is one the driver has a register for.
LEMMA ProgramShape ==
    ASSUME NEW c \in Calls
    PROVE  /\ Len(Program(c)) \in Nat \ {0}
           /\ \A i \in 1..Len(Program(c)) : Program(c)[i] \in Operations
<1> DEFINE R(r) == [kind |-> "read", register |-> r, mask |-> 0, value |-> 0]
           W(r, v) == [kind |-> "write", register |-> r, mask |-> 255, value |-> v]
<1>1. ASSUME NEW r \in Readable
      PROVE  R(r) \in Operations
  BY DEF Operations
<1>2. ASSUME NEW r \in Writable \ Shared, NEW v \in Byte
      PROVE  W(r, v) \in Operations
  BY DEF Operations
<1> HIDE DEF R, W
<1>3. CASE c.name = "adc"
  <2>1. c.argument \in Byte
    BY <1>3, Sw3538Assumption DEF Calls, Call, Byte
  <2>2. Program(c) = <<W(ADC_SELECT, c.argument), R(65), R(66)>>
    BY <1>3 DEF Program, read_adc, Read, Write, R, W
  <2>3. ADC_SELECT \in Writable \ Shared /\ 65 \in Readable /\ 66 \in Readable
    BY DEF Writable, Readable, AdcData, Shared, PD_CONTROL, PD_FIXED_CURRENT_CONTROL,
           PORT_CONTROL, ADC_SELECT
  <2>4. Len(Program(c)) = 3
    BY <2>2
  <2>5. ASSUME NEW i \in 1..3 PROVE Program(c)[i] \in Operations
    BY <1>1, <1>2, <2>1, <2>2, <2>3
  <2> QED BY <2>4, <2>5
<1>4. CASE c.name = "cc"
  <2> DEFINE U == [kind |-> "write", register |-> PORT_CONTROL, mask |-> 2,
                   value |-> 2 * c.argument]
  <2>1. c.argument \in 0..1 /\ U \in Operations
    BY <1>4 DEF Calls, Call, Operations
  <2>2. Program(c) = <<R(PORT_CONTROL), U>>
    BY <1>4 DEF Program, set_cc_undriven, Read, Update, R
  <2>3. PORT_CONTROL \in Readable
    BY DEF Writable, Readable
  <2>4. Len(Program(c)) = 2
    BY <2>2
  <2> HIDE DEF U
  <2>5. ASSUME NEW i \in 1..2 PROVE Program(c)[i] \in Operations
    BY <1>1, <2>1, <2>2, <2>3
  <2> QED BY <2>4, <2>5
<1>5. CASE c.name = "capabilities"
  <2>1. Program(c) = <<W(PD_COMMAND, 10)>>
    BY <1>5 DEF Program, send_source_capabilities, Write, W
  <2>2. PD_COMMAND \in Writable \ Shared /\ 10 \in Byte
    BY DEF Writable, Byte, Shared, PD_CONTROL, PD_FIXED_CURRENT_CONTROL, PORT_CONTROL,
           PD_COMMAND
  <2>3. Len(Program(c)) = 1
    BY <2>1
  <2>4. ASSUME NEW i \in 1..1 PROVE Program(c)[i] \in Operations
    BY <1>2, <2>1, <2>2
  <2> QED BY <2>3, <2>4
<1>6. CASE c.name = "identity"
  <2>1. Program(c) = <<R(0), R(2)>>
    BY <1>6 DEF Program, read_identity, Read, R
  <2>2. 0 \in Readable /\ 2 \in Readable
    BY DEF Readable, StatusRegisters
  <2>3. Len(Program(c)) = 2
    BY <2>1
  <2>4. ASSUME NEW i \in 1..2 PROVE Program(c)[i] \in Operations
    BY <1>1, <2>1, <2>2
  <2> QED BY <2>3, <2>4
<1>7. CASE c.name = "status"
  <2>1. Program(c) = <<R(10), R(13), R(9)>>
    BY <1>7 DEF Program, read_status, Read, R
  <2>2. 10 \in Readable /\ 13 \in Readable /\ 9 \in Readable
    BY DEF Readable, StatusRegisters
  <2>3. Len(Program(c)) = 3
    BY <2>1
  <2>4. ASSUME NEW i \in 1..3 PROVE Program(c)[i] \in Operations
    BY <1>1, <2>1, <2>2
  <2> QED BY <2>3, <2>4
<1>8. CASE c.name = "apply"
  <2> DEFINE plan == from_policy(c.argument)
             low5 == plan.current[5000] % 4
             H(v) == High(plan.current[v])
             Off == [kind |-> "write", register |-> PD_CONTROL, mask |-> 1, value |-> 0]
             Control == [kind |-> "write", register |-> PD_FIXED_CURRENT_CONTROL,
                         mask |-> 243, value |-> 32 + low5]
             On == [kind |-> "write", register |-> PD_CONTROL, mask |-> 1,
                    value |-> Flag(plan.pd_enabled)]
  <2>1. Program(c) =
          <<R(PD_CONTROL), Off, W(PD_VOLTAGE_ENABLE, enabled_voltage_bits(plan)),
            R(PD_FIXED_CURRENT_CONTROL), Control,
            W(294, H(5000)), W(295, H(9000)), W(296, H(12000)), W(297, H(15000)),
            W(298, H(20000)), W(PD_FIXED_CURRENT_LOW, fixed_current_low(plan)),
            R(PD_CONTROL), On>>
    BY <1>8 DEF Program, apply_fixed_pdo_plan, Read, Write, Update, R, W, CurrentHigh, Voltages
  <2>2. c.argument \in Policies /\ Acceptable(c.argument)
    BY <1>8 DEF Calls, Call
  <2> HIDE DEF plan
  <2>3. \A v \in Voltages : plan.current[v] \in 0..500
    BY <2>2, PlanFits, SMTT(60) DEF plan
  <2>4. \A v \in Voltages : H(v) \in Byte /\ plan.current[v] % 4 \in 0..3
    BY <2>3, SplitCurrent, ZenonT(60) DEF Byte
  <2>5. enabled_voltage_bits(plan) \in Byte
    <3>1. /\ Flag(9000 \in plan.enabled) \in 0..1 /\ Flag(12000 \in plan.enabled) \in 0..1
          /\ Flag(15000 \in plan.enabled) \in 0..1 /\ Flag(20000 \in plan.enabled) \in 0..1
      BY FlagValue
    <3> QED BY <3>1, EnableBitsPacked DEF enabled_voltage_bits, Byte
  <2>6. fixed_current_low(plan) \in Byte
    <3>1. /\ plan.current[9000] % 4 \in 0..3 /\ plan.current[12000] % 4 \in 0..3
          /\ plan.current[15000] % 4 \in 0..3 /\ plan.current[20000] % 4 \in 0..3
      BY <2>4 DEF Voltages
    <3>2. \A a, b, d, e \in 0..3 : 64 * e + 16 * d + 4 * b + a \in 0..255
      OBVIOUS
    <3> QED BY <3>1, <3>2 DEF fixed_current_low, Byte
  <2>7. Off \in Operations /\ Control \in Operations /\ On \in Operations
    <3>1. low5 \in 0..3 /\ Flag(plan.pd_enabled) \in 0..1
      BY <2>4 DEF Flag, Voltages
    <3> HIDE DEF low5
    <3> QED BY <3>1 DEF Operations
  <2>8. /\ {PD_CONTROL, PD_FIXED_CURRENT_CONTROL} \subseteq Readable
        /\ {PD_VOLTAGE_ENABLE, PD_FIXED_CURRENT_LOW, 294, 295, 296, 297, 298}
              \subseteq Writable \ Shared
    BY DEF Readable, Writable, PdoRegisters, CurrentRegisters, Shared, PD_CONTROL,
           PD_FIXED_CURRENT_CONTROL, PORT_CONTROL, PD_VOLTAGE_ENABLE, PD_FIXED_CURRENT_LOW
  <2>9. Len(Program(c)) = 13
    BY <2>1
  <2> HIDE DEF H, Off, Control, On
  <2>10. ASSUME NEW i \in 1..13 PROVE Program(c)[i] \in Operations
    <3>1. CASE i \in 1..5
      BY <3>1, <1>1, <1>2, <2>1, <2>5, <2>7, <2>8
    <3>2. CASE i \in 6..9
      BY <3>2, <1>1, <1>2, <2>1, <2>4, <2>8 DEF Voltages
    <3>3. CASE i \in 10..13
      BY <3>3, <1>1, <1>2, <2>1, <2>4, <2>6, <2>7, <2>8 DEF Voltages
    <3> QED BY <3>1, <3>2, <3>3
  <2> QED BY <2>9, <2>10
<1> QED BY <1>3, <1>4, <1>5, <1>6, <1>7, <1>8 DEF Calls, Call

\* Only apply_fixed_pdo_plan writes what PD offers.
LEMMA OtherWrites ==
    ASSUME NEW c \in Calls, c.name # "apply", NEW i \in 1..Len(Program(c)),
           Program(c)[i].kind = "write"
    PROVE  Program(c)[i].register \in {17, 64, 167}
<1>1. CASE c.name = "adc"
  BY <1>1 DEF Program, read_adc, Read, Write, ADC_SELECT
<1>2. CASE c.name = "cc"
  BY <1>2 DEF Program, set_cc_undriven, Read, Update, PORT_CONTROL
<1>3. CASE c.name = "capabilities"
  BY <1>3 DEF Program, send_source_capabilities, Write, PD_COMMAND
<1>4. CASE c.name = "identity"
  BY <1>4 DEF Program, read_identity, Read
<1>5. CASE c.name = "status"
  BY <1>5 DEF Program, read_status, Read
<1> QED BY <1>1, <1>2, <1>3, <1>4, <1>5 DEF Calls, Call

\* The accesses of apply_fixed_pdo_plan, one by one.
LEMMA ApplyProgram ==
    ASSUME NEW c \in Calls, c.name = "apply",
           NEW plan, plan = from_policy(c.argument)
    PROVE  Program(c) =
             <<Read(PD_CONTROL), Update(PD_CONTROL, 1, 0),
               Write(PD_VOLTAGE_ENABLE, enabled_voltage_bits(plan)),
               Read(PD_FIXED_CURRENT_CONTROL),
               Update(PD_FIXED_CURRENT_CONTROL, 243, 32 + (plan.current[5000] % 4)),
               Write(294, High(plan.current[5000])), Write(295, High(plan.current[9000])),
               Write(296, High(plan.current[12000])), Write(297, High(plan.current[15000])),
               Write(298, High(plan.current[20000])),
               Write(PD_FIXED_CURRENT_LOW, fixed_current_low(plan)),
               Read(PD_CONTROL), Update(PD_CONTROL, 1, Flag(plan.pd_enabled))>>
<1>1. /\ CurrentHigh[5000] = 294 /\ CurrentHigh[9000] = 295 /\ CurrentHigh[12000] = 296
      /\ CurrentHigh[15000] = 297 /\ CurrentHigh[20000] = 298
  BY DEF CurrentHigh, Voltages
<1>2. Program(c) = apply_fixed_pdo_plan(plan)
  BY DEF Program
<1> QED BY <1>1, <1>2 DEF apply_fixed_pdo_plan

\* A register is updated right after it was read.
LEMMA UpdatesFollowReads ==
    ASSUME NEW c \in Calls, NEW i \in 1..Len(Program(c)),
           Program(c)[i].kind = "write", Program(c)[i].mask # 255
    PROVE  /\ i > 1
           /\ Program(c)[i - 1] = Read(Program(c)[i].register)
           /\ Program(c)[i].register \in Writable
<1>0. {PD_CONTROL, PD_FIXED_CURRENT_CONTROL, PORT_CONTROL} \subseteq Writable
  BY DEF Writable, PdoRegisters, CurrentRegisters
<1>1. CASE c.name = "adc"
  BY <1>1 DEF Program, read_adc, Read, Write
<1>2. CASE c.name = "cc"
  <2>1. Program(c) = <<Read(PORT_CONTROL), Update(PORT_CONTROL, 2, 2 * c.argument)>>
    BY <1>2 DEF Program, set_cc_undriven
  <2>2. i = 2
    BY <2>1 DEF Read
  <2> QED BY <1>0, <2>1, <2>2 DEF Update
<1>3. CASE c.name = "capabilities"
  BY <1>3 DEF Program, send_source_capabilities, Write
<1>4. CASE c.name = "identity"
  BY <1>4 DEF Program, read_identity, Read
<1>5. CASE c.name = "status"
  BY <1>5 DEF Program, read_status, Read
<1>6. CASE c.name = "apply"
  <2>1. PICK plan : plan = from_policy(c.argument)
    OBVIOUS
  <2>2. PICK b3, b5, b6, b7, b8, b9, b10, b11, b13 :
          Program(c) =
            <<Read(PD_CONTROL), Update(PD_CONTROL, 1, 0), Write(PD_VOLTAGE_ENABLE, b3),
              Read(PD_FIXED_CURRENT_CONTROL), Update(PD_FIXED_CURRENT_CONTROL, 243, b5),
              Write(294, b6), Write(295, b7), Write(296, b8), Write(297, b9), Write(298, b10),
              Write(PD_FIXED_CURRENT_LOW, b11), Read(PD_CONTROL), Update(PD_CONTROL, 1, b13)>>
    BY <1>6, <2>1, ApplyProgram
  <2>3. /\ \A r : Read(r).kind = "read"
        /\ \A r, v : Write(r, v).mask = 255
        /\ \A r, m, v : Update(r, m, v).register = r
    BY DEF Read, Write, Update
  <2>4. i \in 1..13
    BY <2>2
  <2>5. i \in {2, 5, 13}
    BY <2>2, <2>3, <2>4
  <2> QED BY <1>0, <2>2, <2>3, <2>5
<1> QED BY <1>1, <1>2, <1>3, <1>4, <1>5, <1>6 DEF Calls, Call

-----------------------------------------------------------------------------
\* The transfers of an access.

\* Where an access can be, given the bank the driver believes in and the unlock
\* progress of the chip.
WireAt(op, s, b, u) ==
    /\ b \in {"Base", "Extended"}
    /\ s \in {"return", "unlock1", "unlock2", "unlock3", "enter", "data", "leave"}
    /\ s \in {"unlock1", "unlock2", "unlock3", "enter"} => b = "Base"
    /\ s \in {"return", "leave"} => b = "Extended"
    /\ s = "data" => (b = "Extended" <=> Extended(op.register))
    /\ s = "unlock2" => u = 1
    /\ s = "unlock3" => u = 2
    /\ s = "enter" => u = 3 /\ Extended(op.register)
    /\ s = "data" /\ op.kind = "write" => u = 3
    /\ s = "leave" => op.kind = "write" /\ Extended(op.register)
    /\ s = "return" /\ op.kind = "read" => ~ Extended(op.register)
    /\ s \in {"unlock1", "unlock2", "unlock3"} /\ op.kind = "read" => Extended(op.register)

WireInv ==
    /\ Sw3538TypeOK
    /\ TrackedBankIsTrue
    /\ ~ strayed
    /\ call # None => WireAt(Operation, step, bank, unlocked)

\* An access starts at one of those places ...
LEMMA FirstStepWire ==
    ASSUME NEW op \in Operations, NEW b \in {"Base", "Extended"}, NEW u
    PROVE  WireAt(op, FirstStep(op, b), b, u)
<1>1. op.kind \in {"read", "write"} /\ op.register \in Readable
  BY DEF Operations, Readable, Writable, PdoRegisters, CurrentRegisters
<1>2. Extended(op.register) \in BOOLEAN
  BY DEF Extended
<1> QED BY <1>1, <1>2 DEF WireAt, FirstStep

\* ... and goes on to one.
LEMMA NextStepWire ==
    ASSUME NEW op \in Operations, WireAt(op, step, bank, unlocked), NEW u,
           step = "unlock1" => u = 1, step = "unlock2" => u = 2,
           step \in {"unlock3", "enter"} => u = 3
    PROVE  /\ NextStep(op) = "done" \/ WireAt(op, NextStep(op), BankAfter, u)
           /\ BankAfter \in {"Base", "Extended"}
<1>1. op.kind \in {"read", "write"}
  BY DEF Operations
<1>2. Extended(op.register) \in BOOLEAN
  BY DEF Extended
<1> QED BY <1>1, <1>2 DEF WireAt, NextStep, BankAfter

\* What the chip makes of a transfer: what the driver means it to.
LEMMA ChipEffect ==
    ASSUME WireInv, call # None, Operation \in Operations, ChipTakes
    PROVE  /\ chip_bank' = BankAfter
           /\ unlocked' \in 0..3
           /\ step = "unlock1" => unlocked' = 1
           /\ step = "unlock2" => unlocked' = 2
           /\ step \in {"unlock3", "enter"} => unlocked' = 3
           /\ ~ strayed'
           /\ IF step = "data" /\ Operation.kind = "write"
              THEN /\ memory' = [memory EXCEPT ![Operation.register] = Value(Operation)]
                   /\ granted' = IF /\ Operation.register = PD_CONTROL
                                    /\ Bit(Value(Operation), 1) = 1
                                 THEN call.argument ELSE granted
              ELSE UNCHANGED <<memory, granted>>
           /\ Reads => Target = Operation.register
<1> DEFINE op == Operation
<1>1. /\ op.kind \in {"read", "write"} /\ op.register \in Readable
      /\ op.kind = "write" => op.register \in Writable
  BY DEF Operations, Readable, Writable, PdoRegisters, CurrentRegisters
<1>2. WireAt(op, step, bank, unlocked) /\ chip_bank = bank /\ unlocked \in 0..3
      /\ strayed = FALSE
  BY DEF WireInv, WireAt, TrackedBankIsTrue, Sw3538TypeOK
<1>3. CASE step \in {"unlock1", "unlock2", "unlock3", "enter"}
  <2>1. Target = 16 /\ ~ Reads /\ chip_bank = "Base"
    BY <1>2, <1>3 DEF Target, Address, WireAt, I2C_ENABLE_AND_BANK, Reads
  <2>2. ChipTakesControl
    BY <2>1 DEF ChipTakes, ChipTakesReturn, ChipTakesData, I2C_ENABLE_AND_BANK,
                RETURN_TO_BASE_BANK
  <2>3. /\ UNCHANGED <<memory, strayed, granted>>
        /\ IF Payload = 129
           THEN /\ chip_bank' = IF unlocked = 3 THEN "Extended" ELSE chip_bank
                /\ UNCHANGED unlocked
           ELSE /\ unlocked' = CASE Payload = 32 -> 1
                                 [] Payload = 64 /\ unlocked = 1 -> 2
                                 [] Payload = 128 /\ unlocked = 2 -> 3
                                 [] OTHER -> 0
                /\ UNCHANGED chip_bank
    BY <2>2 DEF ChipTakesControl
  <2>4. CASE step = "unlock1"
    <3>1. Payload = 32  BY <2>4 DEF Payload
    <3> QED BY <1>2, <2>1, <2>3, <2>4, <3>1 DEF BankAfter
  <2>5. CASE step = "unlock2"
    <3>1. Payload = 64 /\ unlocked = 1  BY <1>2, <2>5 DEF Payload, WireAt
    <3> QED BY <1>2, <2>1, <2>3, <2>5, <3>1 DEF BankAfter
  <2>6. CASE step = "unlock3"
    <3>1. Payload = 128 /\ unlocked = 2  BY <1>2, <2>6 DEF Payload, WireAt
    <3> QED BY <1>2, <2>1, <2>3, <2>6, <3>1 DEF BankAfter
  <2>7. CASE step = "enter"
    <3>1. Payload = 129 /\ unlocked = 3  BY <1>2, <2>7 DEF Payload, WireAt
    <3> QED BY <1>2, <2>1, <2>3, <2>7, <3>1 DEF BankAfter
  <2> QED BY <1>3, <2>4, <2>5, <2>6, <2>7
<1>4. CASE step \in {"return", "leave"}
  <2>1. Target = 384 /\ ~ Reads
    <3>1. Address = RETURN_TO_BASE_BANK % 256 /\ RETURN_TO_BASE_BANK % 256 = 128
      BY <1>4 DEF Address, RETURN_TO_BASE_BANK
    <3> QED BY <1>2, <1>4, <3>1 DEF Target, WireAt, Reads
  <2>2. ChipTakesReturn
    BY <2>1 DEF ChipTakes, ChipTakesControl, ChipTakesData, I2C_ENABLE_AND_BANK,
                RETURN_TO_BASE_BANK
  <2> QED BY <1>2, <1>4, <2>1, <2>2 DEF ChipTakesReturn, BankAfter
<1>5. CASE step = "data"
  <2>1. Target = op.register
    <3>1. Address = op.register % 256
      BY <1>5 DEF Address
    <3>2. bank = "Extended" <=> Extended(op.register)
      BY <1>2, <1>5 DEF WireAt
    <3> QED BY <1>1, <1>2, <3>1, <3>2, RegisterFacts DEF Target
  <2>2. CASE op.kind = "read"
    <3>1. ChipTakesRead /\ Reads
      BY <1>5, <2>2 DEF ChipTakes, Reads
    <3> HIDE DEF op
    <3> QED BY <1>1, <1>2, <1>5, <2>1, <2>2, <3>1 DEF ChipTakesRead, Readable, BankAfter, op
  <2>3. CASE op.kind = "write"
    <3>1. ~ Reads /\ unlocked = 3
      BY <1>2, <1>5, <2>3 DEF Reads, WireAt
    <3>2. op.register # 16 /\ op.register # 384 /\ op.register \in Writable
      BY <1>1, <2>3, RegisterFacts
    <3>3. ChipTakesData
      BY <2>1, <3>1, <3>2 DEF ChipTakes, ChipTakesControl, ChipTakesReturn,
                              I2C_ENABLE_AND_BANK, RETURN_TO_BASE_BANK
    <3>4. Payload = Value(op)
      BY <1>5 DEF Payload
    <3>5. /\ memory' = [memory EXCEPT ![op.register] = Value(op)]
          /\ granted' = IF op.register = PD_CONTROL /\ Bit(Value(op), 1) = 1
                        THEN call.argument ELSE granted
          /\ unlocked' = 0 /\ strayed' = FALSE /\ chip_bank' = chip_bank
      <4> HIDE DEF op
      <4> QED BY <1>2, <2>1, <3>1, <3>2, <3>3, <3>4 DEF ChipTakesData
    <3> QED BY <1>2, <1>5, <2>1, <2>3, <3>1, <3>5 DEF BankAfter
  <2> QED BY <1>1, <2>2, <2>3
<1> QED BY <1>2, <1>3, <1>4, <1>5 DEF WireAt

-----------------------------------------------------------------------------
\* The driver and the chip, in step.

\* The invariant holds at the start ...
LEMMA WireInit == Init => WireInv
<1>1. PowerUp \in [Writable -> Byte]
  BY DEF PowerUp, Byte
<1>2. 0 \in Byte /\ 0 \in 0..3 /\ 0 \in 0..MaxFailures
  BY Sw3538Assumption DEF Byte
<1> QED BY <1>1, <1>2 DEF Init, WireInv, Sw3538TypeOK, TrackedBankIsTrue

\* What a transfer reads is a byte.
LEMMA SeenIsByte ==
    ASSUME Sw3538TypeOK
    PROVE  Seen \in Byte
<1>1. 0 \in Byte /\ ADC_SELECT \in Writable
  BY DEF Byte, Writable
<1> QED BY <1>1 DEF Seen, Sw3538TypeOK

\* The part of the chip in the invariant, after any transfer, answered or not.
LEMMA ChipInv ==
    ASSUME WireInv, call # None, ChipTakes
    PROVE  /\ chip_bank' = BankAfter /\ BankAfter \in {"Base", "Extended"}
           /\ unlocked' \in 0..3 /\ ~ strayed'
           /\ memory' \in [Writable -> Byte]
           /\ granted' \in Policies \cup {None}
           /\ NextStep(Operation) = "done"
              \/ WireAt(Operation, NextStep(Operation), BankAfter, unlocked')
<1> DEFINE op == Operation
<1>1. call \in Calls /\ pos \in 1..Len(Program(call)) /\ held \in Byte
  BY DEF WireInv, Sw3538TypeOK
<1>2. op \in Operations
  BY <1>1, ProgramShape DEF Operation
<1>3. /\ chip_bank' = BankAfter
      /\ unlocked' \in 0..3 /\ ~ strayed'
      /\ IF step = "data" /\ op.kind = "write"
         THEN /\ memory' = [memory EXCEPT ![op.register] = Value(op)]
              /\ granted' = IF op.register = PD_CONTROL /\ Bit(Value(op), 1) = 1
                            THEN call.argument ELSE granted
         ELSE UNCHANGED <<memory, granted>>
  BY <1>2, ChipEffect
<1>4. /\ NextStep(op) = "done" \/ WireAt(op, NextStep(op), BankAfter, unlocked')
      /\ BankAfter \in {"Base", "Extended"}
  BY <1>2, ChipEffect, NextStepWire DEF WireInv
<1>5. memory' \in [Writable -> Byte] /\ granted' \in Policies \cup {None}
  <2>1. memory \in [Writable -> Byte] /\ granted \in Policies \cup {None}
    BY DEF WireInv, Sw3538TypeOK
  <2>2. CASE step = "data" /\ op.kind = "write"
    <3>1. Value(op) \in Byte
      BY <1>1, <1>2, <2>2, ValueIsByte
    <3>2. op.register = PD_CONTROL /\ Bit(Value(op), 1) = 1 => call.argument \in Policies
      <4>1. ASSUME op.register = PD_CONTROL PROVE call.name = "apply"
        BY <1>1, <2>2, <4>1, OtherWrites DEF Operation, PD_CONTROL
      <4> QED BY <1>1, <4>1 DEF Calls, Call
    <3> HIDE DEF op
    <3> QED BY <1>3, <2>1, <2>2, <3>1, <3>2
  <2>3. CASE ~ (step = "data" /\ op.kind = "write")
    BY <1>3, <2>1, <2>3
  <2> QED BY <2>2, <2>3
<1> QED BY <1>3, <1>4, <1>5

\* ... and is preserved by every step.
LEMMA WireNext == WireInv /\ [Next]_vars => WireInv'
<1> SUFFICES ASSUME WireInv, [Next]_vars
             PROVE  WireInv'
  OBVIOUS
<1> USE DEF WireInv, Sw3538TypeOK, TrackedBankIsTrue
<1>0. 0 \in Byte
  BY DEF Byte
<1>1. ASSUME NEW c \in Calls, Begin(c)
      PROVE  WireInv'
  <2>1. Program(c)[1] \in Operations /\ 1 \in 1..Len(Program(c))
    BY ProgramShape
  <2>2. call' = c /\ pos' = 1 /\ step' = FirstStep(Program(c)[1], bank)
        /\ UNCHANGED <<bank, chip_bank, unlocked, memory, strayed, granted, failures>>
        /\ held' = 0 /\ earlier' = 0 /\ bank \in {"Base", "Extended"}
    BY <1>1 DEF Begin, chip
  <2>3. WireAt(Operation', step', bank', unlocked')
    BY <2>1, <2>2, FirstStepWire DEF Operation
  <2>4. step' \in {"return", "unlock1", "unlock2", "unlock3", "enter", "data", "leave", "done"}
    BY <2>3 DEF WireAt
  <2> QED BY <1>0, <2>1, <2>2, <2>3, <2>4
<1>2. ASSUME NEW c \in Calls, Refuse(c)
      PROVE  WireInv'
  BY <1>2 DEF Refuse, chip, Operation
<1>3. ASSUME Transfer
      PROVE  WireInv'
  <2>1. call # None /\ ChipTakes /\ bank' = BankAfter /\ failures' = failures
    BY <1>3 DEF Transfer
  <2>2. /\ chip_bank' = bank' /\ bank' \in {"Base", "Extended"}
        /\ unlocked' \in 0..3 /\ ~ strayed' /\ strayed' \in BOOLEAN
        /\ memory' \in [Writable -> Byte]
        /\ granted' \in Policies \cup {None}
        /\ NextStep(Operation) = "done"
           \/ WireAt(Operation, NextStep(Operation), bank', unlocked')
    <3>1. strayed' \in BOOLEAN
      BY <2>1 DEF ChipTakes, ChipTakesRead, ChipTakesControl, ChipTakesReturn, ChipTakesData
    <3> QED BY <2>1, <3>1, ChipInv
  <2>3. held' \in Byte /\ earlier' \in Byte
    <3>1. Seen \in Byte
      BY SeenIsByte
    <3> QED BY <1>0, <1>3, <3>1 DEF Transfer
  <2>4. CASE NextStep(Operation) # "done"
    <3>1. step' = NextStep(Operation) /\ UNCHANGED <<call, pos>>
      BY <1>3, <2>4 DEF Transfer
    <3>2. WireAt(Operation', step', bank', unlocked')
      BY <2>2, <2>4, <3>1 DEF Operation
    <3>3. step' \in {"return", "unlock1", "unlock2", "unlock3", "enter", "data", "leave"}
      BY <3>2 DEF WireAt
    <3> QED BY <2>1, <2>2, <2>3, <3>1, <3>2, <3>3
  <2>5. CASE NextStep(Operation) = "done" /\ pos = Len(Program(call))
    <3>1. call' = None /\ step' = "done"
      BY <1>3, <2>5 DEF Transfer, Returns
    <3> QED BY <2>1, <2>2, <2>3, <3>1
  <2>6. CASE NextStep(Operation) = "done" /\ pos # Len(Program(call))
    <3>1. /\ pos' = pos + 1 /\ call' = call
          /\ step' = FirstStep(Program(call)[pos + 1], bank')
      BY <1>3, <2>6 DEF Transfer
    <3>2. pos + 1 \in 1..Len(Program(call)) /\ Program(call)[pos + 1] \in Operations
      BY <2>1, <2>6, ProgramShape
    <3>3. WireAt(Operation', step', bank', unlocked')
      BY <2>2, <3>1, <3>2, FirstStepWire DEF Operation
    <3>4. step' \in {"return", "unlock1", "unlock2", "unlock3", "enter", "data", "leave"}
      BY <3>3 DEF WireAt
    <3> QED BY <2>1, <2>2, <2>3, <3>1, <3>2, <3>3, <3>4
  <2> QED BY <2>4, <2>5, <2>6
<1>4. ASSUME TransferFails
      PROVE  WireInv'
  <2>1. /\ call # None
        /\ ChipTakes \/ UNCHANGED chip
        /\ bank' = "Unknown" /\ call' = None /\ step' = "done"
        /\ held' = 0 /\ earlier' = 0 /\ failures' \in 0..MaxFailures
    BY <1>4, Sw3538Assumption DEF TransferFails, Returns
  <2>2. /\ chip_bank' \in {"Base", "Extended"} /\ unlocked' \in 0..3
        /\ ~ strayed' /\ strayed' \in BOOLEAN
        /\ memory' \in [Writable -> Byte]
        /\ granted' \in Policies \cup {None}
    <3>1. CASE UNCHANGED chip
      BY <3>1 DEF chip
    <3>2. CASE ChipTakes
      <4>1. strayed' \in BOOLEAN
        BY <3>2 DEF ChipTakes, ChipTakesRead, ChipTakesControl, ChipTakesReturn, ChipTakesData
      <4> QED BY <2>1, <3>2, <4>1, ChipInv
    <3> QED BY <2>1, <3>1, <3>2
  <2> QED BY <1>0, <2>1, <2>2
<1>5. ASSUME Recover
      PROVE  WireInv'
  <2>1. PowerUp \in [Writable -> Byte]
    BY DEF PowerUp, Byte
  <2> QED BY <1>5, <2>1 DEF Recover
<1>6. CASE UNCHANGED vars
  BY <1>6 DEF vars, driver, chip, Operation
<1> QED BY <1>1, <1>2, <1>3, <1>4, <1>5, <1>6 DEF Next

\* Every register holds a byte, and every call under way is at one of its accesses.
THEOREM TypeCorrect == Spec => []Sw3538TypeOK
<1>1. Spec => []WireInv
  BY WireInit, WireNext, PTL DEF Spec
<1>2. WireInv => Sw3538TypeOK
  BY DEF WireInv
<1> QED BY <1>1, <1>2, PTL

\* The driver knows the selected bank, or knows that it does not, after every
\* order of calls and failed transfers.
THEOREM BankCorrect == Spec => []TrackedBankIsTrue
<1>1. Spec => []WireInv
  BY WireInit, WireNext, PTL DEF Spec
<1>2. WireInv => TrackedBankIsTrue
  BY DEF WireInv
<1> QED BY <1>1, <1>2, PTL

-----------------------------------------------------------------------------
\* What PD offers.

\* The registers hold the plan of a policy, or what the factory put there.
HoldsPlan(m, plan) ==
    /\ m[PD_VOLTAGE_ENABLE] = enabled_voltage_bits(plan)
    /\ m[PD_FIXED_CURRENT_CONTROL] % 4 = plan.current[5000] % 4
    /\ m[294] = High(plan.current[5000])
    /\ m[295] = High(plan.current[9000])
    /\ m[296] = High(plan.current[12000])
    /\ m[297] = High(plan.current[15000])
    /\ m[298] = High(plan.current[20000])
    /\ m[PD_FIXED_CURRENT_LOW] = fixed_current_low(plan)

Holds(m, g) ==
    IF g = None THEN \A r \in PdoRegisters : m[r] = PowerUp[r]
    ELSE HoldsPlan(m, from_policy(g))

\* How many accesses of the call under way have taken effect.
Effective == IF step = "leave" THEN pos ELSE pos - 1

\* The registers after n accesses of apply_fixed_pdo_plan.
Rewriting(m, plan, n) ==
    /\ n >= 2 /\ n <= 12 => Bit(m[PD_CONTROL], 1) = 0
    /\ n >= 3 => m[PD_VOLTAGE_ENABLE] = enabled_voltage_bits(plan)
    /\ n >= 5 => m[PD_FIXED_CURRENT_CONTROL] % 4 = plan.current[5000] % 4
    /\ n >= 6 => m[294] = High(plan.current[5000])
    /\ n >= 7 => m[295] = High(plan.current[9000])
    /\ n >= 8 => m[296] = High(plan.current[12000])
    /\ n >= 9 => m[297] = High(plan.current[15000])
    /\ n >= 10 => m[298] = High(plan.current[20000])
    /\ n >= 11 => m[PD_FIXED_CURRENT_LOW] = fixed_current_low(plan)
    /\ n >= 13 => Bit(m[PD_CONTROL], 1) = Flag(plan.pd_enabled)

\* The current offered at 5 V fits its ten bits.
LEMMA CurrentFits ==
    ASSUME NEW p \in Policies, Acceptable(p)
    PROVE  from_policy(p).current[5000] \in 0..500
<1>1. \A v \in Voltages : from_policy(p).current[v] \in 0..500
  BY PlanFits
<1> QED BY <1>1 DEF Voltages

\* What an access does to the registers.
After(op, m) == IF op.kind = "write" THEN [m EXCEPT ![op.register] = Value(op)] ELSE m

\* One more access: PD is off from the second to the last, and by then the
\* registers hold the whole plan.
LEMMA RewriteStep ==
    ASSUME NEW c \in Calls, c.name = "apply", NEW plan, plan = from_policy(c.argument),
           NEW m \in [Writable -> Byte], held \in Byte,
           NEW n \in 0..12, Rewriting(m, plan, n)
    PROVE  LET m2 == After(Program(c)[n + 1], m)
           IN  /\ Rewriting(m2, plan, n + 1)
               /\ n + 1 = 13 => Bit(m2[PD_CONTROL], 1) = Flag(plan.pd_enabled)
<1> DEFINE op == Program(c)[n + 1]
           m2 == After(op, m)
           low5 == plan.current[5000] % 4
           bits == enabled_voltage_bits(plan)
           low == fixed_current_low(plan)
           h5 == High(plan.current[5000])
           h9 == High(plan.current[9000])
           h12 == High(plan.current[12000])
           h15 == High(plan.current[15000])
           h20 == High(plan.current[20000])
           on == Flag(plan.pd_enabled)
           At(k) == /\ k >= 2 /\ k <= 12 => Bit(m2[290], 1) = 0
                    /\ k >= 3 => m2[292] = bits
                    /\ k >= 5 => m2[293] % 4 = low5
                    /\ k >= 6 => m2[294] = h5
                    /\ k >= 7 => m2[295] = h9
                    /\ k >= 8 => m2[296] = h12
                    /\ k >= 9 => m2[297] = h15
                    /\ k >= 10 => m2[298] = h20
                    /\ k >= 11 => m2[299] = low
<1>1. /\ n >= 2 /\ n <= 12 => Bit(m[290], 1) = 0
      /\ n >= 3 => m[292] = bits
      /\ n >= 5 => m[293] % 4 = low5
      /\ n >= 6 => m[294] = h5
      /\ n >= 7 => m[295] = h9
      /\ n >= 8 => m[296] = h12
      /\ n >= 9 => m[297] = h15
      /\ n >= 10 => m[298] = h20
      /\ n >= 11 => m[299] = low
  BY DEF Rewriting, PD_CONTROL, PD_VOLTAGE_ENABLE, PD_FIXED_CURRENT_CONTROL,
         PD_FIXED_CURRENT_LOW
<1>2. low5 \in 0..3 /\ on \in 0..1
  <2>1. c.argument \in Policies /\ Acceptable(c.argument)
    BY DEF Calls, Call
  <2>2. plan.current[5000] \in 0..500
    <3>1. from_policy(c.argument).current[5000] \in 0..500
      BY <2>1, CurrentFits
    <3> QED BY <3>1
  <2>3. low5 \in 0..3
    <3> DEFINE k == plan.current[5000]
    <3>1. k \in 0..500
      BY <2>2, SMTT(60)
    <3> HIDE DEF k
    <3>2. k % 4 \in 0..3
      BY <3>1, SplitCurrent, ZenonT(60)
    <3> QED BY <3>2 DEF k
  <2>4. on \in 0..1
    BY FlagValue
  <2> HIDE DEF low5, on
  <2> QED BY <2>3, <2>4
<1> HIDE DEF low5, bits, low, h5, h9, h12, h15, h20, on
<1>3. Program(c) =
        <<Read(290), Update(290, 1, 0), Write(292, bits), Read(293), Update(293, 243, 32 + low5),
          Write(294, h5), Write(295, h9), Write(296, h12), Write(297, h15), Write(298, h20),
          Write(299, low), Read(290), Update(290, 1, on)>>
  BY ApplyProgram DEF low5, bits, low, h5, h9, h12, h15, h20, on, PD_CONTROL,
     PD_VOLTAGE_ENABLE, PD_FIXED_CURRENT_CONTROL, PD_FIXED_CURRENT_LOW
<1>4. {290, 292, 293, 294, 295, 296, 297, 298, 299} \subseteq Writable
  BY DEF Writable, PdoRegisters, CurrentRegisters, PD_CONTROL, PD_VOLTAGE_ENABLE,
         PD_FIXED_CURRENT_CONTROL, PD_FIXED_CURRENT_LOW
<1>5. ASSUME NEW r \in Writable, NEW v, op = Write(r, v)
      PROVE  m2 = [m EXCEPT ![r] = v]
  BY <1>5 DEF Write, After, Value
<1>6. ASSUME NEW r, op = Read(r)
      PROVE  m2 = m
  BY <1>6 DEF Read, After
<1>7. ASSUME NEW v \in 0..1, op = Update(290, 1, v)
      PROVE  Bit(m2[290], 1) = v /\ \A r \in Writable \ {290} : m2[r] = m[r]
  <2>1. m2 = [m EXCEPT ![290] = And(held, 254) + And(v, 1)]
    BY <1>7 DEF Update, After, Value
  <2>2. Bit(And(held, 254) + And(v, 1), 1) = v
    BY UpdatePdControl
  <2> QED BY <1>4, <2>1, <2>2
<1>8. ASSUME op = Update(293, 243, 32 + low5)
      PROVE  m2[293] % 4 = low5 /\ \A r \in Writable \ {293} : m2[r] = m[r]
  <2>1. m2 = [m EXCEPT ![293] = And(held, 12) + And(32 + low5, 243)]
    BY <1>8 DEF Update, After, Value
  <2>2. (And(held, 12) + And(32 + low5, 243)) % 4 = low5
    BY <1>2, UpdateCurrentControl
  <2> QED BY <1>4, <2>1, <2>2
<1> HIDE DEF m2
<1>9. At(n + 1) /\ (n = 12 => Bit(m2[290], 1) = on)
  <2> HIDE DEF op
  <2>1. CASE n = 0
    BY <2>1
  <2>2. CASE n = 1
    <3>1. op = Update(290, 1, 0)  BY <1>3, <2>2 DEF op
    <3> QED BY <1>7, <2>2, <3>1
  <2>3. CASE n = 2
    <3>1. op = Write(292, bits)  BY <1>3, <2>3 DEF op
    <3> QED BY <1>1, <1>4, <1>5, <2>3, <3>1
  <2>4. CASE n = 3
    <3>1. op = Read(293)  BY <1>3, <2>4 DEF op
    <3> QED BY <1>1, <1>6, <2>4, <3>1
  <2>5. CASE n = 4
    <3>1. op = Update(293, 243, 32 + low5)  BY <1>3, <2>5 DEF op
    <3> QED BY <1>1, <1>4, <1>8, <2>5, <3>1
  <2>6. CASE n = 5
    <3>1. op = Write(294, h5)  BY <1>3, <2>6 DEF op
    <3> QED BY <1>1, <1>4, <1>5, <2>6, <3>1
  <2>7. CASE n = 6
    <3>1. op = Write(295, h9)  BY <1>3, <2>7 DEF op
    <3> QED BY <1>1, <1>4, <1>5, <2>7, <3>1
  <2>8. CASE n = 7
    <3>1. op = Write(296, h12)  BY <1>3, <2>8 DEF op
    <3> QED BY <1>1, <1>4, <1>5, <2>8, <3>1
  <2>9. CASE n = 8
    <3>1. op = Write(297, h15)  BY <1>3, <2>9 DEF op
    <3> QED BY <1>1, <1>4, <1>5, <2>9, <3>1
  <2>10. CASE n = 9
    <3>1. op = Write(298, h20)  BY <1>3, <2>10 DEF op
    <3> QED BY <1>1, <1>4, <1>5, <2>10, <3>1
  <2>11. CASE n = 10
    <3>1. op = Write(299, low)  BY <1>3, <2>11 DEF op
    <3> QED BY <1>1, <1>4, <1>5, <2>11, <3>1
  <2>12. CASE n = 11
    <3>1. op = Read(290)  BY <1>3, <2>12 DEF op
    <3> QED BY <1>1, <1>6, <2>12, <3>1
  <2>13. CASE n = 12
    <3>1. op = Update(290, 1, on)  BY <1>3, <2>13 DEF op
    <3>2. Bit(m2[290], 1) = on /\ \A r \in Writable \ {290} : m2[r] = m[r]
      BY <1>2, <1>7, <3>1
    <3> QED BY <1>1, <1>4, <2>13, <3>2
  <2> QED BY <2>1, <2>2, <2>3, <2>4, <2>5, <2>6, <2>7, <2>8, <2>9, <2>10, <2>11, <2>12, <2>13
<1>10. Rewriting(m2, plan, n + 1) /\ (n + 1 = 13 => Bit(m2[PD_CONTROL], 1) = on)
  <2>1. n + 1 >= 13 => n + 1 = 13
    OBVIOUS
  <2> QED
    BY <1>9, <2>1 DEF Rewriting, low5, bits, low, h5, h9, h12, h15, h20, on, PD_CONTROL,
       PD_VOLTAGE_ENABLE, PD_FIXED_CURRENT_CONTROL, PD_FIXED_CURRENT_LOW
<1> QED BY <1>10 DEF m2, on

\* Either PD is off, or the registers hold the plan it was enabled for.
ConfigInv ==
    /\ granted # None => granted \in Policies /\ Acceptable(granted) /\ granted.enabled
    /\ PdOn => Holds(memory, granted)

\* The parts of the chip that no access may change.
Rest(m) == <<And(m[PD_CONTROL], 254), And(m[PD_FIXED_CURRENT_CONTROL], 12),
             And(m[PORT_CONTROL], 253)>>

RestIsKept == ~ strayed /\ Rest(memory) = Rest(PowerUp)

\* The invariant about what PD offers: the above; a rewriting under way is as far as
\* its accesses; and an update is of what the register holds.
PdoInv ==
    /\ WireInv
    /\ ConfigInv
    /\ call # None /\ call.name = "apply" =>
          Rewriting(memory, from_policy(call.argument), Effective)
    /\ call # None /\ step # "leave" /\ Operation.kind = "write" /\ Operation.mask # 255 =>
          held = memory[Operation.register]
    /\ RestIsKept

\* The invariant holds at the start ...
LEMMA PdoInit == Init => PdoInv
<1> SUFFICES ASSUME Init PROVE PdoInv
  OBVIOUS
<1>1. \A r \in PdoRegisters : memory[r] = PowerUp[r]
  BY DEF Init
<1> QED BY <1>1, WireInit DEF Init, PdoInv, ConfigInv, Holds, RestIsKept

\* An access keeps them: an update writes back what it read.
LEMMA AccessKeepsRest ==
    ASSUME NEW op \in Operations, NEW m \in [Writable -> Byte], held \in Byte,
           op.kind = "write" /\ op.mask # 255 => held = m[op.register]
    PROVE  Rest(After(op, m)) = Rest(m)
<1> DEFINE m2 == After(op, m)
<1>0. /\ PD_CONTROL = 290 /\ PD_FIXED_CURRENT_CONTROL = 293 /\ PORT_CONTROL = 17
      /\ {290, 293, 17} \subseteq Writable
  BY DEF PD_CONTROL, PD_FIXED_CURRENT_CONTROL, PORT_CONTROL, Writable, PdoRegisters,
         CurrentRegisters
<1>1. CASE op.kind = "read"
  BY <1>1 DEF After
<1>2. CASE op.kind = "write" /\ op.mask = 255
  <2>1. op.register \notin {290, 293, 17}
    BY <1>0, <1>2 DEF Operations, Shared
  <2>2. m2[290] = m[290] /\ m2[293] = m[293] /\ m2[17] = m[17]
    BY <1>0, <2>1 DEF After
  <2> HIDE DEF m2
  <2> QED BY <1>0, <2>2 DEF Rest, m2
<1>3. CASE op.kind = "write" /\ op.mask = 1
  <2>1. PICK v \in 0..1 : op = Update(290, 1, v)
    BY <1>0, <1>3 DEF Operations, Update
  <2>2. m2 = [m EXCEPT ![290] = And(m[290], 254) + And(v, 1)]
    <3>1. /\ op.kind = "write" /\ op.register = 290 /\ op.mask = 1 /\ op.value = v
          /\ held = m[290]
      BY <1>3, <2>1 DEF Update
    <3>2. m2 = [m EXCEPT ![op.register] = Value(op)]
      BY <3>1 DEF After
    <3>3. Value(op) = And(m[290], 254) + And(v, 1)
      BY <3>1 DEF Value
    <3> QED BY <3>1, <3>2, <3>3
  <2>3. And(And(m[290], 254) + And(v, 1), 254) = And(m[290], 254)
    BY <1>0, UpdatePdControl
  <2>4. /\ And(m2[290], 254) = And(m[290], 254)
        /\ m2[293] = m[293] /\ m2[17] = m[17]
    <3>1. m2[290] = And(m[290], 254) + And(v, 1)
      BY <1>0, <2>2
    <3>2. And(m2[290], 254) = And(m[290], 254)
      BY <2>3, <3>1
    <3> QED BY <1>0, <2>2, <3>2
  <2> HIDE DEF m2
  <2>5. Rest(m2) = Rest(m)
    BY <1>0, <2>4 DEF Rest
  <2> QED BY <2>5 DEF m2
<1>4. CASE op.kind = "write" /\ op.mask = 243
  <2>1. PICK v \in 0..3 : op = Update(293, 243, 32 + v)
    BY <1>0, <1>4 DEF Operations, Update
  <2>2. m2 = [m EXCEPT ![293] = And(m[293], 12) + And(32 + v, 243)]
    <3>1. /\ op.kind = "write" /\ op.register = 293 /\ op.mask = 243 /\ op.value = 32 + v
          /\ held = m[293]
      BY <1>4, <2>1 DEF Update
    <3>2. m2 = [m EXCEPT ![op.register] = Value(op)]
      BY <3>1 DEF After
    <3>3. Value(op) = And(m[293], 12) + And(32 + v, 243)
      BY <3>1 DEF Value
    <3> QED BY <3>1, <3>2, <3>3
  <2>3. And(And(m[293], 12) + And(32 + v, 243), 12) = And(m[293], 12)
    BY <1>0, UpdateCurrentControl
  <2>4. /\ And(m2[293], 12) = And(m[293], 12)
        /\ m2[290] = m[290] /\ m2[17] = m[17]
    <3>1. m2[293] = And(m[293], 12) + And(32 + v, 243)
      BY <1>0, <2>2
    <3>2. And(m2[293], 12) = And(m[293], 12)
      BY <2>3, <3>1
    <3> QED BY <1>0, <2>2, <3>2
  <2> HIDE DEF m2
  <2>5. Rest(m2) = Rest(m)
    BY <1>0, <2>4 DEF Rest
  <2> QED BY <2>5 DEF m2
<1>5. CASE op.kind = "write" /\ op.mask = 2
  <2>1. PICK v \in 0..1 : op = Update(17, 2, 2 * v)
    BY <1>0, <1>5 DEF Operations, Update
  <2>2. m2 = [m EXCEPT ![17] = And(m[17], 253) + And(2 * v, 2)]
    <3>1. /\ op.kind = "write" /\ op.register = 17 /\ op.mask = 2 /\ op.value = 2 * v
          /\ held = m[17]
      BY <1>5, <2>1 DEF Update
    <3>2. m2 = [m EXCEPT ![op.register] = Value(op)]
      BY <3>1 DEF After
    <3>3. Value(op) = And(m[17], 253) + And(2 * v, 2)
      BY <3>1 DEF Value
    <3> QED BY <3>1, <3>2, <3>3
  <2>3. And(And(m[17], 253) + And(2 * v, 2), 253) = And(m[17], 253)
    BY <1>0, UpdatePort
  <2>4. /\ And(m2[17], 253) = And(m[17], 253)
        /\ m2[290] = m[290] /\ m2[293] = m[293]
    <3>1. m2[17] = And(m[17], 253) + And(2 * v, 2)
      BY <1>0, <2>2
    <3>2. And(m2[17], 253) = And(m[17], 253)
      BY <2>3, <3>1
    <3> QED BY <1>0, <2>2, <3>2
  <2> HIDE DEF m2
  <2>5. Rest(m2) = Rest(m)
    BY <1>0, <2>4 DEF Rest
  <2> QED BY <2>5 DEF m2
<1> QED BY <1>1, <1>2, <1>3, <1>4, <1>5 DEF Operations

\* A transfer that reaches the chip is an access that takes effect, or changes no
\* register.
LEMMA ChipAccess ==
    ASSUME PdoInv, call # None, ChipTakes
    PROVE  /\ Operation \in Operations
           /\ step # "data" => UNCHANGED <<memory, granted>>
           /\ step = "data" =>
                 /\ memory' = After(Operation, memory)
                 /\ granted' = IF /\ Operation.kind = "write"
                                  /\ Operation.register = PD_CONTROL
                                  /\ Bit(Value(Operation), 1) = 1
                               THEN call.argument ELSE granted
                 /\ Rest(memory') = Rest(memory)
           /\ Reads => Target = Operation.register
<1>1. /\ call \in Calls /\ pos \in 1..Len(Program(call))
      /\ WireInv /\ held \in Byte /\ memory \in [Writable -> Byte]
  BY DEF PdoInv, WireInv, Sw3538TypeOK
<1>2. Operation \in Operations
  BY <1>1, ProgramShape DEF Operation
<1>3. /\ IF step = "data" /\ Operation.kind = "write"
         THEN /\ memory' = [memory EXCEPT ![Operation.register] = Value(Operation)]
              /\ granted' = IF /\ Operation.register = PD_CONTROL
                               /\ Bit(Value(Operation), 1) = 1
                            THEN call.argument ELSE granted
         ELSE UNCHANGED <<memory, granted>>
      /\ Reads => Target = Operation.register
  BY <1>1, <1>2, ChipEffect
<1>4. ASSUME step = "data" PROVE Rest(After(Operation, memory)) = Rest(memory)
  BY <1>1, <1>2, <1>4, AccessKeepsRest DEF PdoInv
<1> QED BY <1>2, <1>3, <1>4 DEF After

\* What PD offers after any transfer, answered or not.
LEMMA ChipConfig ==
    ASSUME PdoInv, call # None, ChipTakes
    PROVE  /\ ConfigInv'
           /\ Rest(memory') = Rest(memory)
           /\ call.name = "apply" =>
                 Rewriting(memory', from_policy(call.argument),
                           IF step = "data" THEN Effective + 1 ELSE Effective)
<1> DEFINE op == Operation
           plan == from_policy(call.argument)
<1>1. /\ call \in Calls /\ pos \in 1..Len(Program(call)) /\ op = Program(call)[pos]
      /\ held \in Byte /\ memory \in [Writable -> Byte]
      /\ granted # None => granted \in Policies /\ Acceptable(granted) /\ granted.enabled
      /\ PdOn => Holds(memory, granted)
      /\ call.name = "apply" => Rewriting(memory, plan, Effective)
  BY DEF PdoInv, ConfigInv, WireInv, Sw3538TypeOK, Operation
<1>2. /\ op \in Operations
      /\ step # "data" => UNCHANGED <<memory, granted>>
      /\ step = "data" =>
            /\ memory' = After(op, memory)
            /\ granted' = IF /\ op.kind = "write" /\ op.register = PD_CONTROL
                             /\ Bit(Value(op), 1) = 1
                          THEN call.argument ELSE granted
            /\ Rest(memory') = Rest(memory)
  BY ChipAccess
<1>3. CASE step # "data"
  BY <1>1, <1>2, <1>3 DEF ConfigInv, PdOn, Holds
<1>4. CASE step = "data" /\ op.kind = "read"
  <2>1. UNCHANGED <<memory, granted>>
    BY <1>2, <1>4 DEF After
  <2>2. ASSUME call.name = "apply" PROVE Rewriting(memory', plan, Effective + 1)
    <3>1. Len(Program(call)) = 13
      BY <1>1, <2>2, ApplyProgram
    <3>2. Effective = pos - 1 /\ Effective \in 0..12 /\ Program(call)[Effective + 1] = op
      BY <1>1, <1>4, <3>1 DEF Effective
    <3>3. Rewriting(After(Program(call)[Effective + 1], memory), plan, Effective + 1)
      BY <1>1, <2>2, <3>2, RewriteStep
    <3> QED BY <1>2, <1>4, <3>2, <3>3
  <2> QED BY <1>1, <1>2, <1>4, <2>1, <2>2 DEF ConfigInv, PdOn, Holds
<1>5. CASE step = "data" /\ op.kind = "write" /\ call.name # "apply"
  <2>1. op.register \in {17, 64, 167}
    BY <1>1, <1>5, OtherWrites
  <2>2. /\ PD_CONTROL = 290
        /\ PdoRegisters = {292, 293, 294, 295, 296, 297, 298, 299}
        /\ PD_VOLTAGE_ENABLE = 292 /\ PD_FIXED_CURRENT_CONTROL = 293
        /\ PD_FIXED_CURRENT_LOW = 299
    BY DEF PD_CONTROL, PdoRegisters, CurrentRegisters, PD_VOLTAGE_ENABLE,
           PD_FIXED_CURRENT_CONTROL, PD_FIXED_CURRENT_LOW
  <2>3. /\ granted' = granted
        /\ memory'[290] = memory[290]
        /\ \A r \in PdoRegisters : memory'[r] = memory[r]
    <3>1. memory' = [memory EXCEPT ![op.register] = Value(op)]
      BY <1>2, <1>5 DEF After
    <3>2. {290, 292, 293, 294, 295, 296, 297, 298, 299} \subseteq Writable
      BY <2>2 DEF Writable
    <3>3. granted' = granted
      BY <1>2, <1>5, <2>1, <2>2
    <3> HIDE DEF op
    <3> QED BY <1>1, <2>1, <2>2, <3>1, <3>2, <3>3
  <2>4. PdOn' <=> PdOn
    BY <2>2, <2>3 DEF PdOn
  <2>5. Holds(memory, granted) => Holds(memory', granted)
    BY <2>2, <2>3 DEF Holds, HoldsPlan
  <2> QED BY <1>1, <1>2, <1>5, <2>3, <2>4, <2>5 DEF ConfigInv
<1>6. CASE step = "data" /\ op.kind = "write" /\ call.name = "apply"
  <2>1. Len(Program(call)) = 13
    BY <1>1, <1>6, ApplyProgram
  <2>2. Effective = pos - 1 /\ Effective \in 0..12 /\ Program(call)[Effective + 1] = op
    BY <1>1, <1>6, <2>1 DEF Effective
  <2>3. /\ Rewriting(memory', plan, Effective + 1)
        /\ pos = 13 => Bit(memory'[PD_CONTROL], 1) = Flag(plan.pd_enabled)
    <3>1. /\ Rewriting(After(Program(call)[Effective + 1], memory), plan, Effective + 1)
          /\ Effective + 1 = 13 =>
                Bit(After(Program(call)[Effective + 1], memory)[PD_CONTROL], 1)
                = Flag(plan.pd_enabled)
      BY <1>1, <1>6, <2>2, RewriteStep
    <3> QED BY <1>2, <1>6, <2>2, <3>1
  <2>4. pos # 1
    <3>1. Program(call)[1] = Read(PD_CONTROL)
      BY <1>1, <1>6, ApplyProgram
    <3> QED BY <1>1, <1>6, <3>1 DEF Read
  <2>5. granted' = IF op.register = PD_CONTROL /\ PdOn' THEN call.argument ELSE granted
    <3>1. memory' = [memory EXCEPT ![op.register] = Value(op)] /\ op.register \in Writable
      BY <1>2, <1>6 DEF After, Operations, Shared, Writable, PdoRegisters, CurrentRegisters
    <3>2. op.register = PD_CONTROL => memory'[PD_CONTROL] = Value(op)
      BY <1>1, <3>1
    <3> QED BY <1>2, <1>6, <3>2 DEF PdOn
  <2>6. CASE pos # 13
    <3>1. ~ PdOn'
      <4>1. Effective + 1 >= 2 /\ Effective + 1 <= 12
        BY <1>1, <2>1, <2>2, <2>4, <2>6
      <4>2. Bit(memory'[PD_CONTROL], 1) = 0
        BY <2>3, <4>1 DEF Rewriting
      <4> QED BY <4>2 DEF PdOn
    <3> QED BY <1>1, <1>2, <1>6, <2>3, <2>5, <3>1 DEF ConfigInv
  <2>7. CASE pos = 13
    <3>1. op.register = PD_CONTROL
      <4>1. op = Update(PD_CONTROL, 1, Flag(plan.pd_enabled))
        BY <1>1, <1>6, <2>7, ApplyProgram
      <4> QED BY <4>1 DEF Update
    <3>2. call.argument \in Policies /\ Acceptable(call.argument)
      BY <1>1, <1>6 DEF Calls, Call
    <3>3. PdOn' <=> call.argument.enabled
      <4>1. plan.pd_enabled = call.argument.enabled /\ call.argument.enabled \in BOOLEAN
        BY <3>2, PlanFits
      <4>2. Bit(memory'[PD_CONTROL], 1) = IF call.argument.enabled THEN 1 ELSE 0
        BY <2>3, <2>7, <4>1 DEF Flag
      <4> QED BY <4>1, <4>2 DEF PdOn
    <3>4. HoldsPlan(memory', plan)
      <4>1. Effective + 1 = 13
        BY <2>2, <2>7
      <4> QED BY <2>3, <4>1 DEF Rewriting, HoldsPlan
    <3>5. PdOn' => granted' = call.argument /\ call.argument # None
      BY <2>5, <3>1, <3>2, Sw3538Assumption
    <3>6. ~ PdOn' => granted' = granted
      BY <2>5
    <3>7. ConfigInv'
      BY <1>1, <3>2, <3>3, <3>4, <3>5, <3>6 DEF ConfigInv, Holds
    <3> QED BY <1>2, <1>6, <2>3, <3>7
  <2> QED BY <2>6, <2>7
<1> QED BY <1>2, <1>3, <1>4, <1>5, <1>6 DEF Operations

\* ... and is preserved by every step.
LEMMA PdoNext == PdoInv /\ [Next]_vars => PdoInv'
<1> SUFFICES ASSUME PdoInv, [Next]_vars
             PROVE  PdoInv'
  OBVIOUS
<1>0. WireInv' /\ ~ strayed'
  BY WireNext DEF PdoInv, WireInv
<1>rest. Rest(memory') = Rest(memory) => RestIsKept'
  BY <1>0 DEF PdoInv, RestIsKept
<1>1. ASSUME NEW c \in Calls, Begin(c)
      PROVE  PdoInv'
  <2>1. /\ call' = c /\ pos' = 1 /\ step' = FirstStep(Program(c)[1], bank)
        /\ UNCHANGED <<memory, granted>>
    BY <1>1 DEF Begin, chip
  <2>2. step' # "leave"
    BY <2>1 DEF FirstStep
  <2>3. Effective' = 0
    BY <2>1, <2>2 DEF Effective
  <2>4. Rewriting(memory', from_policy(call'.argument), Effective')
    BY <2>3 DEF Rewriting
  <2>5. ~ (Operation'.kind = "write" /\ Operation'.mask # 255)
    <3>1. 1 \in 1..Len(Program(c)) /\ Operation' = Program(c)[1]
      BY <2>1, ProgramShape DEF Operation
    <3> QED BY <3>1, UpdatesFollowReads
  <2>6. ConfigInv'
    BY <2>1 DEF PdoInv, ConfigInv, PdOn
  <2> QED BY <1>0, <1>rest, <2>1, <2>4, <2>5, <2>6 DEF PdoInv
<1>2. ASSUME NEW c \in Calls, Refuse(c)
      PROVE  PdoInv'
  <2>1. UNCHANGED <<call, pos, step, held, memory, granted>>
    BY <1>2 DEF Refuse, chip
  <2> QED BY <1>0, <1>rest, <2>1 DEF PdoInv, ConfigInv, PdOn, Effective, Operation
<1>3. ASSUME Transfer
      PROVE  PdoInv'
  <2>1. /\ call # None /\ ChipTakes
        /\ IF Reads THEN held' = Seen /\ earlier' = held
           ELSE IF step = "data" THEN held' = 0 /\ earlier' = 0
           ELSE UNCHANGED <<held, earlier>>
    BY <1>3 DEF Transfer
  <2>2. /\ ConfigInv'
        /\ Rest(memory') = Rest(memory)
        /\ call.name = "apply" =>
              Rewriting(memory', from_policy(call.argument),
                        IF step = "data" THEN Effective + 1 ELSE Effective)
    BY <2>1, ChipConfig
  <2>3. /\ call \in Calls /\ pos \in 1..Len(Program(call))
        /\ Operation = Program(call)[pos]
        /\ WireAt(Operation, step, bank, unlocked)
        /\ Operation.kind \in {"read", "write"}
    <3>1. call \in Calls /\ pos \in 1..Len(Program(call)) /\ Operation = Program(call)[pos]
      BY <2>1 DEF PdoInv, WireInv, Sw3538TypeOK, Operation
    <3>2. Operation \in Operations
      BY <3>1, ProgramShape
    <3> QED BY <2>1, <3>1, <3>2 DEF PdoInv, WireInv, Operations
  <2>4. CASE NextStep(Operation) # "done"
    <3>1. step' = NextStep(Operation) /\ call' = call /\ pos' = pos
      BY <1>3, <2>4 DEF Transfer
    <3>2. /\ step # "leave"
          /\ step = "data" => step' = "leave"
          /\ step # "data" => step' # "leave"
      BY <2>3, <2>4, <3>1 DEF NextStep, WireAt
    <3>3. Effective' = IF step = "data" THEN Effective + 1 ELSE Effective
      BY <2>3, <3>1, <3>2 DEF Effective
    <3>4. call'.name = "apply" => Rewriting(memory', from_policy(call'.argument), Effective')
      BY <2>2, <3>1, <3>3
    <3>5. /\ Operation' = Operation
          /\ step' # "leave" => held' = held /\ memory' = memory
      BY <2>1, <3>1, <3>2, ChipAccess DEF Operation, Reads
    <3>6. step' # "leave" /\ Operation'.kind = "write" /\ Operation'.mask # 255 =>
             held' = memory'[Operation'.register]
      BY <2>1, <3>2, <3>5 DEF PdoInv
    <3> QED BY <1>0, <1>rest, <2>2, <3>4, <3>6 DEF PdoInv
  <2>5. CASE NextStep(Operation) = "done" /\ pos = Len(Program(call))
    <3>1. call' = None
      BY <1>3, <2>5 DEF Transfer, Returns
    <3> QED BY <1>0, <1>rest, <2>2, <3>1 DEF PdoInv
  <2>6. CASE NextStep(Operation) = "done" /\ pos # Len(Program(call))
    <3>1. /\ pos' = pos + 1 /\ call' = call
          /\ step' = FirstStep(Program(call)[pos + 1], bank')
      BY <1>3, <2>6 DEF Transfer
    <3>2. step' # "leave" /\ step \in {"data", "leave"}
      BY <2>3, <2>6, <3>1 DEF FirstStep, NextStep, WireAt
    <3>3. Effective' = IF step = "data" THEN Effective + 1 ELSE Effective
      BY <2>3, <3>1, <3>2 DEF Effective
    <3>4. call'.name = "apply" => Rewriting(memory', from_policy(call'.argument), Effective')
      BY <2>2, <3>1, <3>3
    <3>5. ASSUME Operation'.kind = "write", Operation'.mask # 255
          PROVE  held' = memory'[Operation'.register]
      <4>1. Operation' = Program(call)[pos + 1] /\ pos + 1 \in 1..Len(Program(call))
        BY <2>3, <2>6, <3>1, ProgramShape DEF Operation
      <4>2. /\ Program(call)[(pos + 1) - 1] = Read(Operation'.register)
            /\ Operation'.register \in Writable
        BY <2>3, <3>5, <4>1, UpdatesFollowReads
      <4>3. (pos + 1) - 1 = pos
        BY <2>3
      <4>4. Operation.kind = "read" /\ Operation.register = Operation'.register
        BY <2>3, <4>2, <4>3 DEF Read
      <4>5. step = "data" /\ Reads
        BY <2>3, <3>2, <4>4 DEF WireAt, Reads
      <4>6. Target = Operation'.register
        BY <2>1, <4>4, <4>5, ChipAccess
      <4>7. Seen = memory[Operation'.register]
        <5>1. Target \in Writable /\ Target \notin AdcData
          BY <4>2, <4>6 DEF Writable, AdcData, PdoRegisters, CurrentRegisters, PORT_CONTROL,
             ADC_SELECT, PD_COMMAND, PD_CONTROL, PD_VOLTAGE_ENABLE,
             PD_FIXED_CURRENT_CONTROL, PD_FIXED_CURRENT_LOW
        <5> QED BY <4>6, <5>1 DEF Seen
      <4>8. memory' = memory
        BY <2>1, <4>4, <4>5, ChipAccess DEF After
      <4> QED BY <2>1, <4>5, <4>7, <4>8
    <3> QED BY <1>0, <1>rest, <2>2, <3>4, <3>5 DEF PdoInv
  <2> QED BY <2>4, <2>5, <2>6
<1>4. ASSUME TransferFails
      PROVE  PdoInv'
  <2>1. call # None /\ call' = None
    BY <1>4 DEF TransferFails, Returns
  <2>2. CASE ChipTakes
    <3>1. ConfigInv' /\ Rest(memory') = Rest(memory)
      BY <2>1, <2>2, ChipConfig
    <3> QED BY <1>0, <1>rest, <2>1, <3>1 DEF PdoInv
  <2>3. CASE UNCHANGED chip
    <3>1. ConfigInv' /\ Rest(memory') = Rest(memory)
      BY <2>3 DEF chip, PdoInv, ConfigInv, PdOn
    <3> QED BY <1>0, <1>rest, <2>1, <3>1 DEF PdoInv
  <2> QED BY <1>4, <2>2, <2>3 DEF TransferFails
<1>5. ASSUME Recover
      PROVE  PdoInv'
  <2>1. call = None /\ call' = None
    BY <1>5 DEF Recover
  <2>2. CASE UNCHANGED <<memory, granted>>
    <3>1. ConfigInv'
      BY <2>2 DEF PdoInv, ConfigInv, PdOn
    <3> QED BY <1>0, <1>rest, <2>1, <2>2, <3>1 DEF PdoInv
  <2>3. CASE memory' = PowerUp /\ granted' = None
    <3>1. ConfigInv'
      BY <2>3 DEF ConfigInv, Holds
    <3>2. RestIsKept'
      BY <1>0, <2>3 DEF RestIsKept
    <3> QED BY <1>0, <2>1, <3>1, <3>2 DEF PdoInv
  <2> QED BY <1>5, <2>2, <2>3 DEF Recover
<1>6. CASE UNCHANGED vars
  <2>1. UNCHANGED <<call, pos, step, held, memory, granted>>
    BY <1>6 DEF vars, driver, chip
  <2> QED BY <1>0, <1>rest, <2>1 DEF PdoInv, ConfigInv, PdOn, Effective, Operation
<1> QED BY <1>1, <1>2, <1>3, <1>4, <1>5, <1>6 DEF Next

\* The invariant holds.
LEMMA PdoCorrect == Spec => []PdoInv
BY PdoInit, PdoNext, PTL DEF Spec

\* What the masks leave of a byte, by division.
LEMMA MasksDivide ==
    ASSUME NEW x \in 0..255
    PROVE  /\ And(x, 254) = 2 * (x \div 2)
           /\ And(x, 12) = 4 * ((x \div 4) % 4)
           /\ And(x, 253) = 4 * (x \div 4) + (x % 2)
<1>1. 2 * (x \div 2) = 128 * Bit(x, 128) + 64 * Bit(x, 64) + 32 * Bit(x, 32)
                       + 16 * Bit(x, 16) + 8 * Bit(x, 8) + 4 * Bit(x, 4) + 2 * Bit(x, 2)
  BY SMT DEF Bit
<1>2. 4 * (x \div 4) = 128 * Bit(x, 128) + 64 * Bit(x, 64) + 32 * Bit(x, 32)
                       + 16 * Bit(x, 16) + 8 * Bit(x, 8) + 4 * Bit(x, 4)
  BY SMT DEF Bit
<1>3. 4 * ((x \div 4) % 4) = 8 * Bit(x, 8) + 4 * Bit(x, 4)
  BY SMT DEF Bit
<1>4. x % 2 = Bit(x, 1)
  BY SMT DEF Bit
<1>5. And(x, 254) = 2 * (x \div 2)
  BY <1>1, AndMasks
<1>6. And(x, 12) = 4 * ((x \div 4) % 4)
  BY <1>3, AndMasks
<1>7. And(x, 253) = 4 * (x \div 4) + (x % 2)
  BY <1>2, <1>4, AndMasks
<1> QED BY <1>5, <1>6, <1>7

LEMMA SplitSame ==
    ASSUME NEW a \in Int, NEW b \in Int, NEW r \in 0..1, NEW s \in 0..1,
           4 * a + r = 4 * b + s
    PROVE  a = b /\ r = s
BY SMT

\* So bytes that agree under a mask agree in its bits.
LEMMA SameUnder254 ==
    ASSUME NEW x \in 0..255, NEW y \in 0..255, And(x, 254) = And(y, 254)
    PROVE  x \div 2 = y \div 2
<1>1. And(x, 254) = 2 * (x \div 2)
  BY MasksDivide
<1>2. And(y, 254) = 2 * (y \div 2)
  BY MasksDivide
<1>3. 2 * (x \div 2) = 2 * (y \div 2)
  BY <1>1, <1>2
<1> QED BY <1>3, SMT

LEMMA SameUnder12 ==
    ASSUME NEW x \in 0..255, NEW y \in 0..255, And(x, 12) = And(y, 12)
    PROVE  (x \div 4) % 4 = (y \div 4) % 4
<1>1. And(x, 12) = 4 * ((x \div 4) % 4)
  BY MasksDivide
<1>2. And(y, 12) = 4 * ((y \div 4) % 4)
  BY MasksDivide
<1>3. 4 * ((x \div 4) % 4) = 4 * ((y \div 4) % 4)
  BY <1>1, <1>2
<1> QED BY <1>3, SMT

LEMMA SameUnder253 ==
    ASSUME NEW x \in 0..255, NEW y \in 0..255, And(x, 253) = And(y, 253)
    PROVE  x \div 4 = y \div 4 /\ x % 2 = y % 2
<1>1. And(x, 253) = 4 * (x \div 4) + (x % 2)
  BY MasksDivide
<1>2. And(y, 253) = 4 * (y \div 4) + (y % 2)
  BY MasksDivide
<1>3. 4 * (x \div 4) + (x % 2) = 4 * (y \div 4) + (y % 2)
  BY <1>1, <1>2
<1>4. /\ x \div 4 \in Int /\ y \div 4 \in Int
      /\ x % 2 \in 0..1 /\ y % 2 \in 0..1
  BY SMT
<1> QED BY <1>3, <1>4, SplitSame

\* The bits and registers that the driver has no business with keep their values.
THEOREM UntouchedCorrect == Spec => []NothingElseTouched
<1>1. ASSUME PdoInv PROVE NothingElseTouched
  <2>1. memory \in [Writable -> Byte] /\ ~ strayed /\ Rest(memory) = Rest(PowerUp)
    BY <1>1 DEF PdoInv, WireInv, Sw3538TypeOK, RestIsKept
  <2>2. /\ And(memory[PD_CONTROL], 254) = And(PowerUp[PD_CONTROL], 254)
        /\ And(memory[PD_FIXED_CURRENT_CONTROL], 12) = And(PowerUp[PD_FIXED_CURRENT_CONTROL], 12)
        /\ And(memory[PORT_CONTROL], 253) = And(PowerUp[PORT_CONTROL], 253)
    BY <2>1 DEF Rest
  <2>3. PowerUp \in [Writable -> Byte]
    BY DEF PowerUp, Byte
  <2>4. /\ PD_CONTROL \in Writable /\ PD_FIXED_CURRENT_CONTROL \in Writable
        /\ PORT_CONTROL \in Writable
    BY DEF Writable, PdoRegisters, CurrentRegisters
  <2>5. \A r \in Writable : memory[r] \in 0..255 /\ PowerUp[r] \in 0..255
    BY <2>1, <2>3 DEF Byte
  <2>6. memory[PD_CONTROL] \div 2 = PowerUp[PD_CONTROL] \div 2
    <3>1. PICK x \in 0..255 : x = memory[PD_CONTROL]
      BY <2>4, <2>5
    <3>2. PICK y \in 0..255 : y = PowerUp[PD_CONTROL]
      BY <2>4, <2>5
    <3>3. And(x, 254) = And(y, 254)
      BY <2>2, <3>1, <3>2, ZenonT(60)
    <3>4. x \div 2 = y \div 2
      BY <3>3, SameUnder254, ZenonT(60)
    <3> QED BY <3>1, <3>2, <3>4
  <2>7. (memory[PD_FIXED_CURRENT_CONTROL] \div 4) % 4
           = (PowerUp[PD_FIXED_CURRENT_CONTROL] \div 4) % 4
    <3>1. PICK x \in 0..255 : x = memory[PD_FIXED_CURRENT_CONTROL]
      BY <2>4, <2>5
    <3>2. PICK y \in 0..255 : y = PowerUp[PD_FIXED_CURRENT_CONTROL]
      BY <2>4, <2>5
    <3>3. And(x, 12) = And(y, 12)
      BY <2>2, <3>1, <3>2, ZenonT(60)
    <3>4. (x \div 4) % 4 = (y \div 4) % 4
      BY <3>3, SameUnder12, ZenonT(60)
    <3> QED BY <3>1, <3>2, <3>4
  <2>8. /\ memory[PORT_CONTROL] \div 4 = PowerUp[PORT_CONTROL] \div 4
        /\ memory[PORT_CONTROL] % 2 = PowerUp[PORT_CONTROL] % 2
    <3>1. PICK x \in 0..255 : x = memory[PORT_CONTROL]
      BY <2>4, <2>5
    <3>2. PICK y \in 0..255 : y = PowerUp[PORT_CONTROL]
      BY <2>4, <2>5
    <3>3. And(x, 253) = And(y, 253)
      BY <2>2, <3>1, <3>2, ZenonT(60)
    <3>4. x \div 4 = y \div 4 /\ x % 2 = y % 2
      BY <3>3, SameUnder253, ZenonT(60)
    <3> QED BY <3>1, <3>2, <3>4
  <2> QED BY <2>1, <2>6, <2>7, <2>8 DEF NothingElseTouched
<1> QED BY <1>1, PdoCorrect, PTL

\* Registers that hold the plan of a policy offer this plan.
LEMMA PlanIsOffered ==
    ASSUME NEW p \in Policies, Acceptable(p), HoldsPlan(memory, from_policy(p)),
           NEW v \in Voltages
    PROVE  /\ Offered(v) = from_policy(p).current[v]
           /\ v # 5000 => (Offers(v) <=> v \in from_policy(p).enabled)
<1> DEFINE plan == from_policy(p)
           c(w) == plan.current[w]
           e(w) == Flag(w \in plan.enabled)
<1>1. \A w \in Voltages : c(w) \in 0..500
  BY PlanFits
<1>2. /\ memory[292] = 1 * e(9000) + 2 * e(12000) + 4 * e(15000) + 8 * e(20000)
      /\ memory[293] % 4 = c(5000) % 4
      /\ memory[294] = High(c(5000)) /\ memory[295] = High(c(9000))
      /\ memory[296] = High(c(12000)) /\ memory[297] = High(c(15000))
      /\ memory[298] = High(c(20000))
      /\ memory[299] = 64 * (c(20000) % 4) + 16 * (c(15000) % 4) + 4 * (c(12000) % 4)
                       + (c(9000) % 4)
  BY DEF HoldsPlan, enabled_voltage_bits, fixed_current_low, PD_VOLTAGE_ENABLE,
         PD_FIXED_CURRENT_CONTROL, PD_FIXED_CURRENT_LOW
<1> HIDE DEF c, e
<1>3. /\ \A w \in Voltages : 4 * High(c(w)) + (c(w) % 4) = c(w) /\ c(w) % 4 \in 0..3
      /\ \A w : e(w) \in 0..1
  <2>1. \A w : e(w) \in 0..1
    BY FlagValue DEF e
  <2>2. ASSUME NEW w \in Voltages
        PROVE  4 * High(c(w)) + (c(w) % 4) = c(w) /\ c(w) % 4 \in 0..3
    BY <1>1, SplitCurrent, ZenonT(60)
  <2> QED BY <2>1, <2>2
<1>4. /\ memory[299] % 4 = c(9000) % 4
      /\ (memory[299] \div 4) % 4 = c(12000) % 4
      /\ (memory[299] \div 16) % 4 = c(15000) % 4
      /\ (memory[299] \div 64) % 4 = c(20000) % 4
  BY <1>2, <1>3, LowBitsPacked DEF Voltages
<1>5. Offered(v) = c(v)
  <2>1. CASE v = 5000
    BY <1>2, <1>3, <2>1 DEF Offered, LowBits, CurrentHigh, Voltages, PD_FIXED_CURRENT_CONTROL
  <2>2. CASE v = 9000
    BY <1>2, <1>3, <1>4, <2>2 DEF Offered, LowBits, CurrentHigh, Voltages, PD_FIXED_CURRENT_LOW
  <2>3. CASE v = 12000
    BY <1>2, <1>3, <1>4, <2>3 DEF Offered, LowBits, CurrentHigh, Voltages, PD_FIXED_CURRENT_LOW
  <2>4. CASE v = 15000
    BY <1>2, <1>3, <1>4, <2>4 DEF Offered, LowBits, CurrentHigh, Voltages, PD_FIXED_CURRENT_LOW
  <2>5. CASE v = 20000
    BY <1>2, <1>3, <1>4, <2>5 DEF Offered, LowBits, CurrentHigh, Voltages, PD_FIXED_CURRENT_LOW
  <2> QED BY <2>1, <2>2, <2>3, <2>4, <2>5 DEF Voltages
<1>6. /\ Bit(memory[292], 1) = e(9000) /\ Bit(memory[292], 2) = e(12000)
      /\ Bit(memory[292], 4) = e(15000) /\ Bit(memory[292], 8) = e(20000)
  BY <1>2, <1>3, EnableBitsPacked
<1>7. v # 5000 => (Offers(v) <=> v \in plan.enabled)
  <2>1. \A w : e(w) = 1 <=> w \in plan.enabled
    BY DEF e, Flag
  <2>2. v # 5000 => (Offers(v) <=> Bit(memory[292], Weight[v]) = 1)
    BY DEF Offers, PD_VOLTAGE_ENABLE
  <2>3. Weight[9000] = 1 /\ Weight[12000] = 2 /\ Weight[15000] = 4 /\ Weight[20000] = 8
    BY DEF Weight, Voltages
  <2> HIDE DEF plan
  <2>4. CASE v = 9000  BY <1>6, <2>1, <2>2, <2>3, <2>4
  <2>5. CASE v = 12000  BY <1>6, <2>1, <2>2, <2>3, <2>5
  <2>6. CASE v = 15000  BY <1>6, <2>1, <2>2, <2>3, <2>6
  <2>7. CASE v = 20000  BY <1>6, <2>1, <2>2, <2>3, <2>7
  <2> QED BY <2>4, <2>5, <2>6, <2>7 DEF Voltages
<1> QED BY <1>5, <1>7 DEF c

\* The plan of a policy offers what the policy allows.
LEMMA PlanIsAllowed ==
    ASSUME granted \in Policies, Acceptable(granted), granted.enabled,
           HoldsPlan(memory, from_policy(granted)),
           NEW v \in Voltages, Offers(v)
    PROVE  AllowedBy(granted, v, Offered(v))
<1> DEFINE plan == from_policy(granted)
<1>1. /\ \A w \in plan.enabled : w <= granted.pd_limits.max_voltage_mv
      /\ 10 * plan.current[v] <= granted.pd_limits.max_current_ma
      /\ 10 * plan.current[v] * v <= 1000 * granted.pd_limits.max_power_mw
  BY PlanFits
<1>2. /\ Offered(v) = plan.current[v]
      /\ v # 5000 => v \in plan.enabled
  BY PlanIsOffered
<1> HIDE DEF plan
<1> QED BY <1>1, <1>2 DEF AllowedBy

\* While PD is enabled, the chip offers no voltage, current or power that the policy
\* it was enabled for does not allow, wherever calls were interrupted.
THEOREM OfferCorrect == Spec => []OfferWithinPolicy
<1>1. PdoInv => OfferWithinPolicy
  <2> SUFFICES ASSUME PdoInv, PdOn PROVE OfferWithinPolicy
    BY DEF OfferWithinPolicy
  <2>1. CASE granted = None
    BY <2>1 DEF PdoInv, ConfigInv, Holds, OfferWithinPolicy
  <2>2. CASE granted # None
    <3>1. /\ Sw3538TypeOK /\ granted \in Policies /\ Acceptable(granted) /\ granted.enabled
          /\ HoldsPlan(memory, from_policy(granted))
      BY <2>2 DEF PdoInv, WireInv, ConfigInv, Holds
    <3>2. \A v \in Voltages : Offers(v) => AllowedBy(granted, v, Offered(v))
      BY <3>1, PlanIsAllowed
    <3> QED BY <2>2, <3>2 DEF OfferWithinPolicy
  <2> QED BY <2>1, <2>2
<1> QED BY <1>1, PdoCorrect, PTL

-----------------------------------------------------------------------------
\* What a call that returned has done.

\* The traces that the calls leave.
Finished(c) ==
    /\ c \in Calls
    /\ c.name = "apply" => Rewriting(memory, from_policy(c.argument), 13)
    /\ c.name = "adc" => held = c.argument /\ earlier = c.argument
    /\ c.name = "cc" => Bit(memory[PORT_CONTROL], 2) = c.argument
    /\ c.name = "capabilities" => memory[PD_COMMAND] = 10

\* A sample under way selects its channel first, and reads it twice.
Sampling ==
    call # None /\ call.name = "adc" =>
        /\ Effective >= 1 => memory[ADC_SELECT] = call.argument
        /\ Effective >= 2 => held = call.argument

\* The owner of the bus resets no chip behind a call that returned Ok.
Settled ==
    call = None /\ outcome # None /\ outcome.result = "Ok" =>
        bank # "Unknown" /\ Finished(outcome.call)

OkInv == PdoInv /\ Sampling /\ Settled

\* The registers of every call but `apply' are in the base bank.
LEMMA OtherPrograms ==
    ASSUME NEW c \in Calls
    PROVE  /\ c.name = "adc" => Program(c) = <<Write(64, c.argument), Read(65), Read(66)>>
           /\ c.name = "cc" =>
                 Program(c) = <<Read(17), Update(17, 2, 2 * c.argument)>> /\ c.argument \in 0..1
           /\ c.name = "capabilities" => Program(c) = <<Write(167, 10)>>
BY DEF Calls, Call, Program, read_adc, set_cc_undriven, send_source_capabilities,
       ADC_SELECT, PORT_CONTROL, PD_COMMAND

\* An `apply' makes thirteen accesses.
LEMMA ApplyLength ==
    ASSUME NEW c \in Calls, c.name = "apply"
    PROVE  Len(Program(c)) = 13
<1>1. PICK plan : plan = from_policy(c.argument)
  OBVIOUS
<1>2. PICK a, b, d, e, f, g, h, i, j, k, l, m, n :
        Program(c) = <<a, b, d, e, f, g, h, i, j, k, l, m, n>>
  BY <1>1, ApplyProgram
<1> QED BY <1>2

\* A transfer that is the last of an access in the base bank moves its byte.
LEMMA BaseAccess ==
    ASSUME PdoInv, call # None, ~ Extended(Operation.register)
    PROVE  step # "leave" /\ (NextStep(Operation) = "done" <=> step = "data")
<1>1. /\ WireAt(Operation, step, bank, unlocked)
      /\ call \in Calls /\ pos \in 1..Len(Program(call))
  BY DEF PdoInv, WireInv, Sw3538TypeOK
<1>2. Operation.kind \in {"read", "write"}
  BY <1>1, ProgramShape DEF Operation, Operations
<1> QED BY <1>1, <1>2 DEF WireAt, NextStep

\* What an ADC access reads is the channel that is selected.
LEMMA SampleRead ==
    ASSUME PdoInv, call # None, Transfer, step = "data", NEW r \in AdcData, Operation = Read(r)
    PROVE  held' = memory[ADC_SELECT] /\ earlier' = held /\ memory' = memory
<1>1. ChipTakes /\ Operation.kind = "read" /\ Operation.register = r /\ Reads
  BY DEF Transfer, Read, Reads
<1>2. Target = r /\ memory' = memory
  BY <1>1, ChipAccess DEF After
<1>3. Seen = memory[ADC_SELECT]
  BY <1>2 DEF Seen, AdcData, Writable, PdoRegisters, CurrentRegisters, PORT_CONTROL, ADC_SELECT,
              PD_COMMAND, PD_CONTROL, PD_VOLTAGE_ENABLE, PD_FIXED_CURRENT_CONTROL,
              PD_FIXED_CURRENT_LOW
<1> QED BY <1>1, <1>2, <1>3 DEF Transfer

LEMMA CallFinishes ==
    ASSUME OkInv, Transfer, NextStep(Operation) = "done", pos = Len(Program(call)),
           NEW c, c = call
    PROVE  Finished(c)'
<1>1. /\ c \in Calls /\ call # None /\ ChipTakes /\ Operation = Program(c)[pos]
      /\ pos = Len(Program(c)) /\ held \in Byte /\ memory \in [Writable -> Byte]
      /\ WireAt(Operation, step, bank, unlocked)
  BY DEF Transfer, OkInv, PdoInv, WireInv, Sw3538TypeOK, Operation
<1>0. c \in Calls /\ pos = Len(Program(c)) /\ Operation = Program(c)[pos]
  BY <1>1
<1>2. /\ 17 \in Writable /\ 64 \in Writable /\ 167 \in Writable
      /\ PORT_CONTROL = 17 /\ ADC_SELECT = 64 /\ PD_COMMAND = 167
      /\ ~ Extended(17) /\ ~ Extended(66) /\ ~ Extended(167)
  BY DEF Writable, PORT_CONTROL, ADC_SELECT, PD_COMMAND, Extended
<1>3. CASE c.name = "apply"
  <2>1. Len(Program(c)) = 13
    BY <1>0, <1>3, ApplyLength
  <2>2. step \in {"data", "leave"}
    BY <1>1 DEF NextStep, WireAt
  <2>3. (IF step = "data" THEN Effective + 1 ELSE Effective) = 13
    BY <1>1, <2>1, <2>2 DEF Effective
  <2>4. Rewriting(memory', from_policy(call.argument),
                  IF step = "data" THEN Effective + 1 ELSE Effective)
    BY <1>1, <1>3, ChipConfig DEF OkInv
  <2>5. Rewriting(memory', from_policy(c.argument), 13)
    BY <2>3, <2>4
  <2> QED BY <1>1, <1>3, <2>5 DEF Finished
<1>4. CASE c.name = "adc"
  <2>0. Program(c) = <<Write(64, c.argument), Read(65), Read(66)>>
    BY <1>0, <1>4, OtherPrograms
  <2>1. pos = 3 /\ Operation = Read(66)
    BY <1>0, <2>0
  <2>2. step = "data"
    BY <1>1, <1>2, <2>1, BaseAccess DEF Read, OkInv
  <2>3. memory[ADC_SELECT] = c.argument /\ held = c.argument
    BY <1>1, <1>4, <2>1, <2>2 DEF OkInv, Sampling, Effective
  <2>4. held' = memory[ADC_SELECT] /\ earlier' = held
    BY <1>1, <2>1, <2>2, SampleRead DEF OkInv, AdcData
  <2> QED BY <1>1, <1>4, <2>3, <2>4 DEF Finished
<1>5. CASE c.name = "cc"
  <2>0. Program(c) = <<Read(17), Update(17, 2, 2 * c.argument)>> /\ c.argument \in 0..1
    BY <1>0, <1>5, OtherPrograms
  <2>1. pos = 2 /\ Operation = Update(17, 2, 2 * c.argument) /\ c.argument \in 0..1
    BY <1>0, <2>0
  <2>2. step = "data"
    BY <1>1, <1>2, <2>1, BaseAccess DEF Update, OkInv
  <2>3. memory' = [memory EXCEPT ![17] = And(held, 253) + And(2 * c.argument, 2)]
    <3>1. /\ Operation.kind = "write" /\ Operation.register = 17 /\ Operation.mask = 2
          /\ Operation.value = 2 * c.argument
      BY <2>1 DEF Update
    <3>2. memory' = [memory EXCEPT ![17] = Value(Operation)]
      BY <1>1, <2>2, <3>1, ChipAccess DEF OkInv, After
    <3>3. Value(Operation) = And(held, 253) + And(2 * c.argument, 2)
      BY <3>1 DEF Value
    <3> QED BY <3>2, <3>3
  <2>4. memory'[17] = And(held, 253) + And(2 * c.argument, 2)
    BY <1>1, <1>2, <2>3
  <2>5. Bit(memory'[17], 2) = c.argument
    BY <1>1, <2>1, <2>4, UpdatePort
  <2> QED BY <1>1, <1>2, <1>5, <2>5 DEF Finished
<1>6. CASE c.name = "capabilities"
  <2>0. Program(c) = <<Write(167, 10)>>
    BY <1>0, <1>6, OtherPrograms
  <2>1. pos = 1 /\ Operation = Write(167, 10)
    BY <1>0, <2>0
  <2>2. step = "data"
    BY <1>1, <1>2, <2>1, BaseAccess DEF Write, OkInv
  <2>3. memory' = [memory EXCEPT ![167] = 10]
    <3>1. /\ Operation.kind = "write" /\ Operation.register = 167 /\ Operation.mask = 255
          /\ Operation.value = 10
      BY <2>1 DEF Write
    <3> QED BY <1>1, <2>2, <3>1, ChipAccess DEF OkInv, After, Value
  <2> QED BY <1>1, <1>2, <1>6, <2>3 DEF Finished
<1>7. CASE c.name \notin {"apply", "adc", "cc", "capabilities"}
  BY <1>1, <1>7 DEF Finished
<1> QED BY <1>3, <1>4, <1>5, <1>6, <1>7

LEMMA SamplingGoesOn ==
    ASSUME OkInv, Transfer, PdoInv'
    PROVE  Sampling'
<1> SUFFICES ASSUME call' # None, call'.name = "adc"
             PROVE  /\ Effective' >= 1 => memory'[ADC_SELECT] = call'.argument
                    /\ Effective' >= 2 => held' = call'.argument
  BY DEF Sampling
<1>1. /\ call # None /\ call \in Calls /\ ChipTakes /\ pos \in 1..Len(Program(call))
      /\ Operation = Program(call)[pos] /\ memory \in [Writable -> Byte]
      /\ IF Reads THEN held' = Seen /\ earlier' = held
         ELSE IF step = "data" THEN held' = 0 /\ earlier' = 0
         ELSE UNCHANGED <<held, earlier>>
  BY DEF Transfer, OkInv, PdoInv, WireInv, Sw3538TypeOK, Operation
<1>2. /\ call' = call
      /\ \/ /\ NextStep(Operation) # "done" /\ step' = NextStep(Operation) /\ pos' = pos
         \/ /\ NextStep(Operation) = "done" /\ pos # Len(Program(call))
            /\ pos' = pos + 1 /\ step' = FirstStep(Program(call)[pos + 1], bank')
  BY DEF Transfer, Returns
<1>3. Program(call) = <<Write(64, call.argument), Read(65), Read(66)>>
  BY <1>1, <1>2, OtherPrograms
<1>4. /\ pos \in 1..3
      /\ pos = 1 => Operation = Write(64, call.argument)
      /\ pos = 2 => Operation = Read(65)
      /\ pos = 3 => Operation = Read(66)
  BY <1>1, <1>3
<1>5. ~ Extended(Operation.register)
  BY <1>4 DEF Read, Write, Extended
<1>6. step # "leave" /\ (NextStep(Operation) = "done" <=> step = "data")
  BY <1>1, <1>5, BaseAccess DEF OkInv
<1>7. /\ Effective >= 1 => memory[ADC_SELECT] = call.argument
      /\ Effective >= 2 => held = call.argument
      /\ Effective = pos - 1
  BY <1>1, <1>2, <1>6 DEF OkInv, Sampling, Effective
<1>8. CASE step # "data"
  <2>1. step' = NextStep(Operation) /\ pos' = pos
    BY <1>2, <1>6, <1>8
  <2>2. step' # "leave"
    <3>1. WireAt(Operation, step, bank, unlocked)
      BY <1>1 DEF OkInv, PdoInv, WireInv
    <3> QED BY <1>6, <1>8, <2>1, <3>1 DEF NextStep, WireAt
  <2>3. Effective' = Effective
    BY <1>7, <2>1, <2>2 DEF Effective
  <2>4. memory' = memory /\ held' = held
    BY <1>1, <1>8, ChipAccess DEF OkInv, Reads
  <2> QED BY <1>2, <1>7, <2>3, <2>4
<1>9. CASE step = "data"
  <2>1. pos' = pos + 1 /\ pos # 3 /\ step' = FirstStep(Program(call)[pos + 1], bank')
    BY <1>2, <1>3, <1>6, <1>9
  <2>2. Effective' = pos
    BY <1>4, <2>1 DEF Effective, FirstStep
  <2>3. CASE pos = 1
    <3>1. /\ Operation.kind = "write" /\ Operation.register = 64 /\ Operation.mask = 255
          /\ Operation.value = call.argument
      BY <1>4, <2>3 DEF Write
    <3>2. memory' = [memory EXCEPT ![64] = call.argument]
      BY <1>1, <1>9, <3>1, ChipAccess DEF OkInv, After, Value
    <3>3. memory'[64] = call.argument
      BY <1>1, <3>2 DEF Writable, ADC_SELECT
    <3> QED BY <1>2, <2>2, <2>3, <3>3 DEF ADC_SELECT
  <2>4. CASE pos = 2
    <3>1. held' = memory[ADC_SELECT] /\ memory' = memory
      BY <1>1, <1>4, <1>9, <2>4, SampleRead DEF OkInv, AdcData
    <3> QED BY <1>2, <1>7, <2>4, <3>1
  <2> QED BY <1>4, <2>1, <2>3, <2>4
<1> QED BY <1>8, <1>9

LEMMA OkInitial == Init => OkInv
BY PdoInit DEF Init, OkInv, Sampling, Settled

LEMMA OkSteps == OkInv /\ [Next]_vars => OkInv'
<1> SUFFICES ASSUME OkInv, [Next]_vars
             PROVE  OkInv'
  OBVIOUS
<1>0. PdoInv'
  BY PdoNext DEF OkInv
<1>1. ASSUME NEW c \in Calls, Begin(c)
      PROVE  OkInv'
  <2>1. /\ call' = c /\ pos' = 1 /\ step' = FirstStep(Program(c)[1], bank)
        /\ outcome' = None
    BY <1>1 DEF Begin
  <2>2. Effective' = 0
    BY <2>1 DEF Effective, FirstStep
  <2> QED BY <1>0, <2>1, <2>2 DEF OkInv, Sampling, Settled
<1>2. ASSUME NEW c \in Calls, Refuse(c)
      PROVE  OkInv'
  BY <1>0, <1>2 DEF Refuse, OkInv, Sampling, Settled
<1>3. ASSUME Transfer
      PROVE  OkInv'
  <2>1. Sampling'
    BY <1>0, <1>3, SamplingGoesOn
  <2>2. Settled'
    <3>1. CASE call' # None
      BY <3>1 DEF Settled
    <3>2. CASE call' = None
      <4>1. call # None /\ bank' = BankAfter /\ ChipTakes
        BY <1>3 DEF Transfer
      <4>2. NextStep(Operation) = "done" /\ pos = Len(Program(call)) /\ Returns("Ok")
        BY <1>3, <3>2, <4>1 DEF Transfer
      <4>3. PICK c : c = call
        OBVIOUS
      <4>4. outcome' = [call |-> c, result |-> "Ok"]
        BY <4>2, <4>3 DEF Returns
      <4>5. Finished(c)'
        BY <1>3, <4>2, <4>3, CallFinishes
      <4>6. bank' # "Unknown"
        BY <4>1, ChipInv DEF OkInv, PdoInv
      <4>7. outcome'.call = c
        BY <4>4
      <4> QED BY <4>5, <4>6, <4>7 DEF Settled
    <3> QED BY <3>1, <3>2
  <2> QED BY <1>0, <2>1, <2>2 DEF OkInv
<1>4. ASSUME TransferFails
      PROVE  OkInv'
  <2>1. call' = None /\ outcome'.result = "Bus"
    BY <1>4 DEF TransferFails, Returns
  <2> QED BY <1>0, <2>1 DEF OkInv, Sampling, Settled
<1>5. ASSUME Recover
      PROVE  OkInv'
  <2>1. call = None /\ call' = None /\ outcome' = outcome /\ bank = "Unknown"
    BY <1>5 DEF Recover
  <2>2. ~ (outcome # None /\ outcome.result = "Ok")
    BY <2>1 DEF OkInv, Settled
  <2> QED BY <1>0, <2>1, <2>2 DEF OkInv, Sampling, Settled
<1>6. CASE UNCHANGED vars
  <2>1. UNCHANGED <<bank, call, pos, step, held, earlier, outcome, memory>>
    BY <1>6 DEF vars, driver, chip
  <2> QED BY <1>0, <2>1 DEF OkInv, Sampling, Settled, Effective, Finished
<1> QED BY <1>1, <1>2, <1>3, <1>4, <1>5, <1>6 DEF Next

\* A call that returned Ok did what it is for (OkMeansDone): the registers hold the
\* plan, both bytes of the sample are of the channel asked for, the bit and the
\* command are written, however many calls before it were interrupted.
THEOREM OkCorrect == Spec => []OkMeansDone
<1>1. OkInv => OkMeansDone
  <2> SUFFICES ASSUME OkInv, call = None, outcome # None, outcome.result = "Ok"
               PROVE  OkMeansDone
    BY DEF OkMeansDone
  <2>1. PICK c : c = outcome.call
    OBVIOUS
  <2>2. Finished(c) /\ c \in Calls
    BY <2>1 DEF OkInv, Settled, Finished
  <2>3. CASE c.name = "apply"
    <3>1. PICK plan : plan = from_policy(c.argument)
      OBVIOUS
    <3>2. c.argument \in Policies /\ Acceptable(c.argument)
      BY <2>2, <2>3 DEF Calls, Call
    <3>3. plan.pd_enabled \in BOOLEAN
      BY <3>1, <3>2, PlanFits
    <3>4. HoldsPlan(memory, plan) /\ Bit(memory[PD_CONTROL], 1) = Flag(plan.pd_enabled)
      BY <2>2, <2>3, <3>1 DEF Finished, Rewriting, HoldsPlan
    <3>5. PdOn <=> plan.pd_enabled
      BY <3>3, <3>4 DEF PdOn, Flag
    <3>6. \A v \in Voltages : /\ Offered(v) = plan.current[v]
                              /\ v # 5000 => (Offers(v) <=> v \in plan.enabled)
      BY <3>1, <3>2, <3>4, PlanIsOffered
    <3> QED BY <2>1, <2>3, <3>1, <3>5, <3>6 DEF OkMeansDone
  <2>4. CASE c.name # "apply"
    BY <2>1, <2>2, <2>4 DEF OkMeansDone, Finished
  <2> QED BY <2>3, <2>4
<1> QED BY <1>1, OkInitial, OkSteps, PTL DEF Spec
===============================================================================
