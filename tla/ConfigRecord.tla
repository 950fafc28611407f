---------------------------- MODULE ConfigRecord ----------------------------
(***************************************************************************)
(* The persisted configuration records of                                  *)
(* firmware/crates/pdcan-drivers/src/config_record.rs: two flash slots, of *)
(* which a boot selects the newest valid one.                              *)
(*                                                                         *)
(* A record is four things in flash: a header with its generation, the     *)
(* payload, the checksum over both, and the commit word.  The checksum is  *)
(* the pair it is computed from, and a payload is one of a few values.     *)
(* The repository has the encoding and the selection, and the flash driver *)
(* that uses them is not written yet: the writer, the power and the flash  *)
(* cells below are modelled from how the record is laid out and tested     *)
(* (slots are rewritten in turn, the commit word is programmed last).      *)
(***************************************************************************)
EXTENDS Naturals

CONSTANTS
    Payloads,       \* the configurations written
    Erased,         \* a cell that was erased
    Garbage,        \* a cell whose erasure or programming was interrupted
    None,           \* no record, no write
    COMMIT_WORD,
    HalfRange,      \* 0x8000_0000: half the generations of 32 bits
    MaxWrites,      \* bound: the writes begun in a behaviour
    MaxCorruptions  \* bound: the cells that fail on their own

ASSUME RecordAssumption ==
    /\ HalfRange \in Nat /\ HalfRange >= 2
    /\ None \notin Payloads
    /\ None \notin [slot : {1, 2},
                    step : {"erase", "header", "payload", "checksum", "commit", "done"},
                    record : [header : Nat, payload : Payloads,
                              checksum : Nat \X Payloads, commit : {COMMIT_WORD}]]
    /\ {Erased, Garbage} \cap (Payloads \cup {COMMIT_WORD} \cup Nat) = {}
    /\ {Erased, Garbage} \cap
          ((Nat \cup {Erased, Garbage}) \X (Payloads \cup {Erased, Garbage})) = {}
    /\ {MaxWrites, MaxCorruptions} \subseteq Nat

VARIABLES
    cells,          \* the two slots
    writer,         \* the write in progress: its slot, record and next step
    begun,          \* how many writes were begun
    corruptions,    \* how many cells failed
    committed,      \* history: the payloads committed, the last one and all
    acknowledged    \* history: the payload of the last write that returned

recordVars == <<cells, writer, begun, corruptions, committed, acknowledged>>

Generations == 2 * HalfRange
Slots == {1, 2}
Fields == {"header", "payload", "checksum", "commit"}

-----------------------------------------------------------------------------
\* Encoding and selection.

encode(generation, payload) ==
    [header |-> generation, payload |-> payload,
     checksum |-> <<generation, payload>>, commit |-> COMMIT_WORD]

\* Mutant: a record is taken as it is, checksum unseen.
Decodes_Unchecked(r) == r.commit = COMMIT_WORD

\* Whether decode accepts what is in a slot.
Decodes(r) == r.commit = COMMIT_WORD /\ r.checksum = <<r.header, r.payload>>

\* Mutant: generations compare as plain numbers.
generation_is_newer_Plain(candidate, current) == candidate > current

wrapping_sub(a, b) == IF a >= b THEN a - b ELSE a + Generations - b

generation_is_newer(candidate, current) ==
    candidate # current /\ wrapping_sub(candidate, current) < HalfRange

\* Mutant: the first valid slot wins.
select_newest_First(first, second) ==
    IF Decodes(first) THEN 1 ELSE IF Decodes(second) THEN 2 ELSE 0

\* Which of the two records a boot takes, 0 if neither.
select_newest(first, second) ==
    IF Decodes(first) /\ Decodes(second)
    THEN IF generation_is_newer(second.header, first.header) THEN 2 ELSE 1
    ELSE IF Decodes(first) THEN 1 ELSE IF Decodes(second) THEN 2 ELSE 0

Newest == select_newest(cells[1], cells[2])

\* The payload a boot would run with.
Current == IF Newest = 0 THEN None ELSE cells[Newest].payload

-----------------------------------------------------------------------------
\* The writer.

Blank == [f \in Fields |-> Erased]

RecordInit ==
    /\ cells = [s \in Slots |-> Blank]
    /\ writer = None
    /\ begun = 0
    /\ corruptions = 0
    /\ committed = [last |-> None, all |-> {}]
    /\ acknowledged = None

\* The slot that does not hold the newest record.
TargetSlot == IF Newest = 1 THEN 2 ELSE 1

Successor(g) == IF g + 1 = Generations THEN 0 ELSE g + 1

NextGeneration == IF Newest = 0 THEN 0 ELSE Successor(cells[Newest].header)

Begin(p) ==
    /\ writer = None
    /\ begun < MaxWrites
    /\ begun' = begun + 1
    /\ writer' = [slot |-> TargetSlot, step |-> "erase",
                  record |-> encode(NextGeneration, p)]
    /\ UNCHANGED <<cells, corruptions, committed, acknowledged>>

\* The steps of a write, in the order they happen.
After == [erase |-> "header", header |-> "payload", payload |-> "checksum",
          checksum |-> "commit", commit |-> "done"]

Rewritten ==
    IF writer.step = "erase" THEN Blank
    ELSE [cells[writer.slot] EXCEPT ![writer.step] = writer.record[writer.step]]

Step ==
    /\ writer # None
    /\ writer.step # "done"
    /\ cells' = [cells EXCEPT ![writer.slot] = Rewritten]
    /\ writer' = [slot |-> writer.slot, step |-> After[writer.step],
                  record |-> writer.record]
    /\ committed' = IF writer.step = "commit"
                    THEN [last |-> writer.record.payload,
                          all |-> committed.all \cup {writer.record.payload}]
                    ELSE committed
    /\ UNCHANGED <<begun, corruptions, acknowledged>>

Finish ==
    /\ writer # None
    /\ writer.step = "done"
    /\ writer' = None
    /\ acknowledged' = writer.record.payload
    /\ UNCHANGED <<cells, begun, corruptions, committed>>

\* The power fails while a step is under way: each cell the step changes is as
\* before or garbage.  (A power failure after the step is one before the next.)
PowerFails ==
    /\ writer # None
    /\ \E hit \in SUBSET Fields :
          cells' = [cells EXCEPT ![writer.slot] =
              IF writer.step = "done" THEN @
              ELSE [f \in Fields |-> IF f \in hit /\ Rewritten[f] # @[f] THEN Garbage ELSE @[f]]]
    /\ writer' = None
    /\ UNCHANGED <<begun, corruptions, committed, acknowledged>>

\* A cell fails long after it was written.
Corrupt(s, f) ==
    /\ corruptions < MaxCorruptions
    /\ writer = None
    /\ cells[s][f] # Garbage
    /\ corruptions' = corruptions + 1
    /\ cells' = [cells EXCEPT ![s][f] = Garbage]
    /\ UNCHANGED <<writer, begun, committed, acknowledged>>

RecordNext ==
    \/ \E p \in Payloads : Begin(p)
    \/ Step
    \/ Finish
    \/ PowerFails
    \/ \E s \in Slots, f \in Fields : Corrupt(s, f)

RecordSpec == RecordInit /\ [][RecordNext]_recordVars

-----------------------------------------------------------------------------
\* A boot at any moment, in the middle of a write too, runs with the last
\* committed configuration: whichever slots a power failure has spoilt and
\* however often the generation has wrapped (config_record.rs:130, 144).
\* This is for a flash whose cells do not fail on their own.
BootsWithLastCommitted == corruptions = 0 => Current = committed.last

\* A failed cell may cost a configuration, and a boot then falls back on an
\* older one or on none; it never runs with one that was not committed.
BootsWithACommitted == Current \in committed.all \cup {None}

\* As long as no cell fails, two slots implement one record that is written at
\* once or not at all.
writing == IF writer = None THEN None ELSE writer.record.payload

Atomic == INSTANCE AtomicRecord WITH
              Values <- Payloads, record <- Current, writing <- writing

ImplementsAtomicRecord ==
    /\ Atomic!Init
    /\ [][corruptions' = 0 => Atomic!Next]_<<Current, writing, acknowledged>>
=============================================================================
