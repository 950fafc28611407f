------------------------ MODULE ConfigRecord_proofs ------------------------
(***************************************************************************)
(* Proofs about ConfigRecord: a boot runs with the last configuration that *)
(* was committed, for every number of generations and of payloads, however *)
(* many writes are begun and however many of them a power failure ends;    *)
(* with only one that was committed if cells fail; and the two slots       *)
(* implement AtomicRecord.                                                 *)
(*                                                                         *)
(* The argument: one slot, w, is never needed.  Kept(w) says that the      *)
(* other slot holds the last committed record, or that nothing was ever    *)
(* committed; Behind(w) that w itself holds an invalid record or the one   *)
(* just before.  The writer only touches such a slot, and until it has     *)
(* programmed the commit word what it leaves there is invalid.             *)
(***************************************************************************)
EXTENDS ConfigRecord, TLAPS

Generation == 0..(Generations - 1)

HeaderCells == Generation \cup {Erased, Garbage}
PayloadCells == Payloads \cup {Erased, Garbage}
ChecksumCells == (Generation \X Payloads) \cup {Erased, Garbage}

Shape ==
    /\ DOMAIN cells = Slots
    /\ \A s \in Slots : /\ DOMAIN cells[s] = Fields
                        /\ cells[s].header \in HeaderCells
                        /\ cells[s].payload \in PayloadCells
                        /\ cells[s].checksum \in ChecksumCells

Good(s) ==
    /\ Decodes(cells[s])
    /\ cells[s].header \in Generation
    /\ cells[s].payload \in Payloads
    /\ cells[s].payload = committed.last

Kept(w) == Good(3 - w) \/ (committed.last = None /\ ~ Decodes(cells[3 - w]))

Behind(w) ==
    Decodes(cells[w]) => /\ Good(3 - w)
                       /\ cells[w].header \in Generation
                       /\ cells[3 - w].header = Successor(cells[w].header)

\* Some slot is free to be rewritten.
Idle == \E w \in Slots : Kept(w) /\ Behind(w)

\* The writer's record is complete, and goes to a free slot.
Encoded ==
    /\ writer.record.header \in Generation
    /\ writer.record.payload \in Payloads
    /\ writer.record.checksum = <<writer.record.header, writer.record.payload>>
    /\ writer.record.commit = COMMIT_WORD

Unfinished ==
    LET w == writer.slot
        r == writer.record
    IN /\ Kept(w)
       /\ Good(3 - w) => r.header = Successor(cells[3 - w].header)
       /\ writer.step = "erase" => Behind(w)
       /\ writer.step # "erase" => cells[w].commit # COMMIT_WORD
       /\ writer.step \in {"payload", "checksum", "commit"} => cells[w].header = r.header
       /\ writer.step \in {"checksum", "commit"} => cells[w].payload = r.payload
       /\ writer.step = "commit" => cells[w].checksum = r.checksum

Busy ==
    /\ writer.slot \in Slots
    /\ writer.step \in {"erase", "header", "payload", "checksum", "commit", "done"}
    /\ Encoded
    /\ writer.step # "done" => Unfinished

RecordInv ==
    /\ corruptions \in Nat
    /\ corruptions = 0 => Shape /\ Idle /\ (writer # None => Busy)

-----------------------------------------------------------------------------
\* The generation after g is newer than g, and g is not newer than it.
LEMMA SuccessorIsNewer ==
    ASSUME NEW g \in Generation
    PROVE  /\ Successor(g) \in Generation
           /\ generation_is_newer(Successor(g), g)
           /\ ~ generation_is_newer(g, Successor(g))
  BY RecordAssumption
     DEF Generation, Generations, Successor, generation_is_newer, wrapping_sub

\* Where slot w is free, a boot takes the other slot, or none if nothing was
\* ever committed.
LEMMA FreeSlotIsNotTheNewest ==
    ASSUME NEW w \in Slots, Kept(w), Behind(w)
    PROVE  /\ Good(3 - w) => Newest = 3 - w
           /\ ~ Good(3 - w) => Newest = 0
           /\ Current = committed.last
  <1>1. w = 1 \/ w = 2
    BY DEF Slots
  <1>2. CASE Good(3 - w)
    <2>1. Decodes(cells[3 - w]) /\ cells[3 - w].payload = committed.last
      BY <1>2 DEF Good
    <2>2. CASE ~ Decodes(cells[w])
      BY <1>1, <1>2, <2>1, <2>2 DEF Newest, Current, select_newest
    <2>3. CASE Decodes(cells[w])
      <3>1. /\ cells[w].header \in Generation
            /\ cells[3 - w].header = Successor(cells[w].header)
        BY <2>3 DEF Behind
      <3>2. /\ generation_is_newer(cells[3 - w].header, cells[w].header)
            /\ ~ generation_is_newer(cells[w].header, cells[3 - w].header)
        BY <3>1, SuccessorIsNewer
      <3>3. Newest = 3 - w
        BY <1>1, <2>1, <2>3, <3>2 DEF Newest, select_newest
      <3> QED
        BY <1>1, <1>2, <2>1, <3>3 DEF Current
    <2> QED
      BY <2>2, <2>3
  <1>3. CASE ~ Good(3 - w)
    <2>1. committed.last = None /\ ~ Decodes(cells[3 - w]) /\ ~ Decodes(cells[w])
      BY <1>3 DEF Kept, Behind
    <2> QED
      BY <1>1, <1>3, <2>1 DEF Newest, Current, select_newest
  <1> QED
    BY <1>2, <1>3

-----------------------------------------------------------------------------
\* Init establishes the invariant: both slots are blank.
LEMMA RecordStarts == RecordInit => RecordInv
  <1> SUFFICES ASSUME RecordInit PROVE RecordInv
    OBVIOUS
  <1>1. Erased # COMMIT_WORD
    BY RecordAssumption
  <1>2. /\ \A s \in Slots : cells[s] = Blank
        /\ DOMAIN cells = Slots
        /\ committed.last = None
        /\ writer = None /\ corruptions = 0
    BY DEF RecordInit
  <1>3. /\ Blank.commit = Erased /\ Blank.checksum = Erased /\ DOMAIN Blank = Fields
        /\ Blank.header = Erased /\ Blank.payload = Erased
    BY DEF Blank, Fields
  <1>4. \A s \in Slots : ~ Decodes(cells[s])
    BY <1>1, <1>2, <1>3 DEF Decodes
  <1>5. Kept(1) /\ Behind(1)
    BY <1>2, <1>4 DEF Kept, Behind, Slots
  <1>6. Shape
    BY <1>2, <1>3 DEF Shape, HeaderCells, PayloadCells, ChecksumCells
  <1> QED
    BY <1>2, <1>5, <1>6 DEF RecordInv, Idle, Slots

-----------------------------------------------------------------------------
\* What slot w and the other slot are made of is all Kept and Behind look at.
LEMMA OtherSlot ==
    ASSUME NEW w \in Slots
    PROVE  3 - w \in Slots /\ 3 - w # w /\ 3 - (3 - w) = w
  BY DEF Slots

\* Begin chooses a free slot and the next generation.
LEMMA BeginKeeps ==
    ASSUME RecordInv, NEW p \in Payloads, Begin(p)
    PROVE  RecordInv'
  <1>1. corruptions' = corruptions /\ UNCHANGED <<cells, committed>>
    BY DEF Begin
  <1> SUFFICES ASSUME corruptions = 0 PROVE Shape' /\ Idle' /\ Busy'
    BY <1>1 DEF RecordInv
  <1>2. Shape /\ Idle
    BY DEF RecordInv
  <1>3. Shape' /\ Idle'
    BY <1>1, <1>2 DEF Shape, Idle, Kept, Behind, Good, Decodes
  <1>4. PICK w \in Slots : Kept(w) /\ Behind(w)
    BY <1>2 DEF Idle
  <1>5. /\ Good(3 - w) => Newest = 3 - w
        /\ ~ Good(3 - w) => Newest = 0
    BY <1>4, FreeSlotIsNotTheNewest
  <1> DEFINE t == TargetSlot
  <1>6. t \in Slots /\ Kept(t) /\ Behind(t) /\ (Good(3 - t) => w = t)
    <2>1. CASE Good(3 - w)
      <3>1. t = w
        BY <1>5, <2>1 DEF TargetSlot, Slots
      <3> QED
        BY <1>4, <3>1
    <2>2. CASE ~ Good(3 - w)
      <3>1. committed.last = None /\ ~ Decodes(cells[3 - w]) /\ ~ Decodes(cells[w])
        BY <1>4, <2>2 DEF Kept, Behind
      <3>2. t \in Slots
        BY DEF TargetSlot, Slots
      <3>3. ~ Decodes(cells[t]) /\ ~ Decodes(cells[3 - t])
        BY <3>1, <3>2 DEF Slots
      <3> QED
        BY <3>1, <3>2, <3>3 DEF Kept, Behind, Good
    <2> QED
      BY <2>1, <2>2
  <1>7. /\ NextGeneration \in Generation
        /\ Good(3 - t) => NextGeneration = Successor(cells[3 - t].header)
    <2>1. CASE Good(3 - w)
      <3>1. Newest = 3 - w /\ Newest # 0 /\ cells[3 - w].header \in Generation
        BY <1>5, <2>1 DEF Good, Slots
      <3>2. NextGeneration = Successor(cells[3 - w].header)
        BY <3>1 DEF NextGeneration
      <3> QED
        BY <1>6, <3>1, <3>2, SuccessorIsNewer
    <2>2. CASE ~ Good(3 - w)
      <3>1. NextGeneration = 0
        BY <1>5, <2>2 DEF NextGeneration
      <3>2. ~ Good(3 - t)
        BY <1>6, <2>2
      <3> QED
        BY <3>1, <3>2, RecordAssumption DEF Generation, Generations
    <2> QED
      BY <2>1, <2>2
  <1>8. writer' = [slot |-> t, step |-> "erase", record |-> encode(NextGeneration, p)]
    BY DEF Begin
  <1> HIDE DEF t
  <1>9. Encoded'
    BY <1>7, <1>8 DEF Encoded, encode, Generation, Generations
  <1>10. /\ writer'.slot = t /\ writer'.step = "erase"
         /\ writer'.record.header = NextGeneration
    BY <1>8 DEF encode
  <1>11. Unfinished'
    BY <1>1, <1>6, <1>7, <1>10 DEF Unfinished, Kept, Behind, Good, Decodes, Successor, Generations
  <1> QED
    BY <1>3, <1>6, <1>9, <1>10, <1>11 DEF Busy

\* A step leaves every cell one that a writer or a failure can leave.
LEMMA StepWrites ==
    ASSUME Shape, writer.slot \in Slots, Encoded, Step
    PROVE  /\ Shape'
           /\ cells'[writer.slot] = Rewritten
           /\ \A s \in Slots : s # writer.slot => cells'[s] = cells[s]
  <1>w. PICK w \in Slots : w = writer.slot
    OBVIOUS
  <1>r. PICK r : r = writer.record
    OBVIOUS
  <1>1. cells' = [cells EXCEPT ![w] = Rewritten]
    BY <1>w DEF Step
  <1>2. /\ cells'[w] = Rewritten /\ DOMAIN cells' = Slots
        /\ \A s \in Slots : s # w => cells'[s] = cells[s]
    BY <1>1 DEF Shape
  <1>3. /\ DOMAIN Rewritten = Fields
        /\ Rewritten.header \in HeaderCells
        /\ Rewritten.payload \in PayloadCells
        /\ Rewritten.checksum \in ChecksumCells
    <2>1. CASE writer.step = "erase"
      BY <2>1 DEF Rewritten, Blank, Fields, HeaderCells, PayloadCells, ChecksumCells
    <2>2. CASE writer.step # "erase"
      <3>1. Rewritten = [cells[w] EXCEPT ![writer.step] = r[writer.step]]
        BY <2>2, <1>w, <1>r DEF Rewritten
      <3>2. DOMAIN Rewritten = Fields
        BY <3>1 DEF Shape
      <3>3. /\ Rewritten.header \in {cells[w].header, r.header}
            /\ Rewritten.payload \in {cells[w].payload, r.payload}
            /\ Rewritten.checksum \in {cells[w].checksum, r.checksum}
        BY <3>1 DEF Shape, Fields
      <3>4. /\ cells[w].header \in HeaderCells /\ r.header \in HeaderCells
            /\ cells[w].payload \in PayloadCells /\ r.payload \in PayloadCells
            /\ cells[w].checksum \in ChecksumCells /\ r.checksum \in ChecksumCells
        BY <1>r DEF Shape, Encoded, HeaderCells, PayloadCells, ChecksumCells
      <3> QED
        BY <3>2, <3>3, <3>4
    <2> QED
      BY <2>1, <2>2
  <1>4. \A s \in Slots \ {w} : /\ DOMAIN cells'[s] = Fields
                               /\ cells'[s].header \in HeaderCells
                               /\ cells'[s].payload \in PayloadCells
                               /\ cells'[s].checksum \in ChecksumCells
    BY <1>2 DEF Shape
  <1>5. UNCHANGED <<HeaderCells, PayloadCells, ChecksumCells>>
    BY DEF HeaderCells, PayloadCells, ChecksumCells, Generation, Generations
  <1>6. Shape'
    BY <1>2, <1>3, <1>4, <1>5 DEF Shape
  <1> QED
    BY <1>w, <1>2, <1>6

\* Step changes the writer's slot only, and leaves it invalid until the commit
\* word is programmed: that record is then the last committed one.
LEMMA StepKeeps ==
    ASSUME RecordInv, Step
    PROVE  RecordInv'
  <1>1. /\ corruptions' = corruptions /\ writer # None /\ writer.step # "done"
        /\ cells' = [cells EXCEPT ![writer.slot] = Rewritten]
        /\ writer' = [slot |-> writer.slot, step |-> After[writer.step],
                      record |-> writer.record]
        /\ committed' = IF writer.step = "commit"
                        THEN [last |-> writer.record.payload,
                              all |-> committed.all \cup {writer.record.payload}]
                        ELSE committed
    BY DEF Step
  <1> SUFFICES ASSUME corruptions = 0 PROVE Shape' /\ Idle' /\ Busy'
    BY <1>1 DEF RecordInv
  <1>2. Shape /\ Busy /\ Unfinished /\ Encoded
    BY <1>1 DEF RecordInv, Busy
  <1>w. PICK w \in Slots : w = writer.slot
    BY <1>2 DEF Busy
  <1>r. PICK r : r = writer.record
    OBVIOUS
  <1>3. 3 - w \in Slots /\ 3 - w # w /\ 3 - (3 - w) = w
    BY OtherSlot
  <1>4. /\ cells'[w] = Rewritten
        /\ cells'[3 - w] = cells[3 - w]
        /\ DOMAIN cells' = Slots
    BY <1>1, <1>2, <1>3, <1>w DEF Shape
  <1>5. writer.step \in {"erase", "header", "payload", "checksum", "commit"}
    BY <1>1, <1>2 DEF Busy
  <1>6. writer'.slot = w /\ writer'.record = r /\ writer'.step = After[writer.step]
    BY <1>1, <1>w, <1>r
  <1>7. Kept(w) /\ (Good(3 - w) => r.header = Successor(cells[3 - w].header))
    BY <1>2, <1>w, <1>r DEF Unfinished
  <1>8. Encoded'
    BY <1>2, <1>6, <1>r DEF Encoded, Generation, Generations
  <1>10. Shape'
    BY <1>2, <1>w, StepWrites
  <1>11. CASE writer.step # "commit"
    <2>1. committed' = committed
      BY <1>1, <1>11
    <2>2. Kept(w)' /\ (Good(3 - w)' => Good(3 - w))
      BY <1>4, <1>7, <2>1 DEF Kept, Good, Decodes, Generation, Generations
    <2>3. cells'[w].commit # COMMIT_WORD
      <3>1. CASE writer.step = "erase"
        BY <1>4, <3>1, RecordAssumption DEF Rewritten, Blank, Fields
      <3>2. CASE writer.step # "erase"
        <4>1. Rewritten = [cells[w] EXCEPT ![writer.step] = r[writer.step]]
          BY <3>2, <1>w, <1>r DEF Rewritten
        <4>2. Rewritten.commit = cells[w].commit
          BY <1>2, <1>11, <4>1 DEF Shape, Fields
        <4>3. cells[w].commit # COMMIT_WORD
          BY <1>2, <1>w, <3>2 DEF Unfinished
        <4> QED
          BY <1>4, <4>2, <4>3
      <3> QED
        BY <3>1, <3>2
    <2>4. Idle'
      BY <1>3, <2>2, <2>3 DEF Idle, Behind, Decodes
    <2>5. /\ writer.step # "erase" => Rewritten = [cells[w] EXCEPT ![writer.step] = r[writer.step]]
          /\ DOMAIN cells[w] = Fields
      BY <1>2, <1>w, <1>r DEF Rewritten, Shape
    <2>6. /\ writer.step = "header" => cells'[w].header = r.header
          /\ writer.step = "payload" => /\ cells'[w].payload = r.payload
                                        /\ cells'[w].header = cells[w].header
          /\ writer.step = "checksum" => /\ cells'[w].checksum = r.checksum
                                         /\ cells'[w].payload = cells[w].payload
                                         /\ cells'[w].header = cells[w].header
      BY <1>4, <2>5 DEF Fields
    <2>7. /\ writer.step \in {"payload", "checksum"} => cells[w].header = r.header
          /\ writer.step = "checksum" => cells[w].payload = r.payload
      BY <1>2, <1>w, <1>r DEF Unfinished
    <2>8. /\ writer'.step \in {"payload", "checksum", "commit"} => cells'[w].header = r.header
          /\ writer'.step \in {"checksum", "commit"} => cells'[w].payload = r.payload
          /\ writer'.step = "commit" => cells'[w].checksum = r.checksum
          /\ writer'.step # "erase"
      BY <1>5, <1>6, <1>11, <2>6, <2>7 DEF After
    <2>9. Good(3 - w)' => r.header = Successor(cells[3 - w].header)'
      BY <1>4, <1>7, <2>2 DEF Successor, Generations
    <2>10. Unfinished'
      BY <1>6, <2>2, <2>3, <2>8, <2>9 DEF Unfinished
    <2> QED
      BY <1>3, <1>5, <1>6, <1>8, <1>10, <1>11, <2>4, <2>10 DEF Busy, After
  <1>12. CASE writer.step = "commit"
    <2>1. committed'.last = r.payload
      BY <1>1, <1>12, <1>r
    <2>2. /\ cells[w].header = r.header /\ cells[w].payload = r.payload
          /\ cells[w].checksum = r.checksum
      BY <1>2, <1>12, <1>w, <1>r DEF Unfinished
    <2>3. Rewritten = [cells[w] EXCEPT !["commit"] = r["commit"]]
      BY <1>12, <1>w, <1>r DEF Rewritten
    <2>4. /\ cells'[w].header = r.header /\ cells'[w].payload = r.payload
          /\ cells'[w].checksum = r.checksum /\ cells'[w].commit = r.commit
      BY <1>2, <1>4, <2>2, <2>3 DEF Shape, Fields
    <2>5. Good(w)'
      BY <1>2, <1>r, <2>1, <2>4 DEF Good, Decodes, Encoded, Generation, Generations
    <2>6. Kept(3 - w)'
      BY <1>3, <2>5 DEF Kept
    <2>7. Behind(3 - w)'
      <3> SUFFICES ASSUME Decodes(cells[3 - w])'
                   PROVE  /\ Good(w)'
                          /\ cells'[3 - w].header \in Generation
                          /\ cells'[w].header = Successor(cells'[3 - w].header)
        BY <1>3 DEF Behind, Generation, Generations, Successor
      <3>1. Decodes(cells[3 - w])
        BY <1>4 DEF Decodes
      <3>2. Good(3 - w)
        BY <1>7, <3>1 DEF Kept
      <3> QED
        BY <1>4, <1>7, <2>4, <2>5, <3>2 DEF Good
    <2>8. Idle'
      BY <1>3, <2>6, <2>7 DEF Idle
    <2> QED
      BY <1>6, <1>8, <1>10, <1>12, <2>8 DEF Busy, After
  <1> QED
    BY <1>11, <1>12

\* Finish changes no cell.
LEMMA FinishKeeps ==
    ASSUME RecordInv, Finish
    PROVE  RecordInv'
  <1>1. writer' = None /\ UNCHANGED <<cells, corruptions, committed>>
    BY DEF Finish
  <1> QED
    BY <1>1 DEF RecordInv, Shape, Idle, Kept, Behind, Good, Decodes, Slots, Fields, Generation,
                Generations, HeaderCells, PayloadCells,
                ChecksumCells, Successor

\* What decode accepts is whole: the checksum is over a generation and a
\* payload, never over an erased or spoilt cell.
LEMMA ValidIsWhole ==
    ASSUME NEW r, Decodes(r), r.header \in HeaderCells, r.payload \in PayloadCells,
           r.checksum \in ChecksumCells
    PROVE  /\ r.header \in Generation /\ r.payload \in Payloads
           /\ Garbage \notin {r.header, r.payload, r.checksum, r.commit}
  <1>1. r.commit = COMMIT_WORD /\ r.checksum = <<r.header, r.payload>>
    BY DEF Decodes
  <1>2. \A g \in Generation : g \in Nat
    BY RecordAssumption DEF Generation, Generations
  <1>3. r.header \in Nat \cup {Erased, Garbage} /\ r.payload \in Payloads \cup {Erased, Garbage}
    BY <1>2 DEF HeaderCells, PayloadCells
  <1>4. r.checksum \notin {Erased, Garbage}
    BY <1>1, <1>3, RecordAssumption
  <1>5. r.checksum \in Generation \X Payloads
    BY <1>4 DEF ChecksumCells
  <1>6. r.header \in Generation /\ r.payload \in Payloads
    BY <1>1, <1>5
  <1>7. Garbage # r.header /\ Garbage # r.payload /\ Garbage # r.commit
    BY <1>1, <1>2, <1>6, RecordAssumption
  <1> QED
    BY <1>4, <1>6, <1>7

\* Cells that fail leave a slot invalid, or as it was.
LEMMA SpoiltIsInvalid ==
    ASSUME Shape, Shape', NEW s \in Slots,
           \A f \in Fields : cells'[s][f] \in {cells[s][f], Garbage},
           Decodes(cells[s])'
    PROVE  /\ Decodes(cells[s]) /\ cells'[s].commit = cells[s].commit
           /\ cells'[s].header = cells[s].header /\ cells'[s].payload = cells[s].payload
  <1>1. /\ cells'[s].header \in HeaderCells /\ cells'[s].payload \in PayloadCells
        /\ cells'[s].checksum \in ChecksumCells
    BY DEF Shape, HeaderCells, PayloadCells, ChecksumCells, Generation, Generations
  <1>2. Decodes(cells'[s])
    BY DEF Decodes
  <1>3. Garbage \notin {cells'[s].header, cells'[s].payload, cells'[s].checksum, cells'[s].commit}
    BY <1>1, <1>2, ValidIsWhole
  <1>4. /\ cells'[s].header = cells[s].header /\ cells'[s].payload = cells[s].payload
        /\ cells'[s].checksum = cells[s].checksum /\ cells'[s].commit = cells[s].commit
    BY <1>3 DEF Fields
  <1> QED
    BY <1>2, <1>4 DEF Decodes

\* A power failure leaves in the writer's slot an invalid record, or the one
\* that was there before.
LEMMA PowerFailsKeeps ==
    ASSUME RecordInv, PowerFails
    PROVE  RecordInv'
  <1>1. writer # None /\ writer' = None /\ UNCHANGED <<corruptions, committed>>
    BY DEF PowerFails
  <1> SUFFICES ASSUME corruptions = 0 PROVE Shape' /\ Idle'
    BY <1>1 DEF RecordInv
  <1>2. Shape /\ Idle /\ Busy
    BY <1>1 DEF RecordInv
  <1>w. PICK w \in Slots : w = writer.slot
    BY <1>2 DEF Busy
  <1>3. 3 - w \in Slots /\ 3 - w # w /\ 3 - (3 - w) = w
    BY OtherSlot
  <1>4. PICK hit \in SUBSET Fields :
            cells' = [cells EXCEPT ![w] =
                IF writer.step = "done" THEN @
                ELSE [f \in Fields |-> IF f \in hit /\ Rewritten[f] # @[f] THEN Garbage ELSE @[f]]]
    BY <1>w DEF PowerFails
  <1>5. /\ cells'[3 - w] = cells[3 - w] /\ DOMAIN cells' = Slots
        /\ writer.step = "done" => cells'[w] = cells[w]
        /\ writer.step # "done" =>
              cells'[w] = [f \in Fields |-> IF f \in hit /\ Rewritten[f] # cells[w][f]
                                           THEN Garbage ELSE cells[w][f]]
    BY <1>2, <1>3, <1>4 DEF Shape
  <1>6. /\ DOMAIN cells'[w] = Fields
        /\ \A f \in Fields : cells'[w][f] \in {cells[w][f], Garbage}
    <2>1. CASE writer.step = "done"
      BY <1>2, <1>5, <2>1 DEF Shape
    <2>2. CASE writer.step # "done"
      BY <1>5, <2>2
    <2> QED
      BY <2>1, <2>2
  <1>7. /\ cells'[w].header \in {cells[w].header, Garbage}
        /\ cells'[w].payload \in {cells[w].payload, Garbage}
        /\ cells'[w].checksum \in {cells[w].checksum, Garbage}
        /\ cells'[w].commit \in {cells[w].commit, Garbage}
    BY <1>6 DEF Fields
  <1>8. UNCHANGED <<HeaderCells, PayloadCells, ChecksumCells>>
    BY DEF HeaderCells, PayloadCells, ChecksumCells, Generation, Generations
  <1>9. Shape'
    <2>1. \A s \in Slots : s = w \/ s = 3 - w
      BY <1>3 DEF Slots
    <2>2. /\ cells'[w].header \in HeaderCells /\ cells'[w].payload \in PayloadCells
          /\ cells'[w].checksum \in ChecksumCells
      BY <1>2, <1>7 DEF Shape, HeaderCells, PayloadCells, ChecksumCells
    <2>3. /\ DOMAIN cells'[3 - w] = Fields /\ cells'[3 - w].header \in HeaderCells
          /\ cells'[3 - w].payload \in PayloadCells /\ cells'[3 - w].checksum \in ChecksumCells
      BY <1>2, <1>3, <1>5 DEF Shape
    <2> QED
      BY <1>5, <1>6, <1>8, <2>1, <2>2, <2>3 DEF Shape
  <1>10. ASSUME Decodes(cells[w])'
         PROVE  /\ cells'[w].header = cells[w].header /\ cells'[w].payload = cells[w].payload
                /\ cells'[w].commit = cells[w].commit
                /\ Decodes(cells[w])
    BY <1>2, <1>6, <1>9, <1>10, SpoiltIsInvalid
  <1>11. CASE writer.step = "done"
    <2>1. \A s \in Slots : cells'[s] = cells[s]
      BY <1>5, <1>11, <1>3 DEF Slots
    <2> QED
      BY <1>1, <1>2, <1>3, <1>9, <2>1
      DEF Idle, Kept, Behind, Good, Decodes, Slots, Generation, Generations, Successor
  <1>12. CASE writer.step # "done"
    <2>1. Unfinished
      BY <1>2, <1>12 DEF Busy
    <2>2. Kept(w) /\ (writer.step = "erase" => Behind(w))
          /\ (writer.step # "erase" => cells[w].commit # COMMIT_WORD)
      BY <1>w, <2>1 DEF Unfinished
    <2>3. Kept(w)' /\ (Good(3 - w) => Good(3 - w)')
      BY <1>1, <1>5, <2>2 DEF Kept, Good, Decodes, Generation, Generations
    <2>4. Behind(w)'
      <3> SUFFICES ASSUME Decodes(cells[w])' PROVE Behind(w)'
        BY DEF Behind
      <3>1. Decodes(cells[w]) /\ cells'[w].header = cells[w].header
        BY <1>10
      <3>2. Behind(w)
        BY <2>2, <3>1 DEF Decodes
      <3> QED
        BY <1>5, <2>3, <3>1, <3>2 DEF Behind, Generation, Generations, Successor
    <2> QED
      BY <1>9, <2>3, <2>4 DEF Idle
  <1> QED
    BY <1>11, <1>12

\* The invariant holds in every reachable state.
THEOREM RecordInductive == RecordSpec => []RecordInv
  <1>1. RecordInv /\ [RecordNext]_recordVars => RecordInv'
    <2> SUFFICES ASSUME RecordInv, [RecordNext]_recordVars PROVE RecordInv'
      OBVIOUS
    <2>1. ASSUME NEW p \in Payloads, Begin(p) PROVE RecordInv'
      BY <2>1, BeginKeeps
    <2>2. CASE Step
      BY <2>2, StepKeeps
    <2>3. CASE Finish
      BY <2>3, FinishKeeps
    <2>4. CASE PowerFails
      BY <2>4, PowerFailsKeeps
    <2>5. ASSUME NEW s \in Slots, NEW f \in Fields, Corrupt(s, f) PROVE RecordInv'
      <3>1. corruptions \in Nat /\ corruptions' = corruptions + 1
        BY <2>5 DEF Corrupt, RecordInv
      <3>2. corruptions' \in Nat /\ corruptions' # 0
        BY <3>1
      <3> QED
        BY <3>2 DEF RecordInv
    <2>6. CASE UNCHANGED recordVars
      <3>1. UNCHANGED <<cells, writer, corruptions, committed>>
        BY <2>6 DEF recordVars
      <3> QED
        BY <3>1 DEF RecordInv, Shape, Idle, Busy, Encoded, Unfinished, Kept, Behind, Good, Decodes,
                    Slots, Fields, Generation, Generations, HeaderCells, PayloadCells,
                ChecksumCells, Successor
    <2> QED
      BY <2>1, <2>2, <2>3, <2>4, <2>5, <2>6 DEF RecordNext
  <1> QED
    BY RecordStarts, <1>1, PTL DEF RecordSpec

\* A boot takes the last committed record.
LEMMA CurrentIsCommitted == RecordInv /\ corruptions = 0 => Current = committed.last
  <1> SUFFICES ASSUME RecordInv, corruptions = 0 PROVE Current = committed.last
    OBVIOUS
  <1>1. PICK w \in Slots : Kept(w) /\ Behind(w)
    BY DEF RecordInv, Idle
  <1> QED
    BY <1>1, FreeSlotIsNotTheNewest

\* A boot at any moment runs with the last committed configuration, as long as
\* no cell fails on its own: neither a power failure at any point of a write nor
\* the wrap of the generation makes it lose or resurrect one.
THEOREM LastCommittedSurvives == RecordSpec => []BootsWithLastCommitted
  <1>1. RecordInv => BootsWithLastCommitted
    BY CurrentIsCommitted DEF BootsWithLastCommitted
  <1> QED
    BY RecordInductive, <1>1, PTL

-----------------------------------------------------------------------------
\* What holds although cells fail on their own: a record that decode accepts is
\* one that was committed, since until the commit word is programmed the slot
\* being written is invalid, and a spoilt cell never makes a record valid.

Genuine(s) == Decodes(cells[s]) => cells[s].payload \in committed.all

Filling ==
    /\ writer.slot \in Slots
    /\ writer.step \in {"erase", "header", "payload", "checksum", "commit", "done"}
    /\ Encoded
    /\ writer.record = encode(writer.record.header, writer.record.payload)
    /\ writer.step \notin {"erase", "done"} => cells[writer.slot].commit # COMMIT_WORD
    /\ writer.step \in {"checksum", "commit"} =>
          cells[writer.slot].payload = writer.record.payload
    /\ writer.step = "done" => committed.last = writer.record.payload

CellsInv ==
    /\ Shape
    /\ \A s \in Slots : Genuine(s)
    /\ writer # None => Filling

\* A write is not the absence of one.
LEMMA WriteIsNotNone ==
    ASSUME NEW w \in Slots, NEW g \in Generation, NEW p \in Payloads,
           NEW step \in {"erase", "header", "payload", "checksum", "commit", "done"}
    PROVE  [slot |-> w, step |-> step, record |-> encode(g, p)] # None
  <1>1. g \in Nat
    BY RecordAssumption DEF Generation, Generations
  <1>2. PICK r : r = encode(g, p)
    OBVIOUS
  <1>3. r \in [header : Nat, payload : Payloads, checksum : Nat \X Payloads,
               commit : {COMMIT_WORD}]
    BY <1>1, <1>2 DEF encode
  <1>4. PICK s : s = step
    OBVIOUS
  <1>5. s \in {"erase", "header", "payload", "checksum", "commit", "done"} /\ w \in {1, 2}
    BY <1>4 DEF Slots
  <1>6. [slot |-> w, step |-> s, record |-> r]
           \in [slot : {1, 2},
                step : {"erase", "header", "payload", "checksum", "commit", "done"},
                record : [header : Nat, payload : Payloads,
                          checksum : Nat \X Payloads, commit : {COMMIT_WORD}]]
    BY <1>3, <1>5
  <1> QED
    BY <1>2, <1>4, <1>6, RecordAssumption

\* A slot of which some cells fail keeps its shape.
LEMMA SpoiltKeepsShape ==
    ASSUME Shape, DOMAIN cells' = Slots,
           \A s \in Slots : /\ DOMAIN cells'[s] = Fields
                            /\ \A f \in Fields : cells'[s][f] \in {cells[s][f], Garbage}
    PROVE  Shape'
  <1>1. UNCHANGED <<HeaderCells, PayloadCells, ChecksumCells>>
    BY DEF HeaderCells, PayloadCells, ChecksumCells, Generation, Generations
  <1>2. \A s \in Slots : /\ cells'[s].header \in HeaderCells
                         /\ cells'[s].payload \in PayloadCells
                         /\ cells'[s].checksum \in ChecksumCells
    BY DEF Shape, Fields, HeaderCells, PayloadCells, ChecksumCells
  <1> QED
    BY <1>1, <1>2 DEF Shape

LEMMA CellsInit == RecordInit => CellsInv
  <1> SUFFICES ASSUME RecordInit PROVE CellsInv
    OBVIOUS
  <1>1. writer = None /\ cells = [s \in Slots |-> Blank]
    BY DEF RecordInit
  <1>2. Shape
    BY <1>1 DEF Shape, Blank, Fields, HeaderCells, PayloadCells, ChecksumCells
  <1>3. \A s \in Slots : cells[s].commit # COMMIT_WORD
    BY <1>1, RecordAssumption DEF Blank, Fields
  <1> QED
    BY <1>1, <1>2, <1>3 DEF CellsInv, Genuine, Decodes

\* The next generation is one, whatever is in flash.
LEMMA NextGenerationIsOne == CellsInv => NextGeneration \in Generation
  <1> SUFFICES ASSUME CellsInv PROVE NextGeneration \in Generation
    OBVIOUS
  <1>1. CASE Newest = 0
    BY <1>1, RecordAssumption DEF NextGeneration, Generation, Generations
  <1>2. CASE Newest # 0
    <2>1. Newest \in Slots /\ Decodes(cells[Newest])
      BY <1>2 DEF Newest, select_newest, Slots
    <2>2. cells[Newest].header \in Generation
      BY <2>1, ValidIsWhole DEF CellsInv, Shape
    <2> QED
      BY <1>2, <2>2, SuccessorIsNewer DEF NextGeneration
  <1> QED
    BY <1>1, <1>2

\* A write starts with a whole record, in one of the slots.
LEMMA CellsBegin ==
    ASSUME CellsInv, NEW p \in Payloads, Begin(p)
    PROVE  CellsInv'
  <1>1. /\ writer' = [slot |-> TargetSlot, step |-> "erase",
                      record |-> encode(NextGeneration, p)]
        /\ UNCHANGED <<cells, committed>>
    BY DEF Begin
  <1>2. NextGeneration \in Generation
    BY NextGenerationIsOne
  <1>3. Encoded'
    BY <1>1, <1>2 DEF Encoded, encode, Generation, Generations
  <1>4. Filling'
    BY <1>1, <1>3 DEF Filling, TargetSlot, Slots, encode
  <1>5. Shape' /\ \A s \in Slots : Genuine(s)'
    BY <1>1 DEF CellsInv, Shape, HeaderCells, PayloadCells, ChecksumCells, Generation,
                Generations, Genuine, Decodes
  <1> QED
    BY <1>4, <1>5 DEF CellsInv

\* Until the commit word is programmed the slot is invalid; then its payload is
\* the one committed.
LEMMA CellsStep ==
    ASSUME CellsInv, Step
    PROVE  CellsInv'
  <1>1. /\ writer # None /\ writer.step # "done"
        /\ writer' = [slot |-> writer.slot, step |-> After[writer.step],
                      record |-> writer.record]
        /\ committed' = IF writer.step = "commit"
                        THEN [last |-> writer.record.payload,
                              all |-> committed.all \cup {writer.record.payload}]
                        ELSE committed
    BY DEF Step
  <1>2. Shape /\ Filling /\ Encoded
    BY <1>1 DEF CellsInv, Filling
  <1>w. PICK w \in Slots : w = writer.slot
    BY <1>2 DEF Filling
  <1>r. PICK r : r = writer.record
    OBVIOUS
  <1>3. /\ Shape' /\ cells'[w] = Rewritten
        /\ \A s \in Slots : s # w => cells'[s] = cells[s]
    BY <1>2, <1>w, StepWrites
  <1>4. writer'.slot = w /\ writer'.record = r /\ writer'.step = After[writer.step]
    BY <1>1, <1>w, <1>r
  <1>5. writer.step \in {"erase", "header", "payload", "checksum", "commit"}
    BY <1>1, <1>2 DEF Filling
  <1>6. Encoded' /\ r = encode(r.header, r.payload)
    BY <1>2, <1>4, <1>r DEF Encoded, Filling, Generation, Generations
  <1>7. \A s \in Slots : s # w => Genuine(s)'
    BY <1>1, <1>3 DEF CellsInv, Genuine, Decodes
  <1>8. /\ writer.step = "erase" => Rewritten = Blank
        /\ writer.step # "erase" => Rewritten = [cells[w] EXCEPT ![writer.step] = r[writer.step]]
        /\ DOMAIN cells[w] = Fields
    BY <1>2, <1>w, <1>r DEF Rewritten, Shape
  <1>9. CASE writer.step # "commit"
    <2>1. cells'[w].commit # COMMIT_WORD
      <3>1. CASE writer.step = "erase"
        BY <1>3, <1>8, <3>1, RecordAssumption DEF Blank, Fields
      <3>2. CASE writer.step # "erase"
        <4>1. cells'[w].commit = cells[w].commit
          BY <1>3, <1>8, <1>9, <3>2 DEF Fields
        <4> QED
          BY <1>1, <1>2, <1>w, <3>2, <4>1 DEF Filling
      <3> QED
        BY <3>1, <3>2
    <2>2. \A s \in Slots : Genuine(s)'
      BY <1>7, <2>1 DEF Genuine, Decodes
    <2>3. writer'.step \in {"checksum", "commit"} => cells'[w].payload = r.payload
      <3>1. writer.step = "payload" => cells'[w].payload = r.payload
        BY <1>3, <1>8 DEF Fields
      <3>2. writer.step = "checksum" => cells'[w].payload = cells[w].payload
        BY <1>3, <1>8 DEF Fields
      <3>3. writer.step = "checksum" => cells[w].payload = r.payload
        BY <1>2, <1>w, <1>r DEF Filling
      <3> QED
        BY <1>4, <1>5, <1>9, <3>1, <3>2, <3>3 DEF After
    <2>4. writer'.step \in {"header", "payload", "checksum", "commit"}
      BY <1>4, <1>5, <1>9 DEF After
    <2>5. Filling'
      BY <1>4, <1>6, <2>1, <2>3, <2>4 DEF Filling, encode
    <2> QED
      BY <1>3, <2>2, <2>5 DEF CellsInv
  <1>10. CASE writer.step = "commit"
    <2>1. committed'.last = r.payload /\ r.payload \in committed'.all
      BY <1>1, <1>10, <1>r
    <2>2. cells'[w].payload = r.payload
      <3>1. cells'[w].payload = cells[w].payload
        BY <1>3, <1>8, <1>10 DEF Fields
      <3> QED
        BY <1>2, <1>10, <1>w, <1>r, <3>1 DEF Filling
    <2>3. \A s \in Slots : Genuine(s)'
      BY <1>7, <2>1, <2>2 DEF Genuine
    <2>4. Filling'
      BY <1>4, <1>6, <1>10, <2>1 DEF Filling, After, encode
    <2> QED
      BY <1>3, <2>3, <2>4 DEF CellsInv
  <1> QED
    BY <1>9, <1>10

\* A power failure, or a cell that fails on its own, makes no record valid.
LEMMA CellsSpoilt ==
    ASSUME CellsInv, writer' = None, committed' = committed,
           DOMAIN cells' = Slots,
           \A s \in Slots : /\ DOMAIN cells'[s] = Fields
                            /\ \A f \in Fields : cells'[s][f] \in {cells[s][f], Garbage}
    PROVE  CellsInv'
  <1>1. Shape /\ Shape'
    BY SpoiltKeepsShape DEF CellsInv
  <1>2. ASSUME NEW s \in Slots PROVE Genuine(s)'
    <2> SUFFICES ASSUME Decodes(cells[s])' PROVE cells'[s].payload \in committed'.all
      BY DEF Genuine
    <2>1. Decodes(cells[s]) /\ cells'[s].payload = cells[s].payload
      BY <1>1, SpoiltIsInvalid
    <2> QED
      BY <2>1 DEF CellsInv, Genuine
  <1> QED
    BY <1>1, <1>2 DEF CellsInv

LEMMA CellsPowerFails ==
    ASSUME CellsInv, PowerFails
    PROVE  CellsInv'
  <1>1. writer # None /\ writer' = None /\ committed' = committed
    BY DEF PowerFails
  <1>w. PICK w \in Slots : w = writer.slot
    BY <1>1 DEF CellsInv, Filling
  <1>2. PICK hit \in SUBSET Fields :
            cells' = [cells EXCEPT ![w] =
                IF writer.step = "done" THEN @
                ELSE [f \in Fields |-> IF f \in hit /\ Rewritten[f] # @[f] THEN Garbage ELSE @[f]]]
    BY <1>w DEF PowerFails
  <1>3. /\ DOMAIN cells' = Slots
        /\ \A s \in Slots : s # w => cells'[s] = cells[s]
        /\ writer.step = "done" => cells'[w] = cells[w]
        /\ writer.step # "done" =>
              cells'[w] = [f \in Fields |-> IF f \in hit /\ Rewritten[f] # cells[w][f]
                                           THEN Garbage ELSE cells[w][f]]
    BY <1>2 DEF CellsInv, Shape
  <1>4. \A s \in Slots : DOMAIN cells[s] = Fields
    BY DEF CellsInv, Shape
  <1>5. DOMAIN cells'[w] = Fields /\ \A f \in Fields : cells'[w][f] \in {cells[w][f], Garbage}
    <2>1. CASE writer.step = "done"
      BY <1>3, <1>4, <2>1
    <2>2. CASE writer.step # "done"
      BY <1>3, <2>2
    <2> QED
      BY <2>1, <2>2
  <1>6. \A s \in Slots : /\ DOMAIN cells'[s] = Fields
                         /\ \A f \in Fields : cells'[s][f] \in {cells[s][f], Garbage}
    BY <1>3, <1>4, <1>5
  <1> QED
    BY <1>1, <1>3, <1>6, CellsSpoilt

LEMMA CellsCorrupt ==
    ASSUME CellsInv, NEW s \in Slots, NEW f \in Fields, Corrupt(s, f)
    PROVE  CellsInv'
  <1>1. /\ writer' = None /\ committed' = committed
        /\ cells' = [cells EXCEPT ![s][f] = Garbage]
    BY DEF Corrupt
  <1>2. DOMAIN cells = Slots /\ \A t \in Slots : DOMAIN cells[t] = Fields
    BY DEF CellsInv, Shape
  <1>3. /\ DOMAIN cells' = Slots
        /\ \A t \in Slots : /\ DOMAIN cells'[t] = Fields
                             /\ \A g \in Fields : cells'[t][g] \in {cells[t][g], Garbage}
    BY <1>1, <1>2
  <1> QED
    BY <1>1, <1>3, CellsSpoilt

LEMMA CellsInductive == CellsInv /\ [RecordNext]_recordVars => CellsInv'
  <1> SUFFICES ASSUME CellsInv, [RecordNext]_recordVars PROVE CellsInv'
    OBVIOUS
  <1>1. CASE UNCHANGED <<cells, committed>> /\ (writer' = None \/ UNCHANGED writer)
    BY <1>1 DEF CellsInv, Shape, Genuine, Filling, Encoded, Decodes, Slots, Fields, HeaderCells,
                PayloadCells, ChecksumCells, Generation, Generations
  <1>2. CASE Finish
    BY <1>1, <1>2 DEF Finish
  <1>3. CASE UNCHANGED recordVars
    BY <1>1, <1>3 DEF recordVars
  <1> QED
    BY <1>2, <1>3, CellsBegin, CellsStep, CellsPowerFails, CellsCorrupt DEF RecordNext

LEMMA CellsAlways == RecordSpec => []CellsInv
  BY CellsInit, CellsInductive, PTL DEF RecordSpec

\* Cells that fail may cost a configuration; a boot never runs with one that
\* was not committed.
THEOREM OnlyCommittedBoots == RecordSpec => []BootsWithACommitted
  <1>1. CellsInv => BootsWithACommitted
    <2> SUFFICES ASSUME CellsInv, Newest # 0 PROVE cells[Newest].payload \in committed.all
      BY DEF BootsWithACommitted, Current
    <2>1. Newest \in Slots /\ Decodes(cells[Newest])
      BY DEF Newest, select_newest, Slots
    <2> QED
      BY <2>1 DEF CellsInv, Genuine
  <1> QED
    BY <1>1, CellsAlways, PTL

-----------------------------------------------------------------------------
\* The refinement: while no cell fails, Begin and Finish are Begin and Return of
\* the one atomic record, programming the commit word is TakeEffect, and every
\* other step of a write changes nothing a boot can see.

LEMMA StepRefines ==
    ASSUME RecordInv, RecordInv', CellsInv, [RecordNext]_recordVars, corruptions' = 0
    PROVE  Atomic!Next \/ UNCHANGED <<Current, writing, acknowledged>>
  <1>1. corruptions = 0
    <2>1. corruptions \in Nat
      BY DEF RecordInv
    <2>2. \A s \in Slots, f \in Fields : ~ Corrupt(s, f)
      BY <2>1 DEF Corrupt
    <2>3. corruptions' = corruptions
      BY <2>2 DEF RecordNext, Begin, Step, Finish, PowerFails, recordVars
    <2> QED
      BY <2>3
  <1>2. Current = committed.last /\ Current' = committed'.last
    <2>1. Current = committed.last
      BY <1>1, CurrentIsCommitted
    <2>2. (RecordInv /\ corruptions = 0 => Current = committed.last)'
      BY CurrentIsCommitted, PTL
    <2> QED
      BY <2>1, <2>2
  <1>3. writer # None => writing = writer.record.payload /\ writing # None
    BY RecordAssumption DEF writing, CellsInv, Filling, Encoded
  <1>4. ASSUME NEW p \in Payloads, Begin(p) PROVE Atomic!Begin(p)
    <2>1. writer = None /\ UNCHANGED <<committed, acknowledged>>
      BY <1>4 DEF Begin
    <2>2. writer' = [slot |-> TargetSlot, step |-> "erase",
                     record |-> encode(NextGeneration, p)]
      BY <1>4 DEF Begin
    <2>3. NextGeneration \in Generation /\ TargetSlot \in Slots
      BY NextGenerationIsOne DEF TargetSlot, Slots
    <2>4. writer' # None
      BY <2>2, <2>3, WriteIsNotNone
    <2>5. writing' = p
      BY <2>2, <2>4 DEF writing, encode
    <2>6. writing = None
      BY <2>1 DEF writing
    <2> QED
      BY <1>2, <2>1, <2>5, <2>6 DEF Atomic!Begin
  <1>5. CASE Step
    <2>1. UNCHANGED <<writing, acknowledged>>
      <3>1. /\ writer # None /\ writer.step # "done" /\ acknowledged' = acknowledged
            /\ writer' = [slot |-> writer.slot, step |-> After[writer.step],
                          record |-> writer.record]
        BY <1>5 DEF Step
      <3>2. After[writer.step] \in {"header", "payload", "checksum", "commit", "done"}
        BY <3>1 DEF CellsInv, Filling, After
      <3>3. /\ writer.record = encode(writer.record.header, writer.record.payload)
            /\ writer.record.header \in Generation /\ writer.record.payload \in Payloads
            /\ writer.slot \in Slots
        BY <3>1 DEF CellsInv, Filling, Encoded
      <3>4. writer' # None
        BY <3>1, <3>2, <3>3, WriteIsNotNone
      <3> QED
        BY <3>1, <3>4 DEF writing
    <2>2. CASE writer.step = "commit"
      BY <1>2, <1>3, <1>5, <2>1, <2>2 DEF Step, Atomic!TakeEffect, Atomic!Next
    <2>3. CASE writer.step # "commit"
      BY <1>2, <1>5, <2>1, <2>3 DEF Step
    <2> QED
      BY <2>2, <2>3
  <1>6. CASE Finish
    <2>1. /\ writer # None /\ writer.step = "done" /\ writer' = None
          /\ acknowledged' = writer.record.payload /\ committed' = committed
      BY <1>6 DEF Finish
    <2>2. committed.last = writer.record.payload
      BY <2>1 DEF CellsInv, Filling
    <2> QED
      BY <1>2, <1>3, <2>1, <2>2 DEF Atomic!Return, Atomic!Next, writing
  <1>7. CASE PowerFails
    <2>1. writer # None /\ writer' = None /\ UNCHANGED <<committed, acknowledged>>
      BY <1>7 DEF PowerFails
    <2> QED
      BY <1>2, <1>3, <2>1 DEF Atomic!PowerFails, Atomic!Next, writing
  <1>8. CASE UNCHANGED recordVars
    <2>1. UNCHANGED <<writer, committed, acknowledged>>
      BY <1>8 DEF recordVars
    <2> QED
      BY <1>2, <2>1 DEF writing
  <1>9. \A s \in Slots, f \in Fields : ~ Corrupt(s, f)
    BY <1>1 DEF Corrupt
  <1> QED
    BY <1>4, <1>5, <1>6, <1>7, <1>8, <1>9 DEF RecordNext, Atomic!Next

\* Two slots, four cells each and any number of power failures implement one
\* record that is written at once or not at all.
THEOREM Refinement == RecordSpec => ImplementsAtomicRecord
  <1>1. RecordInit => Atomic!Init
    <2> SUFFICES ASSUME RecordInit PROVE Atomic!Init
      OBVIOUS
    <2>1. writer = None /\ acknowledged = None /\ corruptions = 0 /\ committed.last = None
      BY DEF RecordInit
    <2>2. Current = None
      BY <2>1, RecordStarts, CurrentIsCommitted
    <2> QED
      BY <2>1, <2>2 DEF Atomic!Init, writing
  <1>2. RecordInv /\ RecordInv' /\ CellsInv /\ [RecordNext]_recordVars
           => [corruptions' = 0 => Atomic!Next]_<<Current, writing, acknowledged>>
    BY StepRefines
  <1> QED
    BY <1>1, <1>2, RecordInductive, CellsAlways, PTL DEF RecordSpec, ImplementsAtomicRecord
=============================================================================
