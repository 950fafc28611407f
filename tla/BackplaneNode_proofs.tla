------------------------- MODULE BackplaneNode_proofs -------------------------
(***************************************************************************)
(* The safety of BackplaneNode for every set of fans and of duties, with   *)
(* emergencies, failing writes and power loss between any two steps.       *)
(*                                                                         *)
(* The argument: fan_settings_persisted reads the settings of the moment   *)
(* it is called in, so that what matters of a pending write is only which  *)
(* fans it is called for.  For each of those the settings in memory are    *)
(* safe or were asked for since the last emergency (Asked); an emergency   *)
(* makes them safe again, and a restart leaves no write pending.           *)
(***************************************************************************)
EXTENDS BackplaneNode, TLAPS

USE BackplaneAssumption

Accepted == {f \in [FanIds -> Duties] : \A i \in FanIds : ValidDuty(f[i])}

Sound == [fans : Accepted, emergency_latched : BOOLEAN]

Writes == [settings : Sound, then : SUBSET FanIds, emergency : BOOLEAN]

Types ==
    /\ fans \in Accepted /\ emergency_latched \in BOOLEAN
    /\ flash \in Sound
    /\ duty \in [FanIds -> Duties]
    /\ writes \in Seq(Writes)
    /\ drive \subseteq [fan : FanIds, duty : Duties]
    /\ asked \in [FanIds -> SUBSET Duties]

Allowed(f, d) == d = SAFE_DEFAULT \/ d \in asked[f]

\* What runs, is about to be driven, or will be when a write is in flash.
Asked ==
    /\ \A f \in FanIds : Allowed(f, duty[f])
    /\ \A a \in drive : Allowed(a.fan, a.duty)
    /\ \A i \in 1..Len(writes) : \A f \in writes[i].then : Allowed(f, fans[f])

NodeInv == Types /\ Asked /\ BackplaneFlashFollows

-----------------------------------------------------------------------------
\* The safe duty is accepted.
LEMMA SafeIsAccepted == AllFansSafe \in Accepted
  BY DEF Accepted, AllFansSafe, ValidDuty

LEMMA NowIsSound == Types => Now \in Sound
  BY DEF Types, Now, Settings, Sound

LEMMA NoWrites == << >> \in Seq(Writes) /\ Len(<< >>) = 0
  OBVIOUS

\* What a queue is after a write was put behind it, or its first was taken.
LEMMA Appended ==
    ASSUME NEW q \in Seq(Writes), NEW w \in Writes
    PROVE  /\ Append(q, w) \in Seq(Writes)
           /\ Len(q) \in Nat /\ Len(Append(q, w)) = Len(q) + 1
           /\ \A i \in 1..Len(q) : Append(q, w)[i] = q[i]
           /\ Append(q, w)[Len(q) + 1] = w
           /\ Append(q, w) # <<>>
<1>1. /\ Append(q, w) \in Seq(Writes)
      /\ Len(q) \in Nat /\ Len(Append(q, w)) = Len(q) + 1
  OBVIOUS
<1>2. /\ \A i \in 1..Len(q) : Append(q, w)[i] = q[i]
      /\ Append(q, w)[Len(q) + 1] = w
  OBVIOUS
<1>3. Len(Append(q, w)) # 0
  BY <1>1
<1>4. Append(q, w) # <<>>
  BY <1>3, NoWrites, Zenon
<1> QED
  BY <1>1, <1>2, <1>4

LEMMA Popped ==
    ASSUME NEW q \in Seq(Writes), q # <<>>
    PROVE  /\ Len(q) \in Nat /\ Len(q) > 0
           /\ Head(q) = q[1] /\ Head(q) \in Writes
           /\ Tail(q) \in Seq(Writes)
           /\ Len(Tail(q)) = Len(q) - 1
           /\ \A i \in 1..Len(Tail(q)) : Tail(q)[i] = q[i + 1]
  OBVIOUS

\* Settings put behind the queue that are those of memory, for fans whose
\* settings are allowed.
LEMMA QueuedNow ==
    ASSUME NodeInv, NEW w \in Writes, writes' = Append(writes, w), w.settings = Now',
           \A f \in w.then : Allowed(f, fans[f])',
           \A i \in 1..Len(writes) : \A f \in writes[i].then : Allowed(f, fans[f])'
    PROVE  /\ writes' \in Seq(Writes)
           /\ BackplaneFlashFollows'
           /\ (\A i \in 1..Len(writes) : \A f \in writes[i].then : Allowed(f, fans[f]))'
<1>1. /\ writes' \in Seq(Writes) /\ writes' # <<>>
      /\ Len(writes) \in Nat /\ Len(writes') = Len(writes) + 1
      /\ \A i \in 1..Len(writes) : writes'[i] = writes[i]
      /\ writes'[Len(writes) + 1] = w
  BY Appended DEF NodeInv, Types
<1>2. BackplaneFlashFollows'
  BY <1>1 DEF BackplaneFlashFollows
<1>3. ASSUME NEW i \in 1..Len(writes'), NEW f \in writes'[i].then
      PROVE  Allowed(f, fans[f])'
  <2>1. i = Len(writes) + 1 \/ i \in 1..Len(writes)
    BY <1>1
  <2> QED
    BY <1>1, <1>3, <2>1
<1> QED
  BY <1>1, <1>2, <1>3

\* The last write of the queue is still its last when the first is taken, and
\* those that are left were there before.
LEMMA TailStays ==
    ASSUME NodeInv, writes # <<>>, writes' = Tail(writes), Now' = Now
    PROVE  /\ writes' \in Seq(Writes)
           /\ writes' # <<>> => writes'[Len(writes')].settings = Now'
           /\ \A i \in 1..Len(writes') : \E j \in 1..Len(writes) : writes'[i] = writes[j]
<1>0. writes \in Seq(Writes)
  BY DEF NodeInv, Types
<1>1. /\ Len(writes) \in Nat /\ Len(writes) > 0
      /\ writes' \in Seq(Writes) /\ Len(writes') = Len(writes) - 1
      /\ \A i \in 1..Len(writes') : writes'[i] = writes[i + 1]
  BY <1>0, Popped
<1>2. ASSUME writes' # <<>>
      PROVE  writes'[Len(writes')].settings = Now'
  <2>1. Len(writes') > 0
    BY <1>1, <1>2
  <2>2. writes'[Len(writes')] = writes[Len(writes)]
    BY <1>1, <2>1
  <2> QED
    BY <2>2 DEF NodeInv, BackplaneFlashFollows
<1>3. ASSUME NEW i \in 1..Len(writes')
      PROVE  \E j \in 1..Len(writes) : writes'[i] = writes[j]
  <2>1. i + 1 \in 1..Len(writes)
    BY <1>1
  <2> QED
    BY <1>1, <2>1
<1> QED
  BY <1>1, <1>2, <1>3

LEMMA InitKeeps == Init => NodeInv
<1> SUFFICES ASSUME Init PROVE NodeInv
  OBVIOUS
<1>1. /\ fans = AllFansSafe /\ duty = AllFansSafe /\ emergency_latched = FALSE
      /\ flash = Settings(AllFansSafe, FALSE) /\ writes = <<>> /\ drive = {}
      /\ asked = NothingAsked
  BY DEF Init, New, Settings
<1>2. Types
  BY <1>1, SafeIsAccepted, NoWrites DEF Types, NothingAsked, Sound, Settings, Accepted
<1>3. Asked
  BY <1>1, NoWrites DEF Asked, Allowed, AllFansSafe
<1>4. BackplaneFlashFollows
  BY <1>1 DEF BackplaneFlashFollows, Now
<1> QED
  BY <1>2, <1>3, <1>4 DEF NodeInv

-----------------------------------------------------------------------------
\* One lemma per action.

LEMMA SetFanKeeps ==
    ASSUME NodeInv, NEW fan \in FanIds, NEW d \in Duties, SetFan(fan, d)
    PROVE  NodeInv'
<1> DEFINE w == Write(Now', {fan})
<1>1. /\ fans' = [fans EXCEPT ![fan] = d] /\ ValidDuty(d)
      /\ asked' = [asked EXCEPT ![fan] = @ \cup {d}]
      /\ UNCHANGED <<emergency_latched, duty, flash, drive>>
      /\ writes' = Append(writes, w)
  BY DEF SetFan, Acceptable, Now
<1>2. fans' \in Accepted /\ asked' \in [FanIds -> SUBSET Duties]
  BY <1>1 DEF NodeInv, Types, Accepted
<1>3. Now' \in Sound
  BY <1>1, <1>2 DEF NodeInv, Types, Now, Settings, Sound
<1>4. w \in Writes /\ w.settings = Now' /\ w.then = {fan}
  BY <1>3 DEF Write, Writes
<1> HIDE DEF w
<1>5. Allowed(fan, fans[fan])'
  BY <1>1 DEF Allowed, NodeInv, Types, Accepted
<1>6. ASSUME NEW f \in FanIds, NEW e, Allowed(f, e)
      PROVE  e = SAFE_DEFAULT \/ e \in asked'[f]
  BY <1>1, <1>6 DEF Allowed, NodeInv, Types
<1>7. ASSUME NEW f \in FanIds, Allowed(f, fans[f])
      PROVE  Allowed(f, fans[f])'
  <2>1. CASE f = fan
    BY <1>5, <2>1
  <2>2. CASE f # fan
    <3>1. fans'[f] = fans[f]
      BY <1>1, <2>2 DEF NodeInv, Types, Accepted
    <3> QED
      BY <1>6, <1>7, <3>1 DEF Allowed
  <2> QED
    BY <2>1, <2>2
<1>8. ASSUME NEW i \in 1..Len(writes), NEW f \in writes[i].then
      PROVE  Allowed(f, fans[f])'
  <2>1. writes[i] \in Writes
    BY DEF NodeInv, Types
  <2>2. f \in FanIds
    BY <2>1, <1>8 DEF Writes
  <2> QED
    BY <1>7, <1>8, <2>2 DEF NodeInv, Asked
<1>9. /\ writes' \in Seq(Writes) /\ BackplaneFlashFollows'
      /\ (\A i \in 1..Len(writes) : \A f \in writes[i].then : Allowed(f, fans[f]))'
  BY <1>1, <1>4, <1>5, <1>8, QueuedNow
<1>10. Types'
  BY <1>1, <1>2, <1>9 DEF NodeInv, Types
<1>11. (\A f \in FanIds : Allowed(f, duty[f]))'
  BY <1>1, <1>6 DEF NodeInv, Asked, Allowed
<1>12. (\A a \in drive : Allowed(a.fan, a.duty))'
  BY <1>1, <1>6 DEF NodeInv, Asked, Types, Allowed
<1> QED
  BY <1>9, <1>10, <1>11, <1>12 DEF NodeInv, Asked

LEMMA AcknowledgeKeeps ==
    ASSUME NodeInv, AcknowledgeEmergency
    PROVE  NodeInv'
<1> DEFINE w == Write(Now', {})
<1>1. /\ emergency_latched' = FALSE
      /\ UNCHANGED <<fans, duty, flash, drive, asked>>
      /\ writes' = Append(writes, w)
  BY DEF AcknowledgeEmergency, Now
<1>2. Now' \in Sound
  BY <1>1 DEF NodeInv, Types, Now, Settings, Sound
<1>3. w \in Writes /\ w.settings = Now' /\ w.then = {}
  BY <1>2 DEF Write, Writes
<1> HIDE DEF w
<1>4. \A f \in w.then : Allowed(f, fans[f])'
  BY <1>3
<1>5. \A i \in 1..Len(writes) : \A f \in writes[i].then : Allowed(f, fans[f])'
  BY <1>1 DEF NodeInv, Asked, Allowed
<1>6. /\ writes' \in Seq(Writes) /\ BackplaneFlashFollows'
      /\ (\A i \in 1..Len(writes) : \A f \in writes[i].then : Allowed(f, fans[f]))'
  BY <1>1, <1>3, <1>4, <1>5, QueuedNow
<1>7. Types'
  BY <1>1, <1>6 DEF NodeInv, Types
<1> QED
  BY <1>1, <1>6, <1>7 DEF NodeInv, Asked, Allowed

LEMMA EmergencyKeeps ==
    ASSUME NodeInv, EmergencyDisable
    PROVE  NodeInv'
<1> DEFINE w == WriteEmergency(Now')
<1>1. /\ emergency_latched' = TRUE /\ fans' = AllFansSafe /\ duty' = AllFansSafe
      /\ drive' = {} /\ asked' = NothingAsked /\ flash' = flash
      /\ writes' = Append(writes, w)
  BY DEF EmergencyDisable, Now
<1>2. Now' \in Sound
  BY <1>1, SafeIsAccepted DEF Now, Settings, Sound
<1>3. w \in Writes /\ w.settings = Now' /\ w.then = {}
  BY <1>2 DEF WriteEmergency, Writes
<1> HIDE DEF w
<1>4. ASSUME NEW f \in FanIds
      PROVE  Allowed(f, fans[f])' /\ Allowed(f, duty[f])'
  BY <1>1 DEF Allowed, AllFansSafe
<1>5. ASSUME NEW i \in 1..Len(writes), NEW f \in writes[i].then
      PROVE  Allowed(f, fans[f])'
  <2>1. writes[i] \in Writes
    BY DEF NodeInv, Types
  <2>2. f \in FanIds
    BY <2>1, <1>5 DEF Writes
  <2> QED
    BY <1>4, <2>2
<1>6. /\ writes' \in Seq(Writes) /\ BackplaneFlashFollows'
      /\ (\A i \in 1..Len(writes) : \A f \in writes[i].then : Allowed(f, fans[f]))'
  BY <1>1, <1>3, <1>5, QueuedNow
<1>7. Types'
  BY <1>1, <1>6, SafeIsAccepted DEF NodeInv, Types, NothingAsked, Accepted
<1> QED
  BY <1>1, <1>4, <1>6, <1>7 DEF NodeInv, Asked

LEMMA DriveKeeps ==
    ASSUME NodeInv, DriveStep
    PROVE  NodeInv'
<1>1. PICK a \in drive :
         /\ duty' = [duty EXCEPT ![a.fan] = a.duty]
         /\ drive' = drive \ {a}
  BY DEF DriveStep
<1>2. UNCHANGED <<fans, emergency_latched, flash, writes, failed, asked>>
  BY DEF DriveStep, controller
<1>3. a.fan \in FanIds /\ a.duty \in Duties /\ Allowed(a.fan, a.duty)
  BY DEF NodeInv, Types, Asked
<1>4. duty' \in [FanIds -> Duties]
  BY <1>1, <1>3 DEF NodeInv, Types
<1>5. Types'
  BY <1>1, <1>2, <1>4 DEF NodeInv, Types
<1>6. (\A f \in FanIds : Allowed(f, duty[f]))'
  BY <1>1, <1>2, <1>3 DEF NodeInv, Types, Asked, Allowed
<1>7. Asked'
  BY <1>1, <1>2, <1>6 DEF NodeInv, Asked, Allowed
<1>8. BackplaneFlashFollows'
  BY <1>2 DEF NodeInv, BackplaneFlashFollows, Now
<1> QED
  BY <1>5, <1>7, <1>8 DEF NodeInv

LEMMA WriteDoneKeeps ==
    ASSUME NodeInv, WriteDone
    PROVE  NodeInv'
<1> DEFINE w == Head(writes)
<1>1. /\ writes # <<>> /\ flash' \in Written(w) /\ writes' = Tail(writes)
      /\ drive' = {a \in drive : a.fan \notin w.then}
                  \cup {fan_settings_persisted(f) : f \in w.then}
      /\ UNCHANGED <<fans, emergency_latched, duty, asked>>
  BY DEF WriteDone, controller
<1>2. Now' = Now
  BY <1>1 DEF Now
<1>3. /\ writes' \in Seq(Writes)
      /\ writes' # <<>> => writes'[Len(writes')].settings = Now'
      /\ \A i \in 1..Len(writes') : \E j \in 1..Len(writes) : writes'[i] = writes[j]
  BY <1>1, <1>2, TailStays
<1>4. writes \in Seq(Writes)
  BY DEF NodeInv, Types
<1>5. w = writes[1] /\ w \in Writes /\ 1 \in 1..Len(writes)
  BY <1>1, <1>4, Popped
<1>6. ASSUME writes' = <<>> PROVE w = writes[Len(writes)]
  <2>1. Len(writes) \in Nat /\ Len(Tail(writes)) = Len(writes) - 1
    BY <1>1, <1>4, Popped
  <2>2. Len(Tail(writes)) = 0
    BY <1>1, <1>6, NoWrites, Zenon
  <2>3. Len(writes) = 1
    BY <2>1, <2>2
  <2> QED
    BY <1>5, <2>3
<1> HIDE DEF w
<1>7. flash' = w.settings \/ flash' = Now
  BY <1>1 DEF Written
<1>8. flash' \in Sound
  BY <1>5, <1>7, NowIsSound DEF NodeInv, Writes
<1>9. \A f \in w.then : f \in FanIds /\ Allowed(f, fans[f])
  BY <1>5 DEF Writes, NodeInv, Asked
<1>10. \A f \in w.then : fan_settings_persisted(f) \in [fan : FanIds, duty : Duties]
  BY <1>9 DEF fan_settings_persisted, NodeInv, Types, Accepted
<1>11. Types'
  BY <1>1, <1>3, <1>8, <1>10 DEF NodeInv, Types
<1>12. ASSUME NEW a \in drive' PROVE Allowed(a.fan, a.duty)'
  <2>1. CASE a \in drive
    BY <1>1, <2>1 DEF NodeInv, Asked, Allowed
  <2>2. ASSUME NEW f \in w.then, a = fan_settings_persisted(f)
        PROVE  Allowed(a.fan, a.duty)'
    <3>1. a.fan = f /\ a.duty = fans[f]
      BY <2>2 DEF fan_settings_persisted
    <3> QED
      BY <1>1, <1>9, <3>1 DEF Allowed
  <2> QED
    BY <1>1, <2>1, <2>2
<1>13. ASSUME NEW i \in 1..Len(writes'), NEW f \in writes'[i].then
       PROVE  Allowed(f, fans[f])'
  <2>1. PICK j \in 1..Len(writes) : writes'[i] = writes[j]
    BY <1>3
  <2> QED
    BY <1>1, <1>13, <2>1 DEF NodeInv, Asked, Allowed
<1>14. (\A f \in FanIds : Allowed(f, duty[f]))'
  BY <1>1 DEF NodeInv, Asked, Allowed
<1>15. Asked'
  BY <1>12, <1>13, <1>14 DEF Asked
<1>16. BackplaneFlashFollows'
  <2>1. ASSUME writes' = <<>> PROVE flash' = Now'
    <3>1. w.settings = Now
      BY <1>1, <1>6, <2>1 DEF NodeInv, BackplaneFlashFollows
    <3> QED
      BY <1>2, <1>7, <3>1
  <2> QED
    BY <1>3, <2>1 DEF BackplaneFlashFollows
<1> QED
  BY <1>11, <1>15, <1>16 DEF NodeInv

LEMMA WriteFailsKeeps ==
    ASSUME NodeInv, WriteFails
    PROVE  NodeInv'
<1>1. /\ writes # <<>> /\ writes' = Tail(writes) /\ failed' = TRUE
      /\ UNCHANGED <<fans, emergency_latched, duty, flash, drive, asked>>
  BY DEF WriteFails, controller
<1>2. Now' = Now
  BY <1>1 DEF Now
<1>3. /\ writes' \in Seq(Writes)
      /\ writes' # <<>> => writes'[Len(writes')].settings = Now'
      /\ \A i \in 1..Len(writes') : \E j \in 1..Len(writes) : writes'[i] = writes[j]
  BY <1>1, <1>2, TailStays
<1>4. Types' /\ BackplaneFlashFollows'
  BY <1>1, <1>3 DEF NodeInv, Types, BackplaneFlashFollows
<1>5. ASSUME NEW i \in 1..Len(writes'), NEW f \in writes'[i].then
      PROVE  Allowed(f, fans[f])'
  <2>1. PICK j \in 1..Len(writes) : writes'[i] = writes[j]
    BY <1>3
  <2> QED
    BY <1>1, <1>5, <2>1 DEF NodeInv, Asked, Allowed
<1>6. Asked'
  BY <1>1, <1>5 DEF NodeInv, Asked, Allowed
<1> QED
  BY <1>4, <1>6 DEF NodeInv

LEMMA RestartKeeps ==
    ASSUME NodeInv, Restart
    PROVE  NodeInv'
<1>1. /\ fans' = flash.fans /\ emergency_latched' = flash.emergency_latched
      /\ duty' = AllFansSafe /\ writes' = <<>> /\ drive' = {} /\ asked' = NothingAsked
      /\ flash' = flash
  BY DEF Restart
<1>2. Types'
  BY <1>1, SafeIsAccepted, NoWrites
     DEF NodeInv, Types, NothingAsked, Sound, Accepted
<1>3. Asked'
  BY <1>1, NoWrites DEF Asked, Allowed, AllFansSafe
<1>4. BackplaneFlashFollows'
  BY <1>1 DEF BackplaneFlashFollows, Now, Settings, NodeInv, Types, Sound
<1> QED
  BY <1>2, <1>3, <1>4 DEF NodeInv

LEMMA NodeInductive == NodeInv /\ [Next]_vars => NodeInv'
<1> SUFFICES ASSUME NodeInv, [Next]_vars PROVE NodeInv'
  OBVIOUS
<1>1. CASE UNCHANGED vars
  BY <1>1 DEF vars, controller, NodeInv, Types, Asked, Allowed, BackplaneFlashFollows, Now
<1>2. ASSUME NEW d \in Duties, RefuseFan(d) PROVE NodeInv'
  BY <1>1, <1>2 DEF RefuseFan
<1> QED
  BY <1>1, <1>2, SetFanKeeps, AcknowledgeKeeps, EmergencyKeeps, DriveKeeps,
     WriteDoneKeeps, WriteFailsKeeps, RestartKeeps DEF Next

-----------------------------------------------------------------------------
LEMMA BackplaneNodeInv == Spec => []NodeInv
  BY InitKeeps, NodeInductive, PTL DEF Spec

\* No fan is slowed down by anything older than the last emergency or restart:
\* neither by fan_settings_persisted for a command that came before it, nor by
\* what flash holds.
THEOREM OnlyAskedDuties == Spec => []DutyIsAsked
<1>1. NodeInv => DutyIsAsked
  BY DEF NodeInv, Asked, Allowed, DutyIsAsked
<1> QED
  BY <1>1, BackplaneNodeInv, PTL

\* The last settings to be written are those in memory, and flash holds them
\* when that write has not failed.
THEOREM FlashFollowsMemory == Spec => []BackplaneFlashFollows
<1>1. NodeInv => BackplaneFlashFollows
  BY DEF NodeInv
<1> QED
  BY <1>1, BackplaneNodeInv, PTL

\* What is in flash is always something New accepts.
BackplaneRestartsAccepted == \A f \in FanIds : ValidDuty(flash.fans[f])

\* A backplane that loses its power at any moment has settings to come up with.
THEOREM RestartsAlwaysAccepted == Spec => []BackplaneRestartsAccepted
<1>1. NodeInv => BackplaneRestartsAccepted
  BY DEF NodeInv, Types, Sound, Accepted, BackplaneRestartsAccepted
<1> QED
  BY <1>1, BackplaneNodeInv, PTL
===============================================================================
