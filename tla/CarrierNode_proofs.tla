-------------------------- MODULE CarrierNode_proofs --------------------------
(***************************************************************************)
(* The safety of CarrierController, for every set of policies, every       *)
(* ceiling and every order of calls, and of CarrierNode, with power loss   *)
(* between any two steps.                                                  *)
(*                                                                         *)
(* The argument for the node: every settings record in memory, in flash or *)
(* on its way there is disabled if its latch is set, and one that enables  *)
(* the output is authorized or has an emergency behind it in the queue.    *)
(***************************************************************************)
EXTENDS CarrierNode, TLAPS

USE PoliciesAssumption, FactoryAssumption

-----------------------------------------------------------------------------
\* The controller on its own: any order of calls.

\* Disabling a policy changes nothing else about it, and keeps it valid.
LEMMA DisabledPolicy ==
    ASSUME NEW p \in Policies, Valid(p)
    PROVE  Disabled(p) \in Policies /\ Valid(Disabled(p)) /\ ~Disabled(p).enabled
<1>1. Disabled(p) = [enabled |-> FALSE, pd_limits |-> p.pd_limits]
  BY DEF Disabled
<1>2. Disabled(p).pd_limits = p.pd_limits /\ ~Disabled(p).enabled
  BY <1>1
<1>3. Valid(Disabled(p))
  BY <1>2 DEF Valid
<1> QED
  BY <1>2, <1>3

\* No call takes a field out of its type or makes the policy invalid; a caller
\* passes policies of the set Policies, and nothing else is assumed of it.
LEMMA TypeInductive == TypeOK /\ [Next]_vars => TypeOK'
<1> SUFFICES ASSUME TypeOK, [Next]_vars
             PROVE  TypeOK'
    OBVIOUS
<1> USE DEF TypeOK, ServiceState, FaultFlags, settingsVars, healthVars, vars, Refuse
<1>1. ASSUME NEW r \in Result, NEW good \in BOOLEAN, set_housekeeping_good(good, r)
      PROVE  TypeOK'
    BY <1>1 DEF set_housekeeping_good
<1>2. ASSUME NEW r \in Result, restore_after_startup_delay(r)
      PROVE  TypeOK'
    BY <1>2 DEF restore_after_startup_delay
<1>3. ASSUME NEW r \in Result, NEW p \in Policies, set_policy(p, r)
      PROVE  TypeOK'
    BY <1>3 DEF set_policy, Acceptable
<1>4. ASSUME NEW r \in Result, NEW good \in BOOLEAN, observe_output_power_good(good, r)
      PROVE  TypeOK'
    BY <1>4 DEF observe_output_power_good
<1>5. ASSUME NEW r \in Result, emergency_disable(r)
      PROVE  TypeOK'
    BY <1>5, DisabledPolicy DEF emergency_disable
<1>6. ASSUME NEW r \in Result, acknowledge_emergency(r)
      PROVE  TypeOK'
    BY <1>6 DEF acknowledge_emergency
<1>7. CASE UNCHANGED vars
    BY <1>7
<1> QED
    BY <1>1, <1>2, <1>3, <1>4, <1>5, <1>6, <1>7 DEF Next, Call

\* Whatever settings a carrier starts from and whatever is called, it never
\* holds a policy that its own constructor would refuse at the next restart.
THEOREM TypeCorrect == Spec => []TypeOK
<1>1. Init => TypeOK
    BY DEF Init, New, TypeOK, ServiceState, FaultFlags, CarrierSettings
<1> QED
    BY <1>1, TypeInductive, PTL DEF Spec

\* EmergencyHolds and ServiceJustified are inductive, each step by step.
LEMMA SafetyInductive ==
    TypeOK /\ EmergencyHolds /\ ServiceJustified /\ [Next]_vars
        => EmergencyHolds' /\ ServiceJustified'
<1> SUFFICES ASSUME TypeOK, EmergencyHolds, ServiceJustified, [Next]_vars
             PROVE  EmergencyHolds' /\ ServiceJustified'
    OBVIOUS
<1> USE DEF TypeOK, EmergencyHolds, ServiceJustified, ServiceState, FaultFlags,
            settingsVars, healthVars, vars, Refuse
<1>1. ASSUME NEW r \in Result, NEW good \in BOOLEAN, set_housekeeping_good(good, r)
      PROVE  EmergencyHolds' /\ ServiceJustified'
    BY <1>1 DEF set_housekeeping_good
<1>2. ASSUME NEW r \in Result, restore_after_startup_delay(r)
      PROVE  EmergencyHolds' /\ ServiceJustified'
  <2>1. \/ UNCHANGED vars
        \/ /\ MayRestore
           /\ service' = IF policy.enabled THEN "Enabling" ELSE "Disabled"
           /\ UNCHANGED <<settingsVars, faults, healthVars>>
    BY <1>2 DEF restore_after_startup_delay
  <2>2. CASE UNCHANGED vars
    BY <2>2
  <2>3. CASE /\ MayRestore
             /\ service' = IF policy.enabled THEN "Enabling" ELSE "Disabled"
             /\ UNCHANGED <<settingsVars, faults, healthVars>>
    BY <2>3 DEF MayRestore
  <2> QED
    BY <2>1, <2>2, <2>3
<1>3. ASSUME NEW r \in Result, NEW p \in Policies, set_policy(p, r)
      PROVE  EmergencyHolds' /\ ServiceJustified'
    BY <1>3 DEF set_policy, Acceptable
<1>4. ASSUME NEW r \in Result, NEW good \in BOOLEAN, observe_output_power_good(good, r)
      PROVE  EmergencyHolds' /\ ServiceJustified'
    BY <1>4 DEF observe_output_power_good, Lost
<1>5. ASSUME NEW r \in Result, emergency_disable(r)
      PROVE  EmergencyHolds' /\ ServiceJustified'
    BY <1>5 DEF emergency_disable
<1>6. ASSUME NEW r \in Result, acknowledge_emergency(r)
      PROVE  EmergencyHolds' /\ ServiceJustified'
  <2>1. CASE ~emergency_latched
    <3>1. UNCHANGED vars
      BY <1>6, <2>1 DEF acknowledge_emergency
    <3> QED
      BY <3>1
  <2>2. CASE emergency_latched
    <3>1. emergency_latched' = FALSE /\ faults' = faults \ {"EMERGENCY_LATCHED"}
          /\ UNCHANGED <<policy, service, output_power_good>>
      BY <1>6, <2>2 DEF acknowledge_emergency
    <3>2. "EMERGENCY_LATCHED" \notin faults'
      BY <3>1
    <3> QED
      BY <3>1, <3>2
  <2> QED
    BY <2>1, <2>2
<1>7. CASE UNCHANGED vars
    BY <1>7
<1> QED
    BY <1>1, <1>2, <1>3, <1>4, <1>5, <1>6, <1>7 DEF Next, Call

\* A latched emergency keeps the service down, and only what the policy asks
\* for is enabled, in every run of every carrier.
THEOREM SafetyCorrect == Spec => []EmergencyHolds /\ []ServiceJustified
<1>1. Init => TypeOK /\ EmergencyHolds /\ ServiceJustified
    BY DEF Init, New, TypeOK, EmergencyHolds, ServiceJustified, ServiceState,
           FaultFlags, CarrierSettings
<1> QED
    BY <1>1, TypeInductive, SafetyInductive, PTL DEF Spec

-----------------------------------------------------------------------------
\* The controller in its node, with power loss between any two steps.

\* Settings that a restart accepts and that keep the output off while latched.
Sound ==
    {s \in CarrierSettings : Valid(s.policy) /\ (s.emergency_latched => ~s.policy.enabled)}

Writes == [settings : Sound, then : {"policy_persisted", "acknowledged", "emergency"}]

Types ==
    /\ policy \in Policies /\ emergency_latched \in BOOLEAN
    /\ Now \in Sound
    /\ flash \in Sound
    /\ writes \in Seq(Writes)
    /\ output \in BOOLEAN /\ drive \subseteq BOOLEAN
    /\ durable \in BOOLEAN /\ authorized \in BOOLEAN

\* The output is off while latched, and what may switch it on, now or after a
\* restart, is authorized.
Safe ==
    /\ emergency_latched => ~output /\ TRUE \notin drive
    /\ output => authorized
    /\ TRUE \in drive => authorized
    /\ policy.enabled => authorized
    /\ durable /\ flash.policy.enabled => authorized

Overtaken(q, i) == \E k \in (i + 1)..Len(q) : q[k].then = "emergency"

\* The queue q of writes under the history auth and dur.
QueueSafe(q, auth, dur) == \A i \in 1..Len(q) :
    /\ q[i].settings.policy.enabled => auth \/ Overtaken(q, i)
    /\ q[i].then = "emergency" => ~dur /\ ~q[i].settings.policy.enabled

NodeInv == Types /\ Safe /\ QueueSafe(writes, authorized, durable) /\ FlashFollows

-----------------------------------------------------------------------------

\* The fields of the records used, and what a result leaves pending.
LEMMA Fields ==
    ASSUME NEW p, NEW latched, NEW settings, NEW then
    PROVE  /\ Settings(p, latched).policy = p
           /\ Settings(p, latched).emergency_latched = latched
           /\ Write(settings, then).settings = settings
           /\ Write(settings, then).then = then
  BY DEF Settings, Write

LEMMA Results ==
    ASSUME NEW then, NEW settings, NEW on, NEW error
    PROVE  /\ Queued(PersistSettings(settings), then) = Append(writes, Write(settings, then))
           /\ Queued(Err(error), then) = writes
           /\ Pending(DriveOutput(on)) = {on}
           /\ Pending(Nothing) = drive
           /\ Pending(Err(error)) = drive
           /\ PersistSettings(settings).is # "Err"
           /\ Err(error).is = "Err"
  BY DEF Queued, Pending, PersistSettings, DriveOutput, Nothing, Err

\* Settings that a write, flash or memory may hold.
LEMMA SoundSettings ==
    ASSUME NEW p \in Policies, NEW latched \in BOOLEAN, Valid(p),
           latched => ~p.enabled
    PROVE  Settings(p, latched) \in Sound
<1>1. Settings(p, latched) \in CarrierSettings
  BY DEF Settings, CarrierSettings
<1> QED
  BY <1>1, Fields DEF Sound

\* What a queue is after a write was put behind it, or its first was taken.
LEMMA Appended ==
    ASSUME NEW q \in Seq(Writes), NEW w \in Writes
    PROVE  /\ Append(q, w) \in Seq(Writes)
           /\ Len(Append(q, w)) = Len(q) + 1
           /\ \A i \in 1..Len(q) : Append(q, w)[i] = q[i]
           /\ Append(q, w)[Len(q) + 1] = w
           /\ Append(q, w) # <<>>
  OBVIOUS

LEMMA Popped ==
    ASSUME NEW q \in Seq(Writes), q # <<>>
    PROVE  /\ Len(q) \in Nat /\ Len(q) > 0
           /\ Head(q) = q[1] /\ Head(q) \in Writes
           /\ Tail(q) \in Seq(Writes)
           /\ Len(Tail(q)) = Len(q) - 1
           /\ \A i \in 1..Len(Tail(q)) : Tail(q)[i] = q[i + 1]
  OBVIOUS

\* A command or an acknowledgement puts authorized settings behind the queue.
LEMMA QueueAppend ==
    ASSUME NEW q \in Seq(Writes), NEW w \in Writes, NEW auth, NEW more, NEW dur,
           QueueSafe(q, auth, dur), w.then # "emergency",
           auth => more, w.settings.policy.enabled => more
    PROVE  QueueSafe(Append(q, w), more, dur)
<1> DEFINE a == Append(q, w)
<1>1. /\ Len(q) \in Nat /\ Len(a) = Len(q) + 1
      /\ \A i \in 1..Len(q) : a[i] = q[i]
      /\ a[Len(q) + 1] = w
  BY Appended
<1> HIDE DEF a
<1>2. ASSUME NEW i \in 1..Len(a)
      PROVE  /\ a[i].settings.policy.enabled => more \/ Overtaken(a, i)
             /\ a[i].then = "emergency" => ~dur /\ ~a[i].settings.policy.enabled
  <2>1. CASE i = Len(q) + 1
    BY <1>1, <2>1
  <2>2. CASE i \in 1..Len(q)
    <3>1. Overtaken(q, i) => Overtaken(a, i)
      BY <1>1, <2>2 DEF Overtaken
    <3> QED
      BY <1>1, <2>2, <3>1 DEF QueueSafe
  <2> QED
    BY <1>1, <2>1, <2>2
<1>3. QueueSafe(a, more, dur)
  BY <1>2 DEF QueueSafe
<1> QED
  BY <1>3 DEF a

\* An emergency's own record overtakes every other.
LEMMA QueueEmergency ==
    ASSUME NEW q \in Seq(Writes), NEW w \in Writes, NEW auth, NEW dur,
           QueueSafe(q, auth, dur), w.then = "emergency", ~w.settings.policy.enabled
    PROVE  QueueSafe(Append(q, w), FALSE, FALSE)
<1> DEFINE a == Append(q, w)
<1>1. /\ Len(q) \in Nat /\ Len(a) = Len(q) + 1
      /\ \A i \in 1..Len(q) : a[i] = q[i]
      /\ a[Len(q) + 1] = w
  BY Appended
<1> HIDE DEF a
<1>2. ASSUME NEW i \in 1..Len(a)
      PROVE  /\ a[i].settings.policy.enabled => Overtaken(a, i)
             /\ a[i].then = "emergency" => ~a[i].settings.policy.enabled
  <2>1. CASE i = Len(q) + 1
    BY <1>1, <2>1
  <2>2. CASE i \in 1..Len(q)
    <3>1. Overtaken(a, i)
      BY <1>1, <2>2 DEF Overtaken
    <3> QED
      BY <1>1, <2>2, <3>1 DEF QueueSafe
  <2> QED
    BY <1>1, <2>1, <2>2
<1>3. QueueSafe(a, FALSE, FALSE)
  BY <1>2 DEF QueueSafe
<1> QED
  BY <1>3 DEF a

\* Taking the first write keeps the rest safe, and the emergency is in flash
\* only when none is left in the queue.
LEMMA QueuePop ==
    ASSUME NEW q \in Seq(Writes), q # <<>>, NEW auth, NEW dur, NEW more,
           QueueSafe(q, auth, dur), more => dur \/ ~EmergencyPending(Tail(q))
    PROVE  QueueSafe(Tail(q), auth, more)
<1> DEFINE t == Tail(q)
<1>1. /\ Len(q) \in Nat /\ Len(q) > 0 /\ Len(t) = Len(q) - 1
      /\ \A i \in 1..Len(t) : t[i] = q[i + 1]
  BY Popped
<1>2. more => dur \/ ~EmergencyPending(t)
  OBVIOUS
<1> HIDE DEF t
<1>3. ASSUME NEW i \in 1..Len(t)
      PROVE  /\ t[i].settings.policy.enabled => auth \/ Overtaken(t, i)
             /\ t[i].then = "emergency" => ~more /\ ~t[i].settings.policy.enabled
  <2>1. i + 1 \in 1..Len(q) /\ t[i] = q[i + 1]
    BY <1>1
  <2>2. Overtaken(q, i + 1) => Overtaken(t, i)
    <3>1. ASSUME NEW k \in (i + 2)..Len(q), q[k].then = "emergency"
          PROVE  Overtaken(t, i)
      <4>1. k - 1 \in (i + 1)..Len(t) /\ k - 1 \in 1..Len(t) /\ (k - 1) + 1 = k
        BY <1>1, <3>1
      <4>2. t[k - 1] = q[k]
        BY <1>1, <4>1
      <4> QED
        BY <3>1, <4>1, <4>2 DEF Overtaken
    <3>2. (i + 1) + 1 = i + 2
      BY <1>1
    <3> QED
      BY <3>1, <3>2 DEF Overtaken
  <2>3. t[i].then = "emergency" => EmergencyPending(t)
    BY DEF EmergencyPending
  <2> QED
    BY <1>2, <2>1, <2>2, <2>3 DEF QueueSafe
<1>4. QueueSafe(t, auth, more)
  BY <1>3 DEF QueueSafe
<1> QED
  BY <1>4 DEF t

\* Observing the hardware touches nothing the invariant speaks of.
LEMMA ObservationsKeep ==
    ASSUME NodeInv, UNCHANGED <<settingsVars, runtimeVars>>
    PROVE  NodeInv'
  BY DEF NodeInv, Types, Safe, FlashFollows, Now, settingsVars, runtimeVars, history

LEMMA NoWrites == << >> \in Seq(Writes)
  OBVIOUS

LEMMA InitSafe == NodeInit => NodeInv
<1> SUFFICES ASSUME NodeInit PROVE NodeInv
  OBVIOUS
<1>1. /\ policy = Factory.policy /\ emergency_latched = Factory.emergency_latched
      /\ flash = Factory /\ output = FALSE /\ writes = <<>> /\ drive = {}
      /\ durable = TRUE /\ authorized = FALSE
  BY DEF NodeInit, New
<1>2. Factory = Now
  BY <1>1 DEF Settings, Now, CarrierSettings
<1>3. Factory \in Sound /\ policy \in Policies /\ emergency_latched \in BOOLEAN
  BY <1>1 DEF Sound, CarrierSettings
<1>4. Types
  BY <1>1, <1>2, <1>3, NoWrites DEF Types
<1>5. Safe
  BY <1>1 DEF Safe
<1>6. QueueSafe(writes, authorized, durable)
  BY <1>1 DEF QueueSafe
<1>7. FlashFollows
  BY <1>1, <1>2 DEF FlashFollows
<1> QED
  BY <1>4, <1>5, <1>6, <1>7 DEF NodeInv

-----------------------------------------------------------------------------
\* One lemma per action of the caller that changes what NodeInv speaks of.

LEMMA StartupSafe ==
    ASSUME NodeInv, Startup
    PROVE  NodeInv'
<1>1. PICK r \in Result : restore_after_startup_delay(r) /\ drive' = Pending(r)
  BY DEF Startup
<1>2. /\ UNCHANGED <<policy, emergency_latched, output, flash, writes, failed>>
      /\ UNCHANGED <<durable, authorized>>
  BY <1>1 DEF Startup, restore_after_startup_delay, Refuse, vars, settingsVars, history
<1>3. \/ drive' = drive
      \/ drive' = {TRUE} /\ ~emergency_latched /\ policy.enabled
  BY <1>1, Results DEF restore_after_startup_delay, Refuse, MayRestore
<1>4. Now' = Now
  BY <1>2 DEF Now
<1>5. Types' /\ FlashFollows'
  BY <1>2, <1>3, <1>4 DEF NodeInv, Types, FlashFollows
<1>6. Safe'
  BY <1>2, <1>3 DEF NodeInv, Safe
<1> QED
  BY <1>2, <1>5, <1>6 DEF NodeInv, QueueSafe, Overtaken

\* Settings put behind the queue that are those of memory.
LEMMA QueuedNow ==
    ASSUME NodeInv, NEW w \in Writes, writes' = Append(writes, w), w.settings = Now'
    PROVE  writes' \in Seq(Writes) /\ FlashFollows'
<1>1. /\ writes' \in Seq(Writes) /\ writes' # <<>>
      /\ Len(writes') = Len(writes) + 1 /\ writes'[Len(writes) + 1] = w
  BY Appended DEF NodeInv, Types
<1> QED
  BY <1>1 DEF FlashFollows

LEMMA CommandSafe ==
    ASSUME NodeInv, NEW p \in Policies, Command(p)
    PROVE  NodeInv'
<1>1. PICK r \in Result :
         /\ set_policy(p, r)
         /\ writes' = Queued(r, "policy_persisted")
         /\ authorized' = (authorized \/ (p.enabled /\ r.is # "Err"))
  BY DEF Command
<1>2. UNCHANGED <<output, flash, drive, failed, durable>>
  BY DEF Command
<1>3. CASE ~Acceptable(p)
  <2>1. r.is = "Err" /\ writes' = writes /\ UNCHANGED <<policy, emergency_latched>>
    BY <1>1, <1>3, Results DEF set_policy, Refuse, vars, settingsVars
  <2>2. authorized' = authorized
    BY <1>1, <2>1 DEF NodeInv, Types
  <2> QED
    BY <1>2, <2>1, <2>2 DEF NodeInv, Types, Safe, FlashFollows, Now
<1>4. CASE Acceptable(p)
  <2> DEFINE w == Write(Now', "policy_persisted")
  <2>1. /\ policy' = p /\ emergency_latched' = emergency_latched
        /\ r = PersistSettings(Settings(p, emergency_latched))
    BY <1>1, <1>4 DEF set_policy
  <2>2. Now' = Settings(p, emergency_latched) /\ r = PersistSettings(Now')
    BY <2>1 DEF Now
  <2>3. writes' = Append(writes, w) /\ r.is # "Err"
    BY <1>1, <2>2, Results
  <2>4. p.enabled \in BOOLEAN /\ authorized \in BOOLEAN
    BY DEF NodeInv, Types
  <2>5. authorized' \in BOOLEAN /\ (authorized => authorized') /\ (p.enabled => authorized')
    BY <1>1, <2>3, <2>4
  <2>6. Now' \in Sound
    BY <1>4, <2>2, SoundSettings DEF NodeInv, Types, Acceptable
  <2>7. w \in Writes
    BY <2>6 DEF Writes, Write
  <2>8. w.settings = Now' /\ w.then = "policy_persisted" /\ w.settings.policy = p
    BY <2>2, Fields
  <2> HIDE DEF w
  <2>9. QueueSafe(writes', authorized', durable)
    BY <2>3, <2>5, <2>7, <2>8, QueueAppend DEF NodeInv, Types
  <2>10. writes' \in Seq(Writes) /\ FlashFollows'
    BY <2>3, <2>7, <2>8, QueuedNow
  <2>11. Types'
    BY <1>2, <2>1, <2>5, <2>6, <2>10 DEF NodeInv, Types
  <2>12. Safe'
    BY <1>2, <2>1, <2>5 DEF NodeInv, Safe
  <2> QED
    BY <1>2, <2>9, <2>10, <2>11, <2>12 DEF NodeInv
<1> QED
  BY <1>3, <1>4

LEMMA AcknowledgeSafe ==
    ASSUME NodeInv, Acknowledge
    PROVE  NodeInv'
<1>1. PICK r \in Result :
         acknowledge_emergency(r) /\ writes' = Queued(r, "acknowledged")
  BY DEF Acknowledge
<1>2. UNCHANGED <<output, flash, drive, failed, durable, authorized>>
  BY DEF Acknowledge, history
<1>3. CASE ~emergency_latched
  <2>1. writes' = writes /\ UNCHANGED <<policy, emergency_latched>>
    BY <1>1, <1>3, Results DEF acknowledge_emergency, Refuse, vars, settingsVars
  <2> QED
    BY <1>2, <2>1 DEF NodeInv, Types, Safe, FlashFollows, Now
<1>4. CASE emergency_latched
  <2> DEFINE w == Write(Now', "acknowledged")
  <2>1. /\ policy' = policy /\ emergency_latched' = FALSE
        /\ r = PersistSettings(Settings(policy, FALSE))
    BY <1>1, <1>4 DEF acknowledge_emergency
  <2>2. Now' = Settings(policy, FALSE) /\ r = PersistSettings(Now')
    BY <2>1 DEF Now
  <2>3. writes' = Append(writes, w)
    BY <1>1, <2>2, Results
  <2>4. Valid(policy)
    BY Fields DEF NodeInv, Types, Now, Sound
  <2>5. Now' \in Sound
    BY <2>2, <2>4, SoundSettings DEF NodeInv, Types
  <2>6. w \in Writes
    BY <2>5 DEF Writes, Write
  <2>7. w.settings = Now' /\ w.then = "acknowledged" /\ w.settings.policy = policy
    <3>1. w.settings = Now' /\ w.then = "acknowledged"
      BY DEF Write
    <3>2. Now'.policy = policy
      BY <2>2, Fields
    <3> QED
      BY <3>1, <3>2
  <2> HIDE DEF w
  <2>8. QueueSafe(writes', authorized, durable)
    <3>1. w.settings.policy.enabled => authorized
      BY <2>7 DEF NodeInv, Safe
    <3> QED
      BY <2>3, <2>6, <2>7, <3>1, QueueAppend DEF NodeInv, Types
  <2>9. writes' \in Seq(Writes) /\ FlashFollows'
    BY <2>3, <2>6, <2>7, QueuedNow
  <2>10. Types'
    BY <1>2, <2>1, <2>5, <2>9 DEF NodeInv, Types
  <2>11. Safe'
    BY <1>2, <2>1 DEF NodeInv, Safe
  <2> QED
    BY <1>2, <2>8, <2>9, <2>10, <2>11 DEF NodeInv
<1> QED
  BY <1>3, <1>4

LEMMA EmergencySafe ==
    ASSUME NodeInv, Emergency
    PROVE  NodeInv'
<1> DEFINE w == Write(Now', "emergency")
<1>1. /\ emergency_latched' = TRUE /\ policy' = Disabled(policy)
      /\ output' = FALSE /\ drive' = {} /\ durable' = FALSE /\ authorized' = FALSE
      /\ writes' = Append(writes, w)
      /\ UNCHANGED <<flash, failed>>
  BY DEF Emergency, emergency_disable
<1>2. Valid(policy)
  BY Fields DEF NodeInv, Types, Now, Sound
<1>3. policy' \in Policies /\ Valid(policy') /\ ~policy'.enabled
  BY <1>1, <1>2, DisabledPolicy DEF NodeInv, Types
<1>4. Now' = Settings(policy', TRUE)
  BY <1>1 DEF Now
<1>5. Now' \in Sound
  BY <1>3, <1>4, SoundSettings
<1>6. w \in Writes
  BY <1>5 DEF Writes, Write
<1>7. w.settings = Now' /\ w.then = "emergency" /\ w.settings.policy = policy'
  <2>1. w.settings = Now' /\ w.then = "emergency"
    BY DEF Write
  <2>2. Now'.policy = policy'
    BY <1>4, Fields
  <2> QED
    BY <2>1, <2>2
<1> HIDE DEF w
<1>8. QueueSafe(writes', FALSE, FALSE)
  BY <1>1, <1>3, <1>6, <1>7, QueueEmergency DEF NodeInv, Types
<1>9. writes' \in Seq(Writes) /\ FlashFollows'
  BY <1>1, <1>6, <1>7, QueuedNow
<1>10. Types'
  BY <1>1, <1>3, <1>5, <1>9 DEF NodeInv, Types
<1>11. Safe'
  BY <1>1, <1>3 DEF NodeInv, Safe
<1> QED
  BY <1>1, <1>8, <1>9, <1>10, <1>11 DEF NodeInv

LEMMA DriveSafe ==
    ASSUME NodeInv, DriveStep
    PROVE  NodeInv'
<1>1. /\ \E on \in drive : output' = on
      /\ drive' = {}
      /\ UNCHANGED <<policy, emergency_latched, flash, writes, failed, durable, authorized>>
  BY DEF DriveStep, vars, settingsVars, history
<1>2. output' \in BOOLEAN /\ (output' => TRUE \in drive)
  BY <1>1 DEF NodeInv, Types
<1>3. Types' /\ FlashFollows'
  BY <1>1, <1>2 DEF NodeInv, Types, FlashFollows, Now
<1>4. Safe'
  BY <1>1, <1>2 DEF NodeInv, Safe
<1> QED
  BY <1>1, <1>3, <1>4 DEF NodeInv

\* The last write of the queue is still its last when the first is taken.
LEMMA LastStays ==
    ASSUME NodeInv, writes # <<>>, writes' = Tail(writes), Now' = Now, writes' # <<>>
    PROVE  writes'[Len(writes')].settings = Now'
<1>1. /\ Len(writes) \in Nat /\ Len(writes) > 0
      /\ writes' \in Seq(Writes) /\ Len(writes') = Len(writes) - 1
      /\ \A i \in 1..Len(writes') : writes'[i] = writes[i + 1]
  BY Popped DEF NodeInv, Types
<1>2. Len(writes') > 0
  BY <1>1
<1>3. writes'[Len(writes')] = writes[Len(writes)]
  BY <1>1, <1>2
<1> QED
  BY <1>3 DEF NodeInv, FlashFollows

LEMMA WriteDoneSafe ==
    ASSUME NodeInv, WriteDone
    PROVE  NodeInv'
<1> DEFINE w == Head(writes)
<1>1. /\ writes # <<>> /\ flash' \in Written(w) /\ writes' = Tail(writes)
      /\ failed' = FALSE
      /\ UNCHANGED <<policy, emergency_latched, output, authorized>>
  BY DEF WriteDone, vars, settingsVars
<1>0. durable' = \/ durable
                 \/ w.then = "emergency" /\ ~EmergencyPending(Tail(writes))
  BY Zenon DEF WriteDone
<1>2. Pending(DriveOutput(policy.enabled)) = {policy.enabled}
  BY Results
<1>3. drive' = drive \/ drive' = {policy.enabled}
  BY <1>2, Zenon DEF WriteDone, policy_persisted
<1>4. /\ w = writes[1] /\ w \in Writes /\ 1 \in 1..Len(writes)
      /\ writes' \in Seq(Writes)
  BY <1>1, Popped DEF NodeInv, Types
<1>5. Now' = Now
  BY <1>1 DEF Now
<1>6. w.settings \in Sound
  BY <1>4 DEF Writes
<1>7. /\ w.settings.policy.enabled => authorized \/ Overtaken(writes, 1)
      /\ w.then = "emergency" => ~durable /\ ~w.settings.policy.enabled
  BY <1>4 DEF NodeInv, QueueSafe
<1> HIDE DEF w
<1>8. flash' = w.settings \/ (w.then = "emergency" /\ flash' = Now)
  BY <1>1 DEF Written
<1>9. flash' \in Sound
  BY <1>6, <1>8 DEF NodeInv, Types
<1>10. policy.enabled \in BOOLEAN /\ durable' \in BOOLEAN
  BY <1>0 DEF NodeInv, Types
<1>11. Types'
  BY <1>1, <1>3, <1>4, <1>5, <1>9, <1>10 DEF NodeInv, Types
<1>12. ASSUME durable', flash'.policy.enabled
       PROVE  authorized
  <2>1. CASE flash' = Now
    <3>1. flash'.policy = policy
      BY <2>1, Fields DEF Now
    <3> QED
      BY <1>12, <3>1 DEF NodeInv, Safe
  <2>2. CASE flash' = w.settings
    <3>1. w.settings.policy.enabled
      BY <1>12, <2>2
    <3>2. durable
      BY <1>0, <1>7, <1>12, <3>1
    <3>3. ~Overtaken(writes, 1)
      <4>1. ASSUME NEW k \in (1 + 1)..Len(writes), writes[k].then = "emergency"
            PROVE  FALSE
        <5>1. k \in 1..Len(writes)
          BY <4>1
        <5> QED
          BY <3>2, <4>1, <5>1 DEF NodeInv, QueueSafe
      <4> QED
        BY <4>1 DEF Overtaken
    <3> QED
      BY <1>7, <3>1, <3>3
  <2> QED
    BY <1>8, <2>1, <2>2
<1>13. Safe'
  <2>1. emergency_latched => ~policy.enabled
    <3>1. Now.emergency_latched => ~Now.policy.enabled
      BY DEF NodeInv, Types, Sound
    <3>2. Now.emergency_latched = emergency_latched /\ Now.policy = policy
      BY Fields DEF Now
    <3> QED
      BY <3>1, <3>2
  <2>2. TRUE \in drive' => TRUE \in drive \/ policy.enabled
    BY <1>3
  <2>3. emergency_latched' => ~output' /\ TRUE \notin drive'
    BY <1>1, <2>1, <2>2 DEF NodeInv, Safe
  <2>4. TRUE \in drive' => authorized'
    BY <1>1, <2>2 DEF NodeInv, Safe
  <2> QED
    BY <1>1, <1>12, <2>3, <2>4 DEF NodeInv, Safe
<1>14. QueueSafe(writes', authorized', durable')
  <2>1. durable' => durable \/ ~EmergencyPending(Tail(writes))
    BY <1>0
  <2>2. QueueSafe(Tail(writes), authorized, durable')
    BY <1>1, <2>1, QueuePop DEF NodeInv, Types
  <2> QED
    BY <1>1, <2>2
<1>15. FlashFollows'
  <2>1. ASSUME writes' = <<>>
        PROVE  flash' = Now'
    <3>1. Len(writes) = 1
      <4>0. writes \in Seq(Writes)
        BY DEF NodeInv, Types
      <4>1. /\ Len(writes) \in Nat /\ Len(Tail(writes)) = Len(writes) - 1
        BY <1>1, <4>0, Popped
      <4>2. Tail(writes) = << >>
        BY <1>1, <2>1
      <4>3. Len(<< >>) = 0
        OBVIOUS
      <4>4. Len(Tail(writes)) = 0
        BY <4>2, <4>3, Zenon
      <4> QED
        BY <4>1, <4>4
    <3>2. w.settings = Now
      BY <1>1, <1>4, <3>1 DEF NodeInv, FlashFollows
    <3> QED
      BY <1>5, <1>8, <3>2
  <2> QED
    BY <1>1, <1>5, <2>1, LastStays DEF FlashFollows
<1> QED
  BY <1>11, <1>13, <1>14, <1>15 DEF NodeInv

LEMMA WriteFailsSafe ==
    ASSUME NodeInv, WriteFails
    PROVE  NodeInv'
<1>1. /\ writes # <<>> /\ writes' = Tail(writes) /\ failed' = TRUE
      /\ UNCHANGED <<policy, emergency_latched, output, flash, drive, durable, authorized>>
  BY DEF WriteFails, vars, settingsVars, history
<1>2. Now' = Now
  BY <1>1 DEF Now
<1>3. writes' \in Seq(Writes)
  BY <1>1, Popped DEF NodeInv, Types
<1>4. Types' /\ Safe'
  BY <1>1, <1>2, <1>3 DEF NodeInv, Types, Safe
<1>5. QueueSafe(writes', authorized', durable')
  BY <1>1, QueuePop DEF NodeInv, Types
<1>6. FlashFollows'
  BY <1>1, <1>2, LastStays DEF FlashFollows
<1> QED
  BY <1>4, <1>5, <1>6 DEF NodeInv

\* A restart forgets what was pending and what memory knew beyond flash.
LEMMA RestartSafe ==
    ASSUME NodeInv, Restart
    PROVE  NodeInv'
<1>1. /\ policy' = flash.policy /\ emergency_latched' = flash.emergency_latched
      /\ flash' = flash /\ output' = FALSE /\ writes' = <<>> /\ drive' = {}
      /\ durable' = TRUE /\ authorized' = (authorized \/ ~durable)
  BY DEF Restart
<1>2. flash \in CarrierSettings /\ flash = Now'
  BY <1>1 DEF NodeInv, Types, Sound, CarrierSettings, Now, Settings
<1>3. Types'
  BY <1>1, <1>2, NoWrites DEF NodeInv, Types, CarrierSettings
<1>4. Safe'
  BY <1>1 DEF NodeInv, Safe
<1>5. QueueSafe(writes', authorized', durable')
  BY <1>1 DEF QueueSafe
<1>6. FlashFollows'
  BY <1>1, <1>2 DEF FlashFollows
<1> QED
  BY <1>3, <1>4, <1>5, <1>6 DEF NodeInv

LEMMA NodeInductive == NodeInv /\ [NodeNext]_nodeVars => NodeInv'
<1> SUFFICES ASSUME NodeInv, [NodeNext]_nodeVars
             PROVE  NodeInv'
  OBVIOUS
<1>1. ASSUME NEW good \in BOOLEAN, Housekeeping(good) \/ PowerGood(good)
      PROVE  NodeInv'
  <2>1. UNCHANGED <<settingsVars, runtimeVars>>
    BY <1>1 DEF Housekeeping, PowerGood, set_housekeeping_good, observe_output_power_good
  <2> QED
    BY <2>1, ObservationsKeep
<1>2. CASE UNCHANGED nodeVars
  <2>1. UNCHANGED <<settingsVars, runtimeVars>>
    BY <1>2 DEF nodeVars, vars
  <2> QED
    BY <2>1, ObservationsKeep
<1> QED
  BY <1>1, <1>2, StartupSafe, CommandSafe, AcknowledgeSafe, EmergencySafe, DriveSafe,
     WriteDoneSafe, WriteFailsSafe, RestartSafe DEF NodeNext

LEMMA NodeInvariant == NodeSpec => []NodeInv
  BY InitSafe, NodeInductive, PTL DEF NodeSpec

-----------------------------------------------------------------------------

\* While the emergency is latched the pin is low, whatever commands were being
\* written when it came and are reported as persisted after it.
THEOREM LatchedOutputOff == NodeSpec => []LatchedMeansOff
<1>1. NodeInv => LatchedMeansOff
  BY DEF NodeInv, Safe, LatchedMeansOff
<1> QED
  BY <1>1, NodeInvariant, PTL

\* The last settings to be written are those in memory, and flash holds them
\* when that write has not failed.
THEOREM FlashFollowsMemory == NodeSpec => []FlashFollows
<1>1. NodeInv => FlashFollows
  BY DEF NodeInv
<1> QED
  BY <1>1, NodeInvariant, PTL

\* No policy gets into flash that the constructor would refuse at a restart.
THEOREM RestartsAlwaysAccepted == NodeSpec => []RestartsAccepted
<1>1. NodeInv => RestartsAccepted
  BY DEF NodeInv, Types, Sound, RestartsAccepted
<1> QED
  BY <1>1, NodeInvariant, PTL

\* After an emergency no pending write, restart, restore or acknowledgement
\* switches the output on: only a newly accepted enable does, or a power
\* failure that came before the emergency was in flash.
THEOREM OutputNeedsAuthority == NodeSpec => []OutputAuthorized
<1>1. NodeInv => OutputAuthorized
  BY DEF NodeInv, Safe, OutputAuthorized
<1> QED
  BY <1>1, NodeInvariant, PTL
=============================================================================
