---------------------------- MODULE LowPowerProofs ----------------------------
(***************************************************************************)
(* Theorems about LowPower, for every pair of timeouts and every setting.  *)
(***************************************************************************)
EXTENDS LowPower, TLAPS

-----------------------------------------------------------------------------
(* The answers to LPM_SET_MODE. *)

\* Without a session, no answer is owed to one.
LpmInv == /\ LpmAnsweredOnce /\ owed \in Nat /\ late \in Nat
          /\ ~cbacks => owed = 0
          /\ sleepCmds \in Seq({"DEASSERT", "ASSERT"})

LEMMA KeptCmds ==
  \A s \in Seq({"DEASSERT", "ASSERT"}) : \A t \in {<<>>, s} :
    t \in Seq({"DEASSERT", "ASSERT"}) /\ Len(t) \in Nat
<1>1. <<>> \in Seq({"DEASSERT", "ASSERT"})
  OBVIOUS
<1>2. \A t \in Seq({"DEASSERT", "ASSERT"}) : Len(t) \in Nat
  OBVIOUS
<1> QED
  BY <1>1, <1>2

LEMMA LpmStep == LpmInv /\ [Next]_vars => LpmInv'
<1> SUFFICES ASSUME LpmInv, [Next]_vars PROVE LpmInv'
  OBVIOUS
<1> USE DEF LpmInv, LpmAnsweredOnce, lpmVars
<1>1. CASE VendorInit
  <2>1. sleepCmds' \in {<<>>, sleepCmds} /\ late' = Len(sleepCmds') /\ owed' = 0
    BY <1>1 DEF VendorInit
  <2>2. sleepCmds' \in Seq({"DEASSERT", "ASSERT"}) /\ Len(sleepCmds') \in Nat
    BY <2>1, KeptCmds
  <2>3. owed' + late' = Len(sleepCmds')
    BY <2>1, <2>2
  <2> QED
    BY <2>1, <2>2, <2>3
<1>8. CASE VendorCleanup
  <2>1. sleepCmds' = sleepCmds /\ late' = Len(sleepCmds) /\ owed' = 0
    BY <1>8 DEF VendorCleanup
  <2>2. Len(sleepCmds) \in Nat
    OBVIOUS
  <2>3. owed' + late' = Len(sleepCmds')
    BY <2>1, <2>2
  <2> QED
    BY <2>1, <2>2, <2>3
<1>2. CASE \E a \in {"ASSERT", "DEASSERT"} : hw_lpm_enable(a)
  BY <1>2 DEF hw_lpm_enable, MayAskLpm, HostMayCall
<1>3. CASE hw_lpm_ctrl_cback
  <2>1. /\ Len(sleepCmds) > 0 /\ Len(sleepCmds') = Len(sleepCmds) - 1
        /\ sleepCmds' \in Seq({"DEASSERT", "ASSERT"})
    BY <1>3 DEF hw_lpm_ctrl_cback
  <2>2. /\ UNCHANGED cbacks
        /\ \/ late > 0 /\ late' = late - 1 /\ owed' = owed
           \/ cbacks /\ late = 0 /\ late' = late /\ owed' = owed - 1
    BY <1>3 DEF hw_lpm_ctrl_cback
  <2>3. CASE late > 0 /\ late' = late - 1 /\ owed' = owed
    BY <2>1, <2>2, <2>3
  <2>4. CASE cbacks /\ late = 0 /\ late' = late /\ owed' = owed - 1
    BY <2>1, <2>2, <2>4
  <2> QED
    BY <2>2, <2>3, <2>4
<1>4. CASE \E a \in {"ASSERT", "DEASSERT"} : hw_lpm_set_wake_state(a)
  BY <1>4 DEF hw_lpm_set_wake_state
<1>5. CASE \E t \in Thread : upio_set(t)
  BY <1>5 DEF upio_set, CheckLevel, SetLevel, WriteNode, ArmTimer, MarkActive
<1>6. CASE Expire \/ proc_btwrite_timeout \/ Tick
  BY <1>6 DEF Expire, proc_btwrite_timeout, Tick
<1>7. CASE UNCHANGED vars
  BY <1>7 DEF vars
<1> QED
  BY <1>1, <1>2, <1>3, <1>4, <1>5, <1>6, <1>7, <1>8 DEF Next, HostStep

LEMMA LpmCorrect == Spec => []LpmInv
<1>1. Init => LpmInv
  BY DEF Init, LpmInv, LpmAnsweredOnce
<1> QED
  BY <1>1, LpmStep, PTL DEF Spec

\* Whatever the host, the nodes and the controller do, every LPM_SET_MODE made
\* since init has been answered, or its command is in flight; and the other
\* commands in flight are those of the sessions before.
THEOREM LpmAnswered == Spec => []LpmAnsweredOnce
<1>1. LpmInv => LpmAnsweredOnce
  BY DEF LpmInv
<1> QED
  BY <1>1, LpmCorrect, PTL

-----------------------------------------------------------------------------
(* Types, the timer, and the agreement on LPM: for every setting.          *)

LEMMA TailOfCmds ==
  ASSUME NEW s \in Seq({"DEASSERT", "ASSERT"}), s # <<>>
  PROVE  Tail(s) \in Seq({"DEASSERT", "ASSERT"}) /\ Head(s) \in {"DEASSERT", "ASSERT"}
OBVIOUS

\* Everything but the count of the answers, and where the threads can be.
Types ==
  /\ setting \in Settings
  /\ cbacks \in BOOLEAN /\ btwrite_active \in BOOLEAN
  /\ timer_created \in BOOLEAN /\ armed \in BOOLEAN
  /\ upio_wake \in Level /\ upio_lpm \in Level
  /\ hold \in 0..HoldTicks /\ line \in 0..KernelTicks /\ quiet \in 0..HoldTicks
  /\ pc \in [Thread -> {"idle", "timeout", "check", "set", "write", "arm", "mark"}]
  /\ act \in [Thread -> {"DEASSERT", "ASSERT"}]
  /\ sleepCmds \in Seq({"DEASSERT", "ASSERT"})
  /\ sleepMode \in 0..1 /\ lastAnswer \in {"none", "SUCCESS", "FAIL"}

\* The timer is the library's, and its thread only deasserts.
TimerInv ==
  /\ TimerOwned
  /\ act["timer"] = "DEASSERT"
  /\ pc["host"] # "idle" => cbacks

BaseInv == Types /\ TimerInv

LEMMA BaseStep ==
  ASSUME BaseInv, [Next]_vars PROVE BaseInv'
<1> USE TicksAssumption, SettingsAssumption
    DEF BaseInv, Types, TimerInv, TimerOwned, Thread, Level, At, Goto, Call,
        timerVars, callVars, lpmVars
<1>1. CASE VendorInit
  <2>1. /\ cbacks' = TRUE /\ btwrite_active' = FALSE /\ timer_created' = FALSE
        /\ sleepCmds' \in {<<>>, sleepCmds} /\ lastAnswer' = "none"
        /\ upio_wake' = "UNKNOWN" /\ upio_lpm' = "UNKNOWN" /\ ~cbacks
        /\ UNCHANGED <<setting, armed, hold, callVars, line, quiet, sleepMode>>
    BY <1>1 DEF VendorInit
  <2>2. armed = FALSE
    BY <2>1
  <2>3. sleepCmds' \in Seq({"DEASSERT", "ASSERT"})
    BY <2>1, KeptCmds
  <2>4. TimerInv'
    BY <2>1, <2>2
  <2> QED
    BY <2>1, <2>3, <2>4
<1>2. CASE VendorCleanup
  BY <1>2 DEF VendorCleanup, HostMayCall, DeleteTimer
<1>3. ASSUME NEW a \in {"ASSERT", "DEASSERT"}, hw_lpm_enable(a) PROVE BaseInv'
  <2>1. /\ timer_created' \in BOOLEAN /\ armed' \in BOOLEAN
        /\ hold' = hold /\ upio_lpm' \in Level /\ cbacks
        /\ armed' => timer_created'
    BY <1>3 DEF hw_lpm_enable, MayAskLpm, HostMayCall, SetLpmMode, DeleteTimer
  <2>2. /\ sleepCmds' \in Seq({"DEASSERT", "ASSERT"})
        /\ lastAnswer' \in {"none", "SUCCESS", "FAIL"}
    BY <1>3 DEF hw_lpm_enable
  <2>3. UNCHANGED <<setting, cbacks, upio_wake, btwrite_active, line, quiet,
                    callVars, sleepMode>>
    BY <1>3 DEF hw_lpm_enable
  <2> QED
    BY <2>1, <2>2, <2>3
<1>4. CASE hw_lpm_ctrl_cback
  <2>1. sleepMode' \in 0..1 /\ lastAnswer' \in {"none", "SUCCESS", "FAIL"}
    BY <1>4 DEF hw_lpm_ctrl_cback, SleepMode, Setting
  <2>2. sleepCmds' \in Seq({"DEASSERT", "ASSERT"})
    BY <1>4, TailOfCmds DEF hw_lpm_ctrl_cback
  <2> QED
    BY <1>4, <2>1, <2>2 DEF hw_lpm_ctrl_cback
<1>5. CASE \E a \in {"ASSERT", "DEASSERT"} : hw_lpm_set_wake_state(a)
  BY <1>5 DEF hw_lpm_set_wake_state, HostMayCall
<1>6. ASSUME NEW t \in Thread, upio_set(t) PROVE BaseInv'
  <2>1. CASE CheckLevel(t)
    BY <2>1 DEF CheckLevel
  <2>2. CASE SetLevel(t)
    BY <2>2 DEF SetLevel
  <2>3. CASE WriteNode(t)
    BY <2>3 DEF WriteNode
  <2>4. CASE ArmTimer(t)
    <3>a. /\ armed' = (act[t] = "ASSERT" /\ timer_created)
          /\ UNCHANGED <<setting, cbacks, upio_wake, line, quiet, timer_created,
                         act, lpmVars>>
          /\ pc[t] = "arm"
      BY <2>4 DEF ArmTimer
    <3>b. hold' \in 0..HoldTicks
      BY <2>4 DEF ArmTimer
    <3>c. armed' \in BOOLEAN
      BY <3>a
    <3>d. armed' => act[t] = "ASSERT" /\ timer_created
      BY <3>a
    <3>e. act[t] = "ASSERT" => t = "host" /\ cbacks
      BY <3>a
    <3>1. /\ armed' \in BOOLEAN
          /\ armed' => timer_created' /\ cbacks'
          /\ hold' \in 0..HoldTicks
          /\ UNCHANGED <<setting, cbacks, upio_wake, line, quiet, timer_created,
                         act, lpmVars>>
      BY <3>a, <3>b, <3>c, <3>d, <3>e
    <3>2. btwrite_active' \in BOOLEAN
      BY <2>4 DEF ArmTimer
    <3>3. \/ pc' = [pc EXCEPT ![t] = "mark"]
          \/ pc' = [pc EXCEPT ![t] = "idle"]
      BY <2>4 DEF ArmTimer
    <3>4. /\ pc' \in [Thread -> {"idle", "timeout", "check", "set", "write", "arm",
                                 "mark"}]
          /\ pc'["host"] # "idle" => cbacks'
      BY <3>1, <3>3, <3>a
    <3>5. TimerInv'
      BY <3>1, <3>4
    <3> QED
      BY <3>1, <3>2, <3>4, <3>5
  <2>5. CASE MarkActive(t)
    BY <2>5 DEF MarkActive
  <2> QED
    BY <1>6, <2>1, <2>2, <2>3, <2>4, <2>5 DEF upio_set
<1>7. CASE Expire
  BY <1>7 DEF Expire
<1>8. CASE proc_btwrite_timeout
  BY <1>8 DEF proc_btwrite_timeout
<1>9. CASE Tick
  BY <1>9 DEF Tick
<1>10. CASE UNCHANGED vars
  BY <1>10 DEF vars
<1> QED
  BY <1>1, <1>2, <1>3, <1>4, <1>5, <1>6, <1>7, <1>8, <1>9, <1>10
     DEF Next, HostStep

LEMMA BaseInit == Init => BaseInv
<1> SUFFICES ASSUME Init PROVE BaseInv
  OBVIOUS
<1>1. sleepCmds \in Seq({"DEASSERT", "ASSERT"})
  BY DEF Init
<1>2. /\ hold \in 0..HoldTicks /\ line \in 0..KernelTicks
      /\ quiet \in 0..HoldTicks /\ sleepMode \in 0..1
  BY TicksAssumption DEF Init
<1>3. TimerInv
  BY DEF Init, TimerInv, TimerOwned, Thread
<1>4. /\ pc \in [Thread -> {"idle", "timeout", "check", "set", "write", "arm", "mark"}]
      /\ act \in [Thread -> {"DEASSERT", "ASSERT"}]
  BY DEF Init
<1>5. /\ cbacks \in BOOLEAN /\ btwrite_active \in BOOLEAN
      /\ timer_created \in BOOLEAN /\ armed \in BOOLEAN
  BY DEF Init
<1> QED
  BY <1>1, <1>2, <1>3, <1>4, <1>5 DEF Init, BaseInv, Types, Level

LEMMA BaseCorrect == Spec => []BaseInv
BY BaseInit, BaseStep, PTL DEF Spec

\* Type correctness.
THEOREM TypeCorrect == Spec => []TypeOK
<1>1. LpmInv /\ BaseInv => TypeOK
  BY DEF LpmInv, BaseInv, Types, TypeOK
<1> QED
  BY <1>1, LpmCorrect, BaseCorrect, PTL

\* In every build, for every host and with failing nodes, an armed timer is
\* known to the library, and none outlives cleanup.
THEOREM TimerCorrect == Spec => []TimerOwned
<1>1. BaseInv => TimerOwned
  BY DEF BaseInv, TimerInv
<1> QED
  BY <1>1, BaseCorrect, PTL

\* One request at a time; and what its success will mean.
AgreeInv ==
  /\ Orderly => /\ Len(sleepCmds) <= 1
                /\ sleepCmds # <<>> /\ cbacks =>
                     IF late > 0 THEN lastAnswer = "none" ELSE Head(sleepCmds) = upio_lpm
  /\ LpmAgreement

LEMMA OneCmd ==
  ASSUME NEW s \in Seq({"DEASSERT", "ASSERT"})
  PROVE  /\ Len(s) <= 1 /\ s # <<>> => Tail(s) = <<>>
         /\ s = <<>> => \A a \in {"DEASSERT", "ASSERT"} :
                          Len(Append(s, a)) = 1 /\ Head(Append(s, a)) = a
         /\ \A a \in {"DEASSERT", "ASSERT"} : Append(s, a) # <<>>
OBVIOUS

LEMMA AgreeStep ==
  ASSUME LpmInv, BaseInv, AgreeInv, [Next]_vars PROVE AgreeInv'
<1> USE DEF AgreeInv, LpmAgreement, Orderly, SleepMode
<1>0. sleepCmds \in Seq({"DEASSERT", "ASSERT"}) /\ upio_lpm \in Level
  BY DEF BaseInv, Types
<1>1. CASE VendorInit
  <2>1. /\ sleepCmds' \in {<<>>, sleepCmds} /\ late' = Len(sleepCmds')
        /\ lastAnswer' = "none" /\ setting' = setting
    BY <1>1 DEF VendorInit
  <2>2. Orderly => Len(sleepCmds') <= 1
    BY <1>0, <2>1, OneCmd
  <2>3. sleepCmds' # <<>> => late' > 0
    BY <1>0, <2>1
  <2> QED
    BY <2>1, <2>2, <2>3
<1>2. CASE VendorCleanup
  BY <1>2 DEF VendorCleanup, lpmVars
<1>3. ASSUME NEW a \in {"ASSERT", "DEASSERT"}, hw_lpm_enable(a) PROVE AgreeInv'
  <2>1. /\ UNCHANGED <<setting, cbacks, sleepMode, late>>
        /\ Orderly => sleepCmds = <<>>
    BY <1>3 DEF hw_lpm_enable, MayAskLpm
  <2>0. Orderly => ~(late' > 0)
    <3>1. sleepCmds = <<>> => Len(sleepCmds) = 0
      OBVIOUS
    <3> QED
      BY <2>1, <3>1 DEF LpmInv, LpmAnsweredOnce
  <2>2. CASE lastAnswer' = "FAIL" /\ UNCHANGED <<upio_lpm, sleepCmds>>
    BY <2>1, <2>2
  <2>3. CASE lastAnswer' = "FAIL" /\ UNCHANGED sleepCmds
    <3>1. Orderly => sleepCmds' = <<>>
      BY <2>1, <2>3
    <3> QED
      BY <2>1, <2>3, <3>1
  <2>4. CASE SetLpmMode(a) /\ sleepCmds' = Append(sleepCmds, a)
    <3>1. upio_lpm' = a
      BY <2>4 DEF SetLpmMode
    <3>2. CASE ~Orderly
      BY <2>1, <3>2
    <3>3. CASE Orderly
      <4>1. Len(sleepCmds') = 1 /\ Head(sleepCmds') = a /\ sleepCmds' # <<>>
        BY <1>0, <2>1, <2>4, <3>3, OneCmd
      <4> QED
        BY <2>0, <2>1, <3>1, <4>1
    <3> QED
      BY <3>2, <3>3
  <2> QED
    BY <1>3, <2>2, <2>3, <2>4 DEF hw_lpm_enable
<1>4. CASE hw_lpm_ctrl_cback
  <2>1. /\ sleepCmds # <<>> /\ sleepCmds' = Tail(sleepCmds)
        /\ UNCHANGED <<setting, cbacks, upio_lpm>>
    BY <1>4 DEF hw_lpm_ctrl_cback
  <2>2. CASE ~(Orderly /\ cbacks)
    <3>1. Orderly => sleepCmds' = <<>>
      BY <1>0, <2>1, OneCmd
    <3> QED
      BY <2>1, <2>2, <3>1
  <2>3. CASE Orderly /\ cbacks
    <3>1. sleepCmds' = <<>>
      BY <1>0, <2>1, <2>3, OneCmd
    <3>2. CASE late > 0
      <4>1. lastAnswer = "none" /\ lastAnswer' = lastAnswer
        BY <1>4, <2>1, <2>3, <3>2 DEF hw_lpm_ctrl_cback
      <4> QED
        BY <2>1, <3>1, <4>1
    <3>3. CASE ~(late > 0)
      <4>1. Head(sleepCmds) = upio_lpm
        BY <2>1, <2>3, <3>3
      <4>2. lastAnswer' = "SUCCESS" =>
              sleepMode' = IF Head(sleepCmds) = "ASSERT" THEN SleepMode ELSE 0
        BY <1>4, <3>3 DEF hw_lpm_ctrl_cback
      <4> QED
        BY <2>1, <3>1, <4>1, <4>2
    <3> QED
      BY <3>2, <3>3
  <2> QED
    BY <2>2, <2>3
<1>5. CASE \E a \in {"ASSERT", "DEASSERT"} : hw_lpm_set_wake_state(a)
  BY <1>5 DEF hw_lpm_set_wake_state, lpmVars
<1>6. CASE \E t \in Thread : upio_set(t)
  BY <1>6 DEF upio_set, CheckLevel, SetLevel, WriteNode, ArmTimer, MarkActive,
              lpmVars
<1>7. CASE Expire \/ proc_btwrite_timeout \/ Tick
  BY <1>7 DEF Expire, proc_btwrite_timeout, Tick, lpmVars
<1>8. CASE UNCHANGED vars
  BY <1>8 DEF vars, lpmVars
<1> QED
  BY <1>1, <1>2, <1>3, <1>4, <1>5, <1>6, <1>7, <1>8 DEF Next, HostStep

\* For a host that waits for lpm_cb, in every build and with failing nodes,
\* success means that both sides agree on LPM.
THEOREM AgreementCorrect == Spec => []LpmAgreement
<1>1. Init => AgreeInv
  BY DEF Init, AgreeInv, LpmAgreement
<1>2. AgreeInv => LpmAgreement
  BY DEF AgreeInv
<1> QED
  BY <1>1, <1>2, AgreeStep, LpmCorrect, BaseCorrect, PTL DEF Spec

-----------------------------------------------------------------------------
(* No lost assertion: the build that does not notify deassertion, an       *)
(* orderly host, and proc nodes that do not fail.                          *)

WakeTypes ==
  /\ upio_wake \in Level /\ upio_lpm \in Level
  /\ hold \in 0..HoldTicks /\ line \in Nat
  /\ pc \in [Thread -> {"idle", "timeout", "check", "set", "write", "arm"}]
  /\ act \in [Thread -> {"DEASSERT", "ASSERT"}]

\* Where the two threads can be: the timer's only deasserts, and without
\* notification only an assertion gets as far as the node.
Places ==
  /\ act["timer"] = "DEASSERT"
  /\ pc["timer"] \in {"idle", "timeout", "check", "set"}
  /\ pc["host"] \in {"write", "arm"} => act["host"] = "ASSERT"
  /\ pc["host"] # "timeout"
  /\ pc["host"] = "arm" => line = KernelTicks
  /\ ~cbacks => pc["host"] = "idle"

\* While the host wants BT_WAKE asserted, the timer exists.
TimerExists ==
  /\ cbacks /\ upio_lpm = "ASSERT" => timer_created
  /\ act["host"] = "ASSERT" => cbacks /\ upio_lpm = "ASSERT"
  /\ ~cbacks => ~armed

\* Once the host has withdrawn its request, upio_set has recorded it.
Recorded ==
  act["host"] = "DEASSERT" /\ pc["host"] \notin {"check", "set"} =>
    upio_wake # "ASSERT"

\* An armed timer is due before the kernel gives up.
Guarded == armed => hold < line

\* The flag that swallows assertions is guarded by a timer, or about to be.
Watched ==
  btwrite_active /\ upio_wake = "ASSERT" =>
    armed \/ pc["timer"] = "timeout" \/ pc["host"] \in {"write", "arm"}

WakeInv == /\ WakeTypes /\ Places /\ TimerExists /\ Recorded /\ Guarded
           /\ Watched

LEMMA SettingStays == [Next]_vars => Sound' = Sound
BY DEF Next, HostStep, VendorInit, VendorCleanup, hw_lpm_enable,
       hw_lpm_set_wake_state, hw_lpm_ctrl_cback, Expire, proc_btwrite_timeout,
       Tick, upio_set, CheckLevel, SetLevel, WriteNode, ArmTimer, MarkActive,
       vars, Sound, Orderly, NodesMayFail, NotifyDeassert

LEMMA WakeStep ==
  ASSUME Sound, WakeInv, [Next]_vars PROVE WakeInv'
<1> USE TicksAssumption
    DEF Sound, WakeInv, WakeTypes, Places, TimerExists, Recorded, Guarded,
        Watched, Thread, Level, At, Goto, Call, timerVars, callVars, lpmVars
<1>1. CASE VendorInit
  BY <1>1 DEF VendorInit
<1>2. CASE VendorCleanup
  BY <1>2 DEF VendorCleanup, HostMayCall, Withdrawn, DeleteTimer
<1>3. CASE hw_lpm_enable("ASSERT")
  BY <1>3 DEF hw_lpm_enable, MayAskLpm, HostMayCall, SetLpmMode
<1>4. CASE hw_lpm_enable("DEASSERT")
  BY <1>4 DEF hw_lpm_enable, MayAskLpm, HostMayCall, Withdrawn, SetLpmMode, DeleteTimer
<1>5. CASE hw_lpm_ctrl_cback
  BY <1>5 DEF hw_lpm_ctrl_cback
<1>6. CASE \E a \in {"ASSERT", "DEASSERT"} : hw_lpm_set_wake_state(a)
  BY <1>6 DEF hw_lpm_set_wake_state, HostMayCall
<1>7. ASSUME NEW t \in Thread, upio_set(t) PROVE WakeInv'
  <2>1. CASE CheckLevel(t)
    BY <2>1 DEF CheckLevel
  <2>2. CASE SetLevel(t)
    BY <2>2 DEF SetLevel
  <2>3. CASE WriteNode(t)
    <3>1. t = "host" /\ pc["host"] = "write" /\ act["host"] = "ASSERT"
      BY <2>3 DEF WriteNode
    <3>2. line' = KernelTicks /\ pc' = [pc EXCEPT !["host"] = "arm"]
      BY <2>3, <3>1 DEF WriteNode
    <3>3. UNCHANGED <<cbacks, upio_wake, upio_lpm, btwrite_active,
                      timer_created, armed, hold, act>>
      BY <2>3 DEF WriteNode
    <3> QED
      BY <3>1, <3>2, <3>3
  <2>4. CASE ArmTimer(t)
    <3>1. /\ t = "host" /\ pc["host"] = "arm" /\ act["host"] = "ASSERT"
          /\ timer_created /\ line = KernelTicks
      BY <2>4 DEF ArmTimer
    <3>2. armed'
      BY <2>4, <3>1 DEF ArmTimer
    <3>3. hold' = HoldTicks /\ pc' = [pc EXCEPT !["host"] = "idle"]
      BY <2>4, <3>1, <3>2 DEF ArmTimer
    <3>4. UNCHANGED <<cbacks, upio_wake, upio_lpm, line, timer_created, act>>
      BY <2>4 DEF ArmTimer
    <3> QED
      BY <3>1, <3>2, <3>3, <3>4
  <2>5. CASE MarkActive(t)
    BY <2>5 DEF MarkActive
  <2> QED
    BY <1>7, <2>1, <2>2, <2>3, <2>4, <2>5 DEF upio_set
<1>8. CASE Expire
  BY <1>8 DEF Expire
<1>9. CASE proc_btwrite_timeout
  BY <1>9 DEF proc_btwrite_timeout
<1>10. CASE Tick
  BY <1>10 DEF Tick
<1>11. CASE UNCHANGED vars
  BY <1>11 DEF vars
<1> QED
  BY <1>1, <1>2, <1>3, <1>4, <1>5, <1>6, <1>7, <1>8, <1>9, <1>10, <1>11
     DEF Next, HostStep

LEMMA WakeCorrect == Spec => [](Sound => WakeInv)
<1>1. Init => WakeInv
  BY TicksAssumption
     DEF Init, WakeInv, WakeTypes, Places, TimerExists, Recorded, Guarded,
         Watched, Thread, Level
<1>2. (Sound => WakeInv) /\ [Next]_vars => (Sound => WakeInv)'
  BY WakeStep, SettingStays
<1> QED
  BY <1>1, <1>2, PTL DEF Spec

\* In the build and for the host above, an assertion is never swallowed after
\* the kernel has given up, for all timeouts with the btwrite timer shorter.
THEOREM AssertsCount == Spec => []NoLostAssert
<1>1. (Sound => WakeInv) => NoLostAssert
  BY DEF WakeInv, WakeTypes, Guarded, Watched, NoLostAssert, NothingLost, At,
         Thread
<1> QED
  BY <1>1, WakeCorrect, PTL

\* How long the line will last: from the timer on, and from the last call on.
Reserve == KernelTicks - HoldTicks
Lasting ==
  /\ armed => line >= hold + Reserve
  /\ pc["timer"] = "timeout" => line >= Reserve
  /\ pc["host"] = "idle" /\ act["host"] = "ASSERT" /\ quiet < HoldTicks =>
       line + quiet >= Reserve

LEMMA ReserveFits ==
  /\ \A h \in 0..HoldTicks : KernelTicks >= h + Reserve
  /\ KernelTicks >= Reserve /\ Reserve \in Nat
BY TicksAssumption DEF Reserve

LEMMA LastStep ==
  ASSUME Sound, BaseInv, WakeInv, Lasting, [Next]_vars PROVE Lasting'
<1> USE TicksAssumption
    DEF Lasting, Reserve, BaseInv, Types, WakeInv, Places, Thread, At, Goto,
        Call, timerVars, callVars, lpmVars
<1>1. CASE VendorInit \/ VendorCleanup
  BY <1>1 DEF VendorInit, VendorCleanup, HostMayCall, DeleteTimer
<1>2. CASE \E a \in {"ASSERT", "DEASSERT"} : hw_lpm_enable(a)
  BY <1>2 DEF hw_lpm_enable, SetLpmMode, DeleteTimer
<1>3. CASE hw_lpm_ctrl_cback
  BY <1>3 DEF hw_lpm_ctrl_cback
<1>4. CASE \E a \in {"ASSERT", "DEASSERT"} : hw_lpm_set_wake_state(a)
  BY <1>4 DEF hw_lpm_set_wake_state
<1>5. ASSUME NEW t \in Thread, upio_set(t) PROVE Lasting'
  <2>1. CASE CheckLevel(t)
    <3>1. UNCHANGED <<armed, hold, line, quiet, act>>
      BY <2>1 DEF CheckLevel
    <3>2. CASE t = "host" /\ pc'["host"] = "idle"
      <4>1. armed \/ pc["timer"] = "timeout" \/ act["host"] = "DEASSERT"
        BY <2>1, <3>2 DEF CheckLevel, Watched
      <4>2. line >= Reserve \/ act["host"] = "DEASSERT"
        BY <4>1
      <4> QED
        BY <2>1, <3>1, <3>2, <4>2 DEF CheckLevel
    <3>3. CASE ~(t = "host" /\ pc'["host"] = "idle")
      BY <2>1, <3>1, <3>3 DEF CheckLevel
    <3> QED
      BY <3>2, <3>3
  <2>2. CASE SetLevel(t)
    BY <2>2 DEF SetLevel, Sound
  <2>3. CASE WriteNode(t)
    <3>1. t = "host" /\ pc["host"] = "write" /\ act["host"] = "ASSERT"
      BY <2>3 DEF WriteNode
    <3>2. line' = KernelTicks /\ pc' = [pc EXCEPT !["host"] = "arm"]
      BY <2>3, <3>1 DEF WriteNode, Sound
    <3>3. UNCHANGED <<armed, hold, quiet, act>>
      BY <2>3 DEF WriteNode
    <3> QED
      BY <3>2, <3>3
  <2>4. CASE ArmTimer(t)
    <3>1. t = "host" /\ pc["host"] = "arm" /\ line = KernelTicks
      BY <2>4 DEF ArmTimer
    <3>2. pc' = [pc EXCEPT !["host"] = "idle"] /\ UNCHANGED <<line, quiet, act>>
      BY <2>4, <3>1 DEF ArmTimer, Sound
    <3>3. hold' \in 0..HoldTicks
      BY <2>4 DEF ArmTimer
    <3>4. KernelTicks >= hold' + Reserve /\ KernelTicks >= Reserve
      BY <3>3, ReserveFits
    <3>5. KernelTicks + quiet >= Reserve
      BY ReserveFits
    <3>6. line' = KernelTicks /\ quiet' = quiet
      BY <3>1, <3>2
    <3> HIDE DEF Reserve
    <3> QED
      BY <3>4, <3>5, <3>6
  <2>5. CASE MarkActive(t)
    BY <2>5 DEF MarkActive, WakeTypes
  <2> QED
    BY <1>5, <2>1, <2>2, <2>3, <2>4, <2>5 DEF upio_set
<1>6. CASE Expire
  BY <1>6 DEF Expire
<1>7. CASE proc_btwrite_timeout
  BY <1>7 DEF proc_btwrite_timeout
<1>8. CASE Tick
  <2>1. /\ pc["timer"] # "timeout" /\ UNCHANGED <<pc, act, armed>>
        /\ line' = IF line > 0 THEN line - 1 ELSE 0
    BY <1>8 DEF Tick
  <2>2. armed => hold' = hold - 1 /\ hold > 0
    BY <1>8 DEF Tick
  <2>3. quiet < HoldTicks => quiet' = quiet + 1
    BY <1>8 DEF Tick
  <2>4. quiet' < HoldTicks => quiet < HoldTicks
    BY <1>8 DEF Tick
  <2> QED
    BY <2>1, <2>2, <2>3, <2>4
<1>9. CASE UNCHANGED vars
  BY <1>9 DEF vars
<1> QED
  BY <1>1, <1>2, <1>3, <1>4, <1>5, <1>6, <1>7, <1>8, <1>9 DEF Next, HostStep

\* Every call to assert BT_WAKE, swallowed or not, keeps the line asserted for
\* the difference of the two timeouts, whatever they are.
THEOREM AssertsLast == Spec => []AssertLasts
<1>1. Init => Lasting
  BY TicksAssumption DEF Init, Lasting, Reserve, Thread
<1>2. /\ BaseInv /\ (Sound => WakeInv) /\ (Sound => Lasting) /\ [Next]_vars
      => (Sound => Lasting)'
  BY LastStep, SettingStays
<1>3. BaseInv /\ (Sound => Lasting) => AssertLasts
  BY TicksAssumption DEF Lasting, Reserve, AssertLasts, At, BaseInv, Types
<1> QED
  BY <1>1, <1>2, <1>3, BaseCorrect, WakeCorrect, PTL DEF Spec

\* There timer_settime is called for a timer that exists.
THEOREM TimerReady == Spec => []ArmsExistingTimer
<1>1. (Sound => WakeInv) => ArmsExistingTimer
  BY DEF WakeInv, Places, TimerExists, ArmsExistingTimer, At, Thread
<1> QED
  BY <1>1, WakeCorrect, PTL
=============================================================================
