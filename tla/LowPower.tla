------------------------------- MODULE LowPower -------------------------------
(***************************************************************************)
(* Low power mode and the BT_WAKE signal, in the build that drives them    *)
(* through proc nodes (BT_WAKE_VIA_PROC): hw_lpm_enable and                *)
(* hw_lpm_set_wake_state of hardware.c, upio_set and the btwrite timer of  *)
(* upio.c.                                                                 *)
(*                                                                         *)
(* Two threads run upio_set on BT_WAKE without a lock: the host stack's,   *)
(* and the one timer_create starts when the btwrite timer expires.  Each   *)
(* access to what they share is a step.  Calls take no time; a Tick passes *)
(* between calls.  The kernel's bluesleep driver keeps BT_WAKE asserted    *)
(* for KernelTicks after the last write of '1' to the btwrite node.        *)
(*                                                                         *)
(* A behaviour keeps the setting it starts in: how the library was built,  *)
(* what its host does, and whether the nodes work.                         *)
(***************************************************************************)
EXTENDS Naturals, Sequences

CONSTANTS
  Settings,        \* the settings considered
  HoldTicks,       \* PROC_BTWRITE_TIMER_TIMEOUT_MS
  KernelTicks,     \* bluesleep's in-activity timeout
  MaxInFlight      \* WRITE_SLEEP_MODE commands the host lets be in flight

\* notify:  BT_WAKE_VIA_PROC_NOTIFY_DEASSERT
\* sleep:   LPM_SLEEP_MODE
\* orderly: the host asserts only with LPM on, deasserts before it turns LPM
\*          off or cleans up, and waits for lpm_cb
\* fail:    open() and write() of the proc nodes, and timer_create, may fail
Setting == [notify: BOOLEAN, sleep: 0..1, orderly: BOOLEAN, fail: BOOLEAN]

ASSUME SettingsAssumption == Settings \subseteq Setting
ASSUME TicksAssumption  == /\ HoldTicks \in Nat \ {0} /\ KernelTicks \in Nat
                           /\ HoldTicks < KernelTicks
ASSUME FlightAssumption == MaxInFlight \in Nat \ {0}

Thread == {"host", "timer"}
Level  == {"UNKNOWN", "DEASSERT", "ASSERT"}

VARIABLES
  setting,
  cbacks,          \* bt_vendor_cbacks # NULL
  upio_wake,       \* upio_state[UPIO_BT_WAKE]
  upio_lpm,        \* upio_state[UPIO_LPM_MODE]
  btwrite_active,  \* lpm_proc_cb.btwrite_active
  timer_created,   \* lpm_proc_cb.timer_created
  armed, hold,     \* the timer is armed, and the ticks until it is due
  pc, act,         \* where each thread is in upio_set(UPIO_BT_WAKE, act)
  line,            \* ticks until the kernel deasserts BT_WAKE, 0 once it has
  quiet,           \* ticks since the host last asked to assert, capped
  sleepCmds,       \* the WRITE_SLEEP_MODE commands in flight
  sleepMode,       \* the controller's sleep mode
  late,            \* how many of them are of sessions before this one
  owed,            \* this session's LPM_SET_MODE requests not yet answered
  lastAnswer       \* result of the last lpm_cb for one of them, or "none"

timerVars == <<timer_created, armed, hold>>
callVars  == <<pc, act>>
lpmVars   == <<upio_lpm, sleepCmds, sleepMode, late, owed, lastAnswer>>
vars == <<setting, cbacks, upio_wake, btwrite_active, line, quiet,
          timerVars, callVars, lpmVars>>

NotifyDeassert == setting.notify
SleepMode      == setting.sleep
Orderly        == setting.orderly
NodesMayFail   == setting.fail

Init ==
  /\ setting \in Settings
  /\ cbacks = FALSE /\ upio_wake = "UNKNOWN" /\ upio_lpm = "UNKNOWN"
  /\ btwrite_active = FALSE /\ timer_created = FALSE /\ armed = FALSE /\ hold = 0
  /\ pc = [t \in Thread |-> "idle"] /\ act = [t \in Thread |-> "DEASSERT"]
  /\ line = 0 /\ quiet = HoldTicks
  /\ sleepCmds = <<>> /\ sleepMode = 0
  /\ late = 0 /\ owed = 0 /\ lastAnswer = "none"

At(t, label)   == pc[t] = label
Goto(t, label) == pc' = [pc EXCEPT ![t] = label]
Call(t, a)     == act' = [act EXCEPT ![t] = a]

HostMayCall == cbacks /\ At("host", "idle")
MayAskLpm   == /\ HostMayCall /\ Len(sleepCmds) < MaxInFlight
               /\ Orderly => sleepCmds = <<>>
\* An orderly host has withdrawn its last request to assert BT_WAKE.
Withdrawn   == Orderly => act["host"] = "DEASSERT"

-----------------------------------------------------------------------------
(* init and cleanup. *)

\* upio_init forgets the levels and the timer.  The host's HCI layer may have
\* dropped the commands in flight meanwhile, or deliver their answers later.
VendorInit ==
  /\ ~cbacks /\ At("host", "idle") /\ cbacks' = TRUE
  /\ upio_wake' = "UNKNOWN" /\ upio_lpm' = "UNKNOWN"
  /\ btwrite_active' = FALSE /\ timer_created' = FALSE
  /\ sleepCmds' \in {<<>>, sleepCmds} /\ late' = Len(sleepCmds')
  /\ lastAnswer' = "none"
  /\ UNCHANGED <<setting, armed, hold, callVars, line, quiet, sleepMode, owed>>

DeleteTimer == timer_created' = FALSE /\ armed' = FALSE /\ UNCHANGED hold

\* Mutant of VendorCleanup: the timer is forgotten, not deleted.
VendorCleanup_ForgetsTimer ==
  /\ HostMayCall /\ Withdrawn /\ cbacks' = FALSE
  /\ timer_created' = FALSE /\ UNCHANGED <<armed, hold>>
  /\ late' = Len(sleepCmds) /\ owed' = 0
  /\ UNCHANGED <<setting, upio_wake, btwrite_active, line, quiet, callVars,
                 upio_lpm, sleepCmds, sleepMode, lastAnswer>>

VendorCleanup ==
  /\ HostMayCall /\ Withdrawn /\ cbacks' = FALSE
  /\ DeleteTimer
  /\ late' = Len(sleepCmds) /\ owed' = 0
  /\ UNCHANGED <<setting, upio_wake, btwrite_active, line, quiet, callVars,
                 upio_lpm, sleepCmds, sleepMode, lastAnswer>>

-----------------------------------------------------------------------------
(* Low power mode. *)

\* Mutant of SetLpmMode: the level is not recorded.
SetLpmMode_Unrecorded(a) ==
  /\ UNCHANGED upio_lpm
  /\ \/ a = "ASSERT" /\ timer_created' = TRUE /\ UNCHANGED <<armed, hold>>
     \/ a = "DEASSERT" /\ DeleteTimer

\* Mutant of SetLpmMode: the timer is not created.
SetLpmMode_NoTimer(a) ==
  /\ upio_lpm' = a
  /\ IF a = "DEASSERT" THEN DeleteTimer ELSE UNCHANGED timerVars

\* upio_set(UPIO_LPM_MODE, a).  The level is recorded before the node is
\* opened, so a failed call is not made again.
SetLpmMode(a) ==
  IF upio_lpm = a THEN UNCHANGED <<upio_lpm, timerVars>>
  ELSE /\ upio_lpm' = a
       /\ \/ /\ a = "ASSERT" /\ timer_created' = TRUE
             /\ UNCHANGED <<armed, hold>>
          \/ a = "DEASSERT" /\ DeleteTimer
          \/ NodesMayFail /\ UNCHANGED timerVars

\* Mutant of hw_lpm_enable: lpm_cb is not called when xmit_cb refuses.
hw_lpm_enable_Silent(a) ==
  /\ MayAskLpm
  /\ a = "DEASSERT" => Withdrawn
  /\ SetLpmMode(a) /\ owed' = owed + 1 /\ UNCHANGED lastAnswer
  /\ sleepCmds' = Append(sleepCmds, a) \/ UNCHANGED sleepCmds
  /\ UNCHANGED <<setting, cbacks, upio_wake, btwrite_active, line, quiet, callVars,
                 sleepMode, late>>

\* The command carries lpm_param, or zeros.
\* alloc fails; or xmit_cb accepts the command; or it refuses it.
hw_lpm_enable(a) ==
  /\ MayAskLpm
  /\ a = "DEASSERT" => Withdrawn
  /\ \/ lastAnswer' = "FAIL" /\ UNCHANGED <<upio_lpm, timerVars, sleepCmds, owed>>
     \/ /\ SetLpmMode(a) /\ sleepCmds' = Append(sleepCmds, a) /\ owed' = owed + 1
        /\ UNCHANGED lastAnswer
     \/ /\ SetLpmMode(a) /\ lastAnswer' = "FAIL"
        /\ UNCHANGED <<sleepCmds, owed>>
  /\ UNCHANGED <<setting, cbacks, upio_wake, btwrite_active, line, quiet, callVars,
                 sleepMode, late>>

\* Mutant of hw_lpm_ctrl_cback: lpm_cb is called twice on success.
hw_lpm_ctrl_cback_Twice ==
  /\ sleepCmds # <<>> /\ sleepCmds' = Tail(sleepCmds)
  /\ late = 0 /\ owed' = owed - 2 /\ lastAnswer' = "SUCCESS"
  /\ UNCHANGED <<setting, cbacks, upio_wake, upio_lpm, btwrite_active, line, quiet,
                 timerVars, callVars, sleepMode, late>>

\* The controller answers the oldest command.  lpm_cb is called if there is a
\* session, but answers a request of this session only if this one sent it.
hw_lpm_ctrl_cback ==
  /\ sleepCmds # <<>> /\ sleepCmds' = Tail(sleepCmds)
  /\ \E status \in {"SUCCESS", "FAIL"} :
       /\ sleepMode' = IF status = "FAIL" THEN sleepMode
                       ELSE IF Head(sleepCmds) = "ASSERT" THEN SleepMode ELSE 0
       /\ \/ late > 0 /\ late' = late - 1 /\ UNCHANGED <<lastAnswer, owed>>
          \/ /\ cbacks /\ late = 0 /\ UNCHANGED late
             /\ lastAnswer' = status /\ owed' = owed - 1
  /\ UNCHANGED <<setting, cbacks, upio_wake, upio_lpm, btwrite_active, line, quiet,
                 timerVars, callVars>>

-----------------------------------------------------------------------------
(* upio_set(UPIO_BT_WAKE, act[t]), run by thread t. *)

hw_lpm_set_wake_state(a) ==
  /\ HostMayCall
  /\ Orderly /\ a = "ASSERT" => upio_lpm = "ASSERT"
  /\ Call("host", a) /\ Goto("host", "check")
  /\ quiet' = IF a = "ASSERT" THEN 0 ELSE quiet
  /\ UNCHANGED <<setting, cbacks, upio_wake, btwrite_active, line, timerVars, lpmVars>>

CheckLevel(t) ==
  /\ At(t, "check")
  /\ Goto(t, IF upio_wake = act[t] /\ btwrite_active THEN "idle" ELSE "set")
  /\ UNCHANGED <<setting, cbacks, upio_wake, btwrite_active, line, quiet, timerVars,
                 act, lpmVars>>

SetLevel(t) ==
  /\ At(t, "set") /\ upio_wake' = act[t]
  /\ Goto(t, IF act[t] = "DEASSERT" /\ ~NotifyDeassert THEN "idle" ELSE "write")
  /\ UNCHANGED <<setting, cbacks, btwrite_active, line, quiet, timerVars, act, lpmVars>>

\* The node is opened and written; or open() fails, and upio_set returns; or
\* write() fails, and the timer is left alone.
WriteNode(t) ==
  /\ At(t, "write")
  /\ \/ /\ line' = IF act[t] = "ASSERT" THEN KernelTicks ELSE 0
        /\ Goto(t, "arm")
     \/ /\ NodesMayFail /\ UNCHANGED line
        /\ \/ Goto(t, "idle")
           \/ Goto(t, IF NotifyDeassert THEN "mark" ELSE "idle")
  /\ UNCHANGED <<setting, cbacks, upio_wake, btwrite_active, quiet, timerVars, act,
                 lpmVars>>

\* Mutant of ArmTimer: the timer is armed on the wrong action.
ArmTimer_Swapped(t) ==
  /\ At(t, "arm")
  /\ btwrite_active' = (act[t] = "ASSERT" \/ btwrite_active)
  /\ armed' = (act[t] = "DEASSERT" /\ timer_created)
  /\ hold'  = IF armed' THEN HoldTicks ELSE hold
  /\ Goto(t, IF NotifyDeassert THEN "mark" ELSE "idle")
  /\ UNCHANGED <<setting, cbacks, upio_wake, line, quiet, timer_created, act, lpmVars>>

\* upio_start_stop_timer.  With no timer there is nothing to arm.
ArmTimer(t) ==
  /\ At(t, "arm")
  /\ btwrite_active' = (act[t] = "ASSERT" \/ btwrite_active)
  /\ armed' = (act[t] = "ASSERT" /\ timer_created)
  /\ hold'  = IF armed' THEN HoldTicks ELSE hold
  /\ Goto(t, IF NotifyDeassert THEN "mark" ELSE "idle")
  /\ UNCHANGED <<setting, cbacks, upio_wake, line, quiet, timer_created, act, lpmVars>>

MarkActive(t) ==
  /\ At(t, "mark") /\ btwrite_active' = TRUE /\ Goto(t, "idle")
  /\ UNCHANGED <<setting, cbacks, upio_wake, line, quiet, timerVars, act, lpmVars>>

-----------------------------------------------------------------------------
(* The timer, and time. *)

\* The kernel starts a thread on proc_btwrite_timeout.
Expire ==
  /\ armed /\ hold = 0 /\ At("timer", "idle")
  /\ armed' = FALSE /\ Goto("timer", "timeout")
  /\ UNCHANGED <<setting, cbacks, upio_wake, btwrite_active, line, quiet, timer_created,
                 hold, act, lpmVars>>

\* Mutant of proc_btwrite_timeout: it clears the flag only.
proc_btwrite_timeout_FlagOnly ==
  /\ At("timer", "timeout") /\ btwrite_active' = FALSE /\ Goto("timer", "idle")
  /\ UNCHANGED <<setting, cbacks, upio_wake, line, quiet, timerVars, act, lpmVars>>

proc_btwrite_timeout ==
  /\ At("timer", "timeout") /\ btwrite_active' = FALSE
  /\ Call("timer", "DEASSERT") /\ Goto("timer", "check")
  /\ UNCHANGED <<setting, cbacks, upio_wake, line, quiet, timerVars, lpmVars>>

\* A due timer expires, and a call returns, before the next tick.
Tick ==
  /\ \A t \in Thread : At(t, "idle")
  /\ armed => hold > 0
  /\ hold'  = IF armed THEN hold - 1 ELSE hold
  /\ line'  = IF line > 0 THEN line - 1 ELSE 0
  /\ quiet' = IF quiet < HoldTicks THEN quiet + 1 ELSE quiet
  /\ UNCHANGED <<setting, cbacks, upio_wake, btwrite_active, timer_created, armed,
                 callVars, lpmVars>>

upio_set(t) == CheckLevel(t) \/ SetLevel(t) \/ WriteNode(t) \/ ArmTimer(t)
               \/ MarkActive(t)

HostStep ==
  \/ VendorInit \/ VendorCleanup
  \/ \E a \in {"ASSERT", "DEASSERT"} : hw_lpm_enable(a) \/ hw_lpm_set_wake_state(a)

Next == \/ HostStep \/ hw_lpm_ctrl_cback \/ Expire \/ proc_btwrite_timeout
        \/ Tick \/ \E t \in Thread : upio_set(t)

Spec == Init /\ [][Next]_vars

\* Threads inside a call run, a due timer expires, and time passes: the host
\* does not call without end between two ticks.
FairSpec == /\ Spec /\ \A t \in Thread : WF_vars(upio_set(t))
            /\ WF_vars(Expire) /\ WF_vars(proc_btwrite_timeout) /\ SF_vars(Tick)

-----------------------------------------------------------------------------
(* Properties. *)

\* Type invariant.
TypeOK ==
  /\ setting \in Settings
  /\ {cbacks, btwrite_active, timer_created, armed} \subseteq BOOLEAN
  /\ upio_wake \in Level /\ upio_lpm \in Level
  /\ hold \in 0..HoldTicks /\ line \in 0..KernelTicks /\ quiet \in 0..HoldTicks
  /\ pc \in [Thread -> {"idle", "timeout", "check", "set", "write", "arm", "mark"}]
  /\ act \in [Thread -> {"DEASSERT", "ASSERT"}]
  /\ sleepCmds \in Seq({"DEASSERT", "ASSERT"}) /\ late \in Nat /\ owed \in Nat
  /\ sleepMode \in 0..1 /\ lastAnswer \in {"none", "SUCCESS", "FAIL"}

\* An orderly host, working nodes, and deassertions that are not notified.
Sound == Orderly /\ ~NodesMayFail /\ ~NotifyDeassert

\* upio_set swallows a request to assert BT_WAKE only while the kernel still
\* keeps the line asserted from an earlier write (upio.c 447-462): the btwrite
\* timer, which is the shorter one (74-76), must have cleared btwrite_active
\* before the kernel gives up.
NothingLost ==
  (\A t \in Thread : At(t, "idle")) /\ upio_wake = "ASSERT" /\ btwrite_active =>
    line > 0
NoLostAssert == Sound => NothingLost

\* What is left of the kernel's 10 s when the 8 s of the btwrite timer are over
\* is what every call to assert BT_WAKE is good for, also one that upio_set
\* swallows: the line stays asserted that long (upio.c 74-79, 447-462).
AssertLasts ==
  /\ Sound /\ At("host", "idle") /\ act["host"] = "ASSERT"
  /\ quiet < HoldTicks /\ quiet + HoldTicks < KernelTicks
  => line > 0

\* The same where deassertions are notified.
NoLostAssertNotified == Orderly /\ ~NodesMayFail => NothingLost

\* upio_start_stop_timer calls timer_settime without looking whether a timer
\* was created (230); that one exists follows only from LPM being on.
ArmsExistingTimer == Sound => \A t \in Thread : At(t, "arm") => timer_created

\* Whatever the host does and whatever fails, an armed timer can be deleted,
\* and none outlives cleanup (270-275, 404-408): proc_btwrite_timeout must not
\* be called into a library that was unloaded.
TimerOwned == armed => timer_created /\ cbacks

\* Every LPM_SET_MODE is answered once by lpm_cb, at once or when its command
\* completes (hardware.c 941-956, 1206-1214); what a session gets beyond that
\* are late answers to requests of the sessions before.
LpmAnsweredOnce == owed + late = Len(sleepCmds)

\* After lpm_cb(SUCCESS) to a host that waits for it, and does not take a late
\* answer for it, the controller's sleep mode is the build's just when the
\* library thinks LPM is on.
LpmAgreement ==
  Orderly /\ cbacks /\ lastAnswer = "SUCCESS" /\ sleepCmds = <<>> =>
    sleepMode = IF upio_lpm = "ASSERT" THEN SleepMode ELSE 0

\* LPM is not left asserted where the timer is armed: it withdraws what the
\* host does not (upio.c 207-214), unless the host has it deleted.
NeverLeftAsserted ==
  upio_wake = "ASSERT" /\ armed /\ ~NotifyDeassert ~>
    upio_wake # "ASSERT" \/ ~timer_created

\* "this timer should fire only when BT is awake" (upio.c:201).
FiresOnlyAwake == [][Expire => upio_wake = "ASSERT"]_vars

\* "The proc btwrite node could have not been updated for certain time [...]
\* In this case, we want to explicity touch proc btwrite node to keep the
\* bt_wake assertion" (upio.c:454-461): a host that keeps asserting keeps the
\* timer from expiring.  An assertion made at the very tick is not counted.
HoldsWhileKicked == [][Expire => quiet = 0 \/ quiet >= HoldTicks]_vars
=============================================================================
