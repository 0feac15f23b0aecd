------------------------------- MODULE VendorPort -------------------------------
(***************************************************************************)
(* The library's hold on the controller over the life of a host, and over  *)
(* its crashes: power by rfkill (upio_set_bluetooth_power), the serial     *)
(* port (userial_vendor.c), BT_WAKE in the builds without proc nodes, and  *)
(* the epilog.  hw_config_start is represented by the change of speed it   *)
(* leads to; HwConfig has its steps.                                       *)
(*                                                                         *)
(* When the host crashes the library loses its variables; the controller   *)
(* keeps its power, its speed and the level of BT_WAKE.                    *)
(*                                                                         *)
(* A behaviour keeps the setting it starts in.                             *)
(***************************************************************************)
EXTENDS Integers

CONSTANTS
  Settings,      \* the settings considered
  MaxId,         \* rfkill numbers go up to MaxId
  MaxFds,        \* descriptors of the port the host lets be open
  MaxEpilogs     \* epilogs the host asks for before one is answered

\* emul:     the emulator (ro.boot.qemu)
\* disabled: rfkill is not used (ro.rfkilldisabled)
\* fails:    open() and write() of rfkill nodes may fail
\* moves:    the Bluetooth radio may be registered anew, under a higher number
\* others:   the numbers of the other radios
\* ioctl:    BT_WAKE_VIA_USERIAL_IOCTL
\* reset:    HW_END_WITH_HCI_RESET
\* orderly:  the host switches power on and opens the port once after init,
\*           configures the firmware once after that, waits for answers, and
\*           closes the port before it switches power off or cleans up
\* crash:    the host may crash
Setting == [emul: BOOLEAN, disabled: BOOLEAN, fails: BOOLEAN, moves: BOOLEAN,
            others: SUBSET Nat, ioctl: BOOLEAN, reset: BOOLEAN,
            orderly: BOOLEAN, crash: BOOLEAN]

ASSUME SettingsAssumption == Settings \subseteq Setting
ASSUME BoundsAssumption   == MaxId \in Nat /\ MaxFds \in Nat \ {0} /\ MaxEpilogs \in Nat \ {0}

Speed == {"115200", "target"}

VARIABLES
  setting,
  cbacks,          \* bt_vendor_cbacks # NULL
  bt,              \* the number of the Bluetooth radio
  power,           \* rfkill_id, bt_emul_enable; the controller's power and speed
  fd,              \* vnd_userial.fd: 0 as loaded, -1, or "port"
  openFds,         \* the descriptors of the port that are open
  stdin,           \* the process's descriptor 0 is open
  hostBaud,        \* the speed of the port
  upio_wake,       \* upio_state[UPIO_BT_WAKE]
  line,            \* BT_WAKE is asserted
  cfg,             \* the change of speed: none, asked for, or acknowledged
  stage,           \* how far the host got since init
  epilogs,         \* epilog commands in flight
  due              \* epilogs asked for and not answered since init

portVars   == <<fd, openFds, stdin, hostBaud>>
wakeVars   == <<upio_wake, line>>
epilogVars == <<epilogs, due>>
vars == <<setting, cbacks, bt, power, cfg, stage, portVars, wakeVars, epilogVars>>

Power == [rfkill_id: Nat \cup {-1}, bt_emul_enable: BOOLEAN,
          powered: BOOLEAN, baud: Speed]

Unloaded == 0
NoFd     == -1
Port     == 1

Orderly == setting.orderly

Init ==
  /\ setting \in Settings
  /\ bt \in (0..MaxId) \ setting.others
  /\ \E baud \in Speed, on \in BOOLEAN :
       power = [rfkill_id |-> -1, bt_emul_enable |-> FALSE, powered |-> on, baud |-> baud]
  /\ cbacks = FALSE /\ stage = "down" /\ cfg = "none"
  /\ fd = Unloaded /\ openFds = 0 /\ stdin = TRUE /\ hostBaud = "115200"
  /\ upio_wake = "UNKNOWN" /\ line = FALSE
  /\ epilogs = 0 /\ due = 0

\* The host's next call: an orderly host makes it between init and cleanup,
\* at one of some stages and with no answer due.
MayCall(stages) == Orderly => cbacks /\ stage \in stages /\ cfg = "none" /\ due = 0
Reach(s) == stage' = s

-----------------------------------------------------------------------------
(* init and cleanup. *)

\* Mutant of VendorInit: upio_init keeps the levels.
VendorInit_KeepsLevel ==
  /\ ~cbacks /\ cbacks' = TRUE /\ Reach("init")
  /\ fd' = NoFd /\ due' = 0
  /\ UNCHANGED <<setting, bt, power, cfg, openFds, stdin, hostBaud, wakeVars,
                 epilogs>>

VendorInit ==
  /\ ~cbacks /\ cbacks' = TRUE /\ Reach("init")
  /\ fd' = NoFd /\ upio_wake' = "UNKNOWN" /\ due' = 0
  /\ UNCHANGED <<setting, bt, power, cfg, openFds, stdin, hostBaud, line, epilogs>>

VendorCleanup ==
  /\ cbacks /\ MayCall({"init", "on", "closed", "off"})
  /\ cbacks' = FALSE /\ Reach("down")
  /\ UNCHANGED <<setting, bt, power, cfg, portVars, wakeVars, epilogVars>>

\* The process ends: its descriptors are closed, its commands forgotten.
Crash ==
  /\ setting.crash /\ cbacks' = FALSE /\ Reach("down") /\ cfg' = "none"
  /\ power' = [power EXCEPT !.rfkill_id = -1, !.bt_emul_enable = FALSE]
  /\ fd' = Unloaded /\ openFds' = 0 /\ stdin' = TRUE
  /\ upio_wake' = "UNKNOWN"
  /\ epilogs' = 0 /\ due' = 0
  /\ UNCHANGED <<setting, bt, hostBaud, line>>

-----------------------------------------------------------------------------
(* BT_WAKE. *)

\* Without the ioctl, or a port to make it on, nothing happens.
userial_vendor_ioctl(action) ==
  line' = IF setting.ioctl /\ fd = Port THEN action = "ASSERT" ELSE line

\* upio_set on BT_WAKE, where it does not use proc nodes.
upio_set(action) ==
  /\ upio_wake' = action
  /\ IF upio_wake = action THEN UNCHANGED line ELSE userial_vendor_ioctl(action)

LpmWakeSetState(action) ==
  /\ MayCall({"open", "up"}) /\ upio_set(action)
  /\ UNCHANGED <<setting, cbacks, bt, power, cfg, stage, portVars, epilogVars>>

-----------------------------------------------------------------------------
(* Power. *)

is_emulator_context == setting.emul
is_rfkill_disabled  == setting.disabled

\* Mutant of init_rfkill: the first radio is taken, whatever its type.
init_rfkill_AnyType == {i \in setting.others \cup {bt} : 0..(i - 1) = {}}

\* The number init_rfkill finds: it stops at the first number that is not in
\* use.
init_rfkill == {i \in {bt} : 0..(i - 1) \subseteq setting.others}

\* A write to a radio's state node.  Powering up starts the controller anew.
Write(p, on) ==
  IF p.rfkill_id # bt THEN p
  ELSE [p EXCEPT !.powered = on,
                 !.baud = IF on /\ p.powered THEN p.baud ELSE "115200"]

\* The outcomes of upio_set_bluetooth_power, whose result is not looked at.
upio_set_bluetooth_power(p, on) ==
  LET ids   == IF p.rfkill_id = -1 THEN init_rfkill ELSE {p.rfkill_id}
      known == {[p EXCEPT !.rfkill_id = i] : i \in ids}
  IN  CASE is_emulator_context -> {[p EXCEPT !.bt_emul_enable = on]}
        [] is_rfkill_disabled /\ ~is_emulator_context -> {p}
        [] OTHER -> {Write(q, on) : q \in known}
                    \cup (IF ids = {} \/ setting.fails THEN {p} \cup known ELSE {})

\* A controller without power loses the command it was sent.
Lose == cfg' = IF cfg = "sent" /\ ~power'.powered THEN "none" ELSE cfg

\* Mutant of PowerOn: power is not switched off first.
PowerOn_Directly ==
  /\ MayCall({"init"}) /\ Reach("on")
  /\ power' \in upio_set_bluetooth_power(power, TRUE) /\ Lose
  /\ UNCHANGED <<setting, cbacks, bt, portVars, wakeVars, epilogVars>>

PowerOn ==
  /\ MayCall({"init"}) /\ Reach("on")
  /\ \E off \in upio_set_bluetooth_power(power, FALSE) :
       power' \in upio_set_bluetooth_power(off, TRUE)
  /\ Lose
  /\ UNCHANGED <<setting, cbacks, bt, portVars, wakeVars, epilogVars>>

PowerOff ==
  /\ MayCall({"on", "closed"}) /\ Reach("off")
  /\ power' \in upio_set_bluetooth_power(power, FALSE) /\ Lose
  /\ upio_set("DEASSERT")
  /\ UNCHANGED <<setting, cbacks, bt, portVars, epilogVars>>

\* The radio's driver registers it anew; numbers are not used twice.
Move ==
  /\ setting.moves /\ \E i \in (bt + 1)..MaxId : i \notin setting.others /\ bt' = i
  /\ UNCHANGED <<setting, cbacks, power, cfg, stage, portVars, wakeVars, epilogVars>>

-----------------------------------------------------------------------------
(* The serial port. *)

\* The format, 8N1, is left out.
userial_init_cfg == [baud |-> "115200"]

\* Mutant of UserialOpen: BT_WAKE is not asserted.
UserialOpen_Asleep ==
  /\ MayCall({"on"}) /\ openFds < MaxFds /\ Reach("open")
  /\ \/ fd' = NoFd /\ UNCHANGED <<openFds, hostBaud>>
     \/ fd' = Port /\ openFds' = openFds + 1 /\ hostBaud' = userial_init_cfg.baud
  /\ UNCHANGED <<setting, cbacks, bt, power, cfg, stdin, wakeVars, epilogVars>>

\* The ioctl build asserts BT_WAKE without upio_set.
userial_ioctl_init_bt_wake == line' = (setting.ioctl \/ line)

\* userial_vendor_open forgets the descriptor it had.  open() may fail.
UserialOpen ==
  /\ MayCall({"on"}) /\ openFds < MaxFds /\ Reach("open")
  /\ \/ fd' = NoFd /\ UNCHANGED <<openFds, hostBaud, line>>
     \/ /\ fd' = Port /\ openFds' = openFds + 1 /\ hostBaud' = userial_init_cfg.baud
        /\ userial_ioctl_init_bt_wake
  /\ UNCHANGED <<setting, cbacks, bt, power, cfg, stdin, upio_wake, epilogVars>>

CloseFrame ==
  UNCHANGED <<setting, cbacks, bt, power, cfg, upio_wake, hostBaud, epilogVars>>

\* Mutant of UserialClose: the descriptor is forgotten before close().
UserialClose_Forgets ==
  /\ MayCall({"open", "up"}) /\ Reach("closed") /\ CloseFrame
  /\ fd' = NoFd /\ line' = IF fd = Port /\ setting.ioctl THEN FALSE ELSE line
  /\ UNCHANGED <<openFds, stdin>>

\* Mutant of UserialClose: BT_WAKE is left as it is.
UserialClose_Awake ==
  /\ MayCall({"open", "up"}) /\ Reach("closed") /\ fd' = NoFd /\ CloseFrame
  /\ openFds' = IF fd = Port THEN openFds - 1 ELSE openFds
  /\ UNCHANGED <<line, stdin>>

\* Mutant of UserialClose: no early return without a port.
UserialClose_Twice ==
  /\ MayCall({"open", "up"}) /\ Reach("closed") /\ fd' = NoFd /\ CloseFrame
  /\ openFds' = openFds - 1 /\ line' = (line /\ ~setting.ioctl) /\ UNCHANGED stdin

\* Without a port it returns; but vnd_userial is a static, and until the first
\* init its descriptor is 0, which is closed as if it were the port's.
UserialClose ==
  /\ MayCall({"open", "up"}) /\ Reach("closed") /\ fd' = NoFd /\ CloseFrame
  /\ \/ fd = NoFd /\ UNCHANGED <<openFds, line, stdin>>
     \/ fd = Unloaded /\ stdin' = FALSE /\ UNCHANGED <<openFds, line>>
     \/ /\ fd = Port /\ openFds' = openFds - 1 /\ UNCHANGED stdin
        /\ line' = (line /\ ~setting.ioctl)

-----------------------------------------------------------------------------
(* The firmware configuration, as a change of speed. *)

InStep == power.powered /\ hostBaud = power.baud

\* A controller that hears the first command may be asked to change its speed.
FwCfg ==
  /\ MayCall({"open"}) /\ fd = Port /\ cfg = "none" /\ Reach("up")
  /\ cfg' = IF cbacks /\ InStep THEN "sent" ELSE "none"
  /\ UNCHANGED <<setting, cbacks, bt, power, portVars, wakeVars, epilogVars>>

\* The controller acknowledges UPDATE_BAUDRATE, and changes its speed; or the
\* configuration ends without.
CtrlSwitch ==
  /\ cfg = "sent"
  /\ \/ cfg' = "acknowledged" /\ power' = [power EXCEPT !.baud = "target"]
     \/ cfg' = "none" /\ UNCHANGED power
  /\ UNCHANGED <<setting, cbacks, bt, stage, portVars, wakeVars, epilogVars>>

\* hw_config_cback follows, if there is a port, and callbacks.
HostSwitch ==
  /\ cfg = "acknowledged" /\ cfg' = "none"
  /\ hostBaud' = IF cbacks /\ fd = Port THEN "target" ELSE hostBaud
  /\ UNCHANGED <<setting, cbacks, bt, power, stage, fd, openFds, stdin, wakeVars,
                 epilogVars>>

-----------------------------------------------------------------------------
(* The epilog. *)

EpilogElsewhere ==
  UNCHANGED <<setting, cbacks, bt, power, cfg, stage, portVars, wakeVars>>

\* Mutant of hw_epilog_process: epilog_cb is called at once as well.
hw_epilog_process_Both ==
  /\ MayCall({"open", "up"}) /\ epilogs < MaxEpilogs /\ EpilogElsewhere
  /\ UNCHANGED due /\ epilogs' = IF setting.reset /\ cbacks THEN epilogs + 1 ELSE epilogs

\* Without HW_END_WITH_HCI_RESET, without callbacks and without a buffer,
\* nothing is sent, and no answer stays due.  A refused command is forgotten.
hw_epilog_process ==
  /\ MayCall({"open", "up"}) /\ epilogs < MaxEpilogs /\ EpilogElsewhere
  /\ \/ UNCHANGED epilogVars
     \/ /\ setting.reset /\ cbacks /\ due < MaxEpilogs /\ due' = due + 1
        /\ \/ epilogs' = epilogs + 1
           \/ setting.fails /\ UNCHANGED epilogs

\* Mutant of hw_epilog_cback: the caller is not notified.
hw_epilog_cback_Silent ==
  /\ epilogs > 0 /\ epilogs' = epilogs - 1 /\ UNCHANGED due
  /\ EpilogElsewhere

\* The event is dropped when there are no callbacks any more.
hw_epilog_cback ==
  /\ epilogs > 0 /\ epilogs' = epilogs - 1
  /\ due' = IF cbacks THEN due - 1 ELSE due
  /\ EpilogElsewhere

-----------------------------------------------------------------------------
Next ==
  \/ VendorInit \/ VendorCleanup \/ Crash \/ Move
  \/ PowerOn \/ PowerOff \/ UserialOpen \/ UserialClose
  \/ FwCfg \/ CtrlSwitch \/ HostSwitch
  \/ hw_epilog_process \/ hw_epilog_cback
  \/ \E action \in {"ASSERT", "DEASSERT"} : LpmWakeSetState(action)

Spec == Init /\ [][Next]_vars

\* The HCI library delivers the answers to the commands it took.
FairSpec == Spec /\ WF_vars(hw_epilog_cback)

-----------------------------------------------------------------------------
(* Properties. *)

\* Type invariant.
TypeOK ==
  /\ setting \in Settings /\ cbacks \in BOOLEAN
  /\ bt \in Nat /\ power \in Power
  /\ fd \in {Unloaded, NoFd, Port} /\ openFds \in Nat /\ hostBaud \in Speed
  /\ stdin \in BOOLEAN
  /\ upio_wake \in {"UNKNOWN", "DEASSERT", "ASSERT"} /\ line \in BOOLEAN
  /\ cfg \in {"none", "sent", "acknowledged"}
  /\ stage \in {"down", "init", "on", "open", "up", "closed", "off"}
  /\ epilogs \in Nat /\ due \in Int

\* Rfkill reaches the controller, and does what it is told.
Steady ==
  /\ ~setting.emul /\ ~setting.disabled /\ ~setting.fails /\ ~setting.moves
  /\ 0..(bt - 1) \subseteq setting.others

\* However the last host ended, also in the middle of a change of speed, the
\* controller has power and the speed of the port when its firmware is to be
\* configured: what BT_VND_PWR_ON "now forces power-off first" is for
\* (bt_vendor_nordic.c 134-138).
StartsInStep == Orderly /\ Steady /\ stage = "open" /\ fd = Port => InStep

\* The number that is remembered is never that of another radio: Bluetooth's
\* power does not switch WLAN off (upio.c 157-171, 318-323).
SwitchesBluetoothOnly == power.rfkill_id \notin setting.others

\* Whoever asked for BT_WAKE has it while a port is open, also when the port
\* was opened later, or again (upio.c 446-478, userial_vendor.c 159-160).
WakeHeard ==
  setting.ioctl /\ upio_wake = "ASSERT" /\ fd = Port => line

\* To an orderly host the recorded level is the line's, although
\* userial_vendor_open asserts it behind upio_set: a request that is dropped as
\* "already" done is done.
WakeAgreement ==
  Orderly /\ setting.ioctl /\ fd = Port /\ upio_wake # "UNKNOWN"
    => (line <=> upio_wake = "ASSERT")

\* A host that does not crash leaves BT_WAKE deasserted when it closes the
\* port: the controller may sleep (userial_vendor.c 293-296).
ClosedReleases ==
  Orderly /\ setting.ioctl /\ ~setting.crash /\ fd # Port => ~line

\* The port is open exactly while its descriptor is remembered, although init
\* and userial_vendor_open overwrite it (userial_vendor.c 174, 200); and no
\* other descriptor is closed in its place (290-304).
NoFdLost == Orderly => stdin /\ openFds = IF fd = Port THEN 1 ELSE 0

\* An orderly host gets at most one answer to an epilog, and none it did not
\* ask for since init (hardware.c 1587-1597).
EpilogAnsweredOnce == Orderly => 0 <= epilogs /\ epilogs <= due /\ due <= 1

\* "Once epilog process is done, must call epilog_cb callback to notify
\* caller" (hardware.c 1594).
EpilogAnswered == Orderly /\ due > 0 ~> due = 0

\* The same where the HCI library refuses no command.
EpilogTakenAnswered == Orderly /\ ~setting.fails /\ due > 0 ~> due = 0
=============================================================================
