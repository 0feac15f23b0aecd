---------------------------- MODULE VendorPortProofs ----------------------------
(***************************************************************************)
(* Theorems about VendorPort, for every setting and every number of radios *)
(* and of descriptors.                                                     *)
(***************************************************************************)
EXTENDS VendorPort, TLAPS

-----------------------------------------------------------------------------
(* What upio_set_bluetooth_power may do.                                   *)

LEMMA PowerTypes ==
  ASSUME NEW p \in Power, NEW on \in BOOLEAN, bt \in Nat,
         NEW q \in upio_set_bluetooth_power(p, on)
  PROVE  q \in Power /\ q.rfkill_id \in {p.rfkill_id, bt}
<1> DEFINE ids   == IF p.rfkill_id = -1 THEN init_rfkill ELSE {p.rfkill_id}
           known == {[p EXCEPT !.rfkill_id = i] : i \in ids}
<1>1. \A i \in ids : i \in {p.rfkill_id, bt}
  BY DEF init_rfkill
<1>2. \A k \in known : k \in Power /\ k.rfkill_id \in {p.rfkill_id, bt}
  BY <1>1 DEF Power
<1>3. \A k \in known :
        Write(k, on) \in Power /\ Write(k, on).rfkill_id \in {p.rfkill_id, bt}
  BY <1>2 DEF Write, Power, Speed
<1>4. [p EXCEPT !.bt_emul_enable = on] \in Power
      /\ [p EXCEPT !.bt_emul_enable = on].rfkill_id = p.rfkill_id
  BY DEF Power
<1>5. \/ q = [p EXCEPT !.bt_emul_enable = on]
      \/ q = p
      \/ q \in known
      \/ \E k \in known : q = Write(k, on)
  BY DEF upio_set_bluetooth_power
<1> QED
  BY <1>2, <1>3, <1>4, <1>5

\* Where rfkill works, the controller does what it is told, and forgets its
\* speed when it is switched off.
LEMMA PowerWorks ==
  ASSUME NEW p \in Power, NEW on \in BOOLEAN, bt \in Nat, Steady,
         p.rfkill_id \in {-1, bt},
         NEW q \in upio_set_bluetooth_power(p, on)
  PROVE  /\ q.rfkill_id = bt /\ q.powered = on
         /\ ~on \/ ~p.powered => q.baud = "115200"
<1> DEFINE ids   == IF p.rfkill_id = -1 THEN init_rfkill ELSE {p.rfkill_id}
           known == {[p EXCEPT !.rfkill_id = i] : i \in ids}
<1>1. ids = {bt}
  BY DEF init_rfkill, Steady
<1>2. known = {[p EXCEPT !.rfkill_id = bt]}
  BY <1>1
<1>3. q \in {Write(k, on) : k \in known}
  <2>1. upio_set_bluetooth_power(p, on) =
          {Write(k, on) : k \in known}
          \cup (IF ids = {} \/ setting.fails THEN {p} \cup known ELSE {})
    BY DEF upio_set_bluetooth_power, Steady, is_emulator_context,
           is_rfkill_disabled
  <2>2. ~(ids = {} \/ setting.fails)
    BY <1>1 DEF Steady
  <2> QED
    BY <2>1, <2>2
<1>4. q = Write([p EXCEPT !.rfkill_id = bt], on)
  BY <1>2, <1>3
<1>5. [p EXCEPT !.rfkill_id = bt].rfkill_id = bt
      /\ [p EXCEPT !.rfkill_id = bt].powered = p.powered
  BY DEF Power
<1> QED
  BY <1>4, <1>5 DEF Write, Power

-----------------------------------------------------------------------------
(* Types.                                                                  *)

TypeInv == TypeOK /\ (fd = Port => openFds > 0)

LEMMA TypeStep == TypeInv /\ [Next]_vars => TypeInv'
<1> SUFFICES ASSUME TypeInv, [Next]_vars PROVE TypeInv'
  OBVIOUS
<1> USE DEF TypeInv, TypeOK, portVars, wakeVars, epilogVars, Reach, Unloaded, NoFd, Port
<1>1. CASE VendorInit
  BY <1>1 DEF VendorInit
<1>12. CASE VendorCleanup
  BY <1>12 DEF VendorCleanup
<1>2. CASE Crash
  <2>1. power' \in Power
    BY <1>2 DEF Crash, Power
  <2>2. /\ cbacks' = FALSE /\ stage' = "down" /\ cfg' = "none" /\ fd' = 0
        /\ openFds' = 0 /\ stdin' = TRUE /\ upio_wake' = "UNKNOWN" /\ epilogs' = 0
        /\ due' = 0
        /\ UNCHANGED <<setting, bt, hostBaud, line>>
    BY <1>2 DEF Crash
  <2>3. cbacks' \in BOOLEAN /\ line' \in BOOLEAN /\ stdin' \in BOOLEAN
    BY <2>2
  <2>4. /\ fd' \in {Unloaded, NoFd, Port} /\ openFds' \in Nat
        /\ epilogs' \in Nat /\ due' \in Int
    BY <2>2
  <2> QED
    BY <2>1, <2>2, <2>3, <2>4
<1>3. CASE Move
  <2>1. bt' \in Nat
    BY <1>3 DEF Move
  <2> QED
    BY <1>3, <2>1 DEF Move
<1>4. CASE PowerOn
  <2>1. PICK off \in upio_set_bluetooth_power(power, FALSE) :
          power' \in upio_set_bluetooth_power(off, TRUE)
    BY <1>4 DEF PowerOn
  <2>2. off \in Power
    BY PowerTypes
  <2>3. power' \in Power
    BY <2>1, <2>2, PowerTypes
  <2> QED
    BY <1>4, <2>3 DEF PowerOn, Lose
<1>5. CASE PowerOff
  <2>1. power' \in Power
    BY <1>5, PowerTypes DEF PowerOff
  <2>2. line' \in BOOLEAN /\ upio_wake' = "DEASSERT"
    BY <1>5 DEF PowerOff, upio_set, userial_vendor_ioctl
  <2> QED
    BY <1>5, <2>1, <2>2 DEF PowerOff, Lose
<1>6. CASE UserialOpen
  <2>1. line' \in BOOLEAN
    BY <1>6 DEF UserialOpen, userial_init_cfg, userial_ioctl_init_bt_wake
  <2> QED
    BY <1>6, <2>1 DEF UserialOpen, userial_init_cfg, userial_ioctl_init_bt_wake, Speed
<1>7. CASE UserialClose
  <2>1. openFds' \in Nat
    BY <1>7 DEF UserialClose, CloseFrame
  <2>2. line' \in BOOLEAN /\ stdin' \in BOOLEAN
    BY <1>7 DEF UserialClose, CloseFrame
  <2> QED
    BY <1>7, <2>1, <2>2 DEF UserialClose, CloseFrame
<1>8. CASE FwCfg \/ CtrlSwitch \/ HostSwitch
  <2>1. CASE FwCfg
    BY <2>1 DEF FwCfg
  <2>2. CASE CtrlSwitch
    <3>1. power' \in Power
      BY <2>2 DEF CtrlSwitch, Power, Speed
    <3> QED
      BY <2>2, <3>1 DEF CtrlSwitch
  <2>3. CASE HostSwitch
    BY <2>3 DEF HostSwitch, Speed
  <2> QED
    BY <1>8, <2>1, <2>2, <2>3
<1>9. CASE hw_epilog_process \/ hw_epilog_cback
  BY <1>9 DEF hw_epilog_process, hw_epilog_cback, EpilogElsewhere
<1>10. ASSUME NEW a \in {"ASSERT", "DEASSERT"}, LpmWakeSetState(a) PROVE TypeInv'
  <2>1. line' \in BOOLEAN /\ upio_wake' = a
    BY <1>10 DEF LpmWakeSetState, upio_set, userial_vendor_ioctl
  <2> QED
    BY <1>10, <2>1 DEF LpmWakeSetState
<1>11. CASE UNCHANGED vars
  BY <1>11 DEF vars
<1> QED
  BY <1>1, <1>2, <1>3, <1>4, <1>5, <1>6, <1>7, <1>8, <1>9, <1>10, <1>11,
     <1>12 DEF Next

LEMMA InitTypes == Init => TypeInv
<1> SUFFICES ASSUME Init PROVE TypeInv
  OBVIOUS
<1>1. bt \in Nat
  BY BoundsAssumption DEF Init
<1>2. power \in Power
  BY DEF Init, Power
<1>3. cbacks \in BOOLEAN /\ line \in BOOLEAN /\ stdin \in BOOLEAN
  BY DEF Init
<1>4. /\ fd \in {Unloaded, NoFd, Port} /\ openFds \in Nat
      /\ epilogs \in Nat /\ due \in Int
  BY DEF Init, Unloaded
<1> QED
  BY <1>1, <1>2, <1>3, <1>4 DEF Init, TypeInv, TypeOK, Speed, Unloaded, Port

\* Every variable keeps its type.
THEOREM TypeCorrect == Spec => []TypeOK
<1>1. TypeInv => TypeOK
  BY DEF TypeInv
<1> QED
  BY <1>1, InitTypes, TypeStep, PTL DEF Spec

-----------------------------------------------------------------------------
(* The radios.                                                             *)

RadioInv == TypeInv /\ SwitchesBluetoothOnly /\ bt \notin setting.others

LEMMA RadioStep == RadioInv /\ [Next]_vars => RadioInv'
<1> SUFFICES ASSUME RadioInv, [Next]_vars PROVE RadioInv'
  OBVIOUS
<1>0. TypeInv /\ TypeInv'
  BY TypeStep DEF RadioInv
<1>1. UNCHANGED setting
  BY DEF Next, vars, VendorInit, VendorCleanup, Crash, Move, PowerOn, PowerOff,
         UserialOpen, userial_init_cfg, UserialClose, CloseFrame,
         FwCfg, CtrlSwitch, HostSwitch,
         hw_epilog_process, hw_epilog_cback, EpilogElsewhere, LpmWakeSetState
<1>2. -1 \notin setting.others
  BY <1>0, SettingsAssumption DEF TypeInv, TypeOK, Setting
<1>3. /\ UNCHANGED bt \/ bt' \notin setting.others
      /\ power'.rfkill_id \in {power.rfkill_id, bt, -1}
  <2>1. CASE Move
    BY <2>1 DEF Move
  <2>2. CASE PowerOn
    <3>1. PICK off \in upio_set_bluetooth_power(power, FALSE) :
            power' \in upio_set_bluetooth_power(off, TRUE)
      BY <2>2 DEF PowerOn
    <3>2. off \in Power /\ off.rfkill_id \in {power.rfkill_id, bt}
      BY <1>0, PowerTypes DEF TypeInv, TypeOK
    <3>3. power'.rfkill_id \in {off.rfkill_id, bt}
      BY <1>0, <3>1, <3>2, PowerTypes DEF TypeInv, TypeOK
    <3> QED
      BY <2>2, <3>2, <3>3 DEF PowerOn
  <2>3. CASE PowerOff
    BY <1>0, <2>3, PowerTypes DEF PowerOff, TypeInv, TypeOK
  <2>4. CASE Crash
    BY <1>0, <2>4 DEF Crash, TypeInv, TypeOK, Power
  <2>5. CASE CtrlSwitch
    BY <1>0, <2>5 DEF CtrlSwitch, TypeInv, TypeOK, Power
  <2>6. CASE UNCHANGED <<bt, power>>
    BY <2>6
  <2> QED
    BY <2>1, <2>2, <2>3, <2>4, <2>5, <2>6
       DEF Next, vars, VendorInit, VendorCleanup, UserialOpen, userial_init_cfg,
           UserialClose, CloseFrame,
           FwCfg, HostSwitch, hw_epilog_process, hw_epilog_cback,
           EpilogElsewhere, LpmWakeSetState
<1> QED
  BY <1>0, <1>1, <1>2, <1>3 DEF RadioInv, SwitchesBluetoothOnly

\* Whatever fails, and however radios come and go, the library never switches
\* another radio than Bluetooth's.
THEOREM RadioCorrect == Spec => []SwitchesBluetoothOnly
<1>1. Init => RadioInv
  <2> SUFFICES ASSUME Init PROVE RadioInv
    OBVIOUS
  <2>1. -1 \notin setting.others
    BY SettingsAssumption DEF Init, Setting
  <2>2. power.rfkill_id = -1 /\ bt \notin setting.others
    BY DEF Init
  <2> QED
    BY <2>1, <2>2, InitTypes DEF RadioInv, SwitchesBluetoothOnly
<1>2. RadioInv => SwitchesBluetoothOnly
  BY DEF RadioInv
<1> QED
  BY <1>1, <1>2, RadioStep, PTL DEF Spec

-----------------------------------------------------------------------------
(* BT_WAKE, for every host.                                                *)

LEMMA HeardStep == WakeHeard /\ [Next]_vars => WakeHeard'
<1> SUFFICES ASSUME WakeHeard, [Next]_vars PROVE WakeHeard'
  OBVIOUS
<1> USE DEF WakeHeard, portVars, wakeVars, NoFd, Port, Unloaded
<1>1. ASSUME NEW a \in {"ASSERT", "DEASSERT"}, LpmWakeSetState(a)
      PROVE  WakeHeard'
  BY <1>1 DEF LpmWakeSetState, upio_set, userial_vendor_ioctl
<1>2. CASE PowerOff
  BY <1>2 DEF PowerOff, upio_set, userial_vendor_ioctl
<1>3. CASE UserialOpen
  <2>1. CASE fd' = NoFd
    BY <2>1
  <2>2. CASE fd' # NoFd
    <3>1. line' = (setting.ioctl \/ line) /\ UNCHANGED setting
      BY <1>3, <2>2 DEF UserialOpen, userial_init_cfg, userial_ioctl_init_bt_wake
    <3> QED
      BY <3>1
  <2> QED
    BY <2>1, <2>2
<1>4. CASE UserialClose
  BY <1>4 DEF UserialClose, CloseFrame
<1>5. CASE VendorInit \/ Crash
  BY <1>5 DEF VendorInit, Crash
<1>6. CASE UNCHANGED <<setting, fd, upio_wake, line>>
  BY <1>6
<1> QED
  BY <1>1, <1>2, <1>3, <1>4, <1>5, <1>6
     DEF Next, vars, VendorCleanup, Move, PowerOn, FwCfg, CtrlSwitch, HostSwitch,
         hw_epilog_process, hw_epilog_cback, EpilogElsewhere

\* In every order of opening, closing and asking, and after every crash, an
\* open port with BT_WAKE asked for has it.
THEOREM HeardCorrect == Spec => []WakeHeard
<1>1. Init => WakeHeard
  BY DEF Init, WakeHeard
<1> QED
  BY <1>1, HeardStep, PTL DEF Spec

-----------------------------------------------------------------------------
(* The orderly host.                                                       *)

\* What its stage says about the library.
HostInv ==
  Orderly =>
    /\ stage = "down" => ~cbacks
    /\ stage # "down" => cbacks
    /\ cbacks => fd # Unloaded
    /\ stage # "up" => cfg = "none"
    /\ fd = Port => stage \in {"open", "up"}
    /\ stage \in {"init", "on"} => upio_wake = "UNKNOWN"
    /\ stage = "down" => due = 0
    /\ NoFdLost /\ EpilogAnsweredOnce

\* What a close does to the descriptors.
LEMMA CloseCases ==
  UserialClose =>
    \/ fd = NoFd /\ openFds' = openFds /\ stdin' = stdin
    \/ fd = Unloaded
    \/ fd = Port /\ openFds' = openFds - 1 /\ stdin' = stdin
  BY Zenon DEF UserialClose

LEMMA HostStep == TypeInv /\ HostInv /\ [Next]_vars => HostInv'
<1> SUFFICES ASSUME TypeInv, HostInv, [Next]_vars, Orderly' PROVE HostInv'
  BY DEF HostInv
<1> USE DEF HostInv, NoFdLost, EpilogAnsweredOnce, Orderly, MayCall, Reach,
            portVars, wakeVars, epilogVars, NoFd, Port, Unloaded
<1>0. UNCHANGED setting /\ setting.orderly
  BY DEF Next, vars, VendorInit, VendorCleanup, Crash, Move, PowerOn, PowerOff,
         UserialOpen, userial_init_cfg, UserialClose, CloseFrame,
         FwCfg, CtrlSwitch, HostSwitch,
         hw_epilog_process, hw_epilog_cback, EpilogElsewhere, LpmWakeSetState
<1>t. /\ epilogs \in Nat /\ due \in Int /\ openFds \in Nat /\ fd \in {0, -1, 1}
  BY DEF TypeInv, TypeOK
<1>1. CASE VendorInit
  BY <1>0, <1>t, <1>1 DEF VendorInit
<1>2. CASE VendorCleanup
  BY <1>0, <1>t, <1>2 DEF VendorCleanup
<1>3. CASE Crash
  BY <1>0, <1>t, <1>3 DEF Crash
<1>4. CASE Move
  BY <1>0, <1>t, <1>4 DEF Move
<1>5. CASE PowerOn
  BY <1>0, <1>t, <1>5 DEF PowerOn, Lose
<1>6. CASE PowerOff
  BY <1>0, <1>t, <1>6 DEF PowerOff, Lose
<1>7. CASE UserialOpen
  BY <1>0, <1>t, <1>7 DEF UserialOpen, userial_init_cfg, userial_ioctl_init_bt_wake
<1>8. CASE UserialClose
  <2>1. /\ cbacks /\ stage' = "closed" /\ fd' = -1
        /\ UNCHANGED <<cbacks, cfg, upio_wake, epilogs, due>>
    BY <1>0, <1>8 DEF UserialClose, CloseFrame
  <2>2. fd \in {-1, 1} /\ stage # "down" /\ stdin
    BY <1>0, <1>t, <2>1
  <2>3. stdin' = stdin /\ openFds' = 0
    <3>1. fd # 0
      BY <2>2
    <3>2. \/ fd = -1 /\ openFds' = openFds /\ stdin' = stdin
          \/ fd = 1 /\ openFds' = openFds - 1 /\ stdin' = stdin
      BY Zenon, <1>8, <3>1, CloseCases
    <3>3. stdin' = stdin
      BY Zenon, <3>2
    <3>4. openFds = IF fd = 1 THEN 1 ELSE 0
      BY <1>0
    <3>5. openFds' = 0
      <4>1. CASE fd = -1 /\ openFds' = openFds
        BY <3>4, <4>1
      <4>2. CASE fd = 1 /\ openFds' = openFds - 1
        BY <3>4, <4>2
      <4> QED
        BY Zenon, <3>2, <4>1, <4>2
    <3> QED
      BY <3>3, <3>5
  <2>4. cfg = "none"
    BY <1>0, <1>8 DEF UserialClose
  <2> QED
    BY <1>0, <1>t, <2>1, <2>2, <2>3, <2>4
<1>9. CASE FwCfg
  BY <1>0, <1>t, <1>9 DEF FwCfg
<1>10. CASE CtrlSwitch \/ HostSwitch
  BY <1>0, <1>t, <1>10 DEF CtrlSwitch, HostSwitch
<1>11. CASE hw_epilog_process
  BY <1>0, <1>t, <1>11 DEF hw_epilog_process, EpilogElsewhere
<1>12. CASE hw_epilog_cback
  BY <1>0, <1>t, <1>12 DEF hw_epilog_cback, EpilogElsewhere
<1>13. CASE \E a \in {"ASSERT", "DEASSERT"} : LpmWakeSetState(a)
  BY <1>0, <1>t, <1>13 DEF LpmWakeSetState, upio_set, userial_vendor_ioctl
<1>14. CASE UNCHANGED vars
  BY <1>0, <1>t, <1>14 DEF vars
<1> QED
  BY <1>1, <1>2, <1>3, <1>4, <1>5, <1>6, <1>7, <1>8, <1>9, <1>10, <1>11,
     <1>12, <1>13, <1>14 DEF Next

LEMMA InitHost == Init => HostInv
  BY DEF Init, HostInv, NoFdLost, EpilogAnsweredOnce, Port, Unloaded

\* However the host's sessions end, no descriptor of the port is lost, and none
\* of the process is closed in its place.
THEOREM FdsCorrect == Spec => []NoFdLost
<1>1. HostInv => NoFdLost
  BY DEF HostInv, NoFdLost
<1>2. Init => TypeInv /\ HostInv
  BY InitTypes, InitHost
<1>3. TypeInv /\ HostInv /\ [Next]_vars => TypeInv' /\ HostInv'
  BY TypeStep, HostStep
<1> QED
  BY <1>1, <1>2, <1>3, PTL DEF Spec

\* No epilog is answered twice, or in a later session.
THEOREM EpilogCorrect == Spec => []EpilogAnsweredOnce
<1>1. HostInv => EpilogAnsweredOnce
  BY DEF HostInv, EpilogAnsweredOnce
<1>2. Init => TypeInv /\ HostInv
  BY InitTypes, InitHost
<1>3. TypeInv /\ HostInv /\ [Next]_vars => TypeInv' /\ HostInv'
  BY TypeStep, HostStep
<1> QED
  BY <1>1, <1>2, <1>3, PTL DEF Spec

\* Where the HCI library refuses nothing, an orderly host waits for exactly the
\* epilogs that are in flight.
EpilogInFlight == Orderly /\ ~setting.fails => due = epilogs

LEMMA InFlightStep ==
  TypeInv /\ HostInv /\ EpilogInFlight /\ [Next]_vars => EpilogInFlight'
<1> SUFFICES ASSUME TypeInv, HostInv, EpilogInFlight, [Next]_vars, Orderly',
                    ~setting'.fails
             PROVE  due' = epilogs'
  BY DEF EpilogInFlight
<1> USE DEF EpilogInFlight, Orderly, epilogVars, EpilogElsewhere
<1>1. UNCHANGED setting
  BY DEF Next, vars, VendorInit, VendorCleanup, Crash, Move, PowerOn, PowerOff,
         UserialOpen, userial_init_cfg, UserialClose, CloseFrame,
         FwCfg, CtrlSwitch, HostSwitch,
         hw_epilog_process, hw_epilog_cback, LpmWakeSetState
<1>2. due = epilogs /\ epilogs \in Nat
  BY <1>1 DEF TypeInv, TypeOK
<1>3. ~cbacks => due = 0
  BY <1>1 DEF HostInv
<1>4. CASE VendorInit
  BY <1>2, <1>3, <1>4 DEF VendorInit
<1>5. CASE Crash
  BY <1>5 DEF Crash
<1>6. CASE hw_epilog_process
  BY <1>1, <1>2, <1>6 DEF hw_epilog_process
<1>7. CASE hw_epilog_cback
  BY <1>1, <1>2, <1>3, <1>7 DEF hw_epilog_cback
<1>8. CASE UNCHANGED epilogVars
  BY <1>2, <1>8
<1> QED
  BY <1>4, <1>5, <1>6, <1>7, <1>8
     DEF Next, vars, VendorCleanup, Move, PowerOn, PowerOff, UserialOpen,
         userial_init_cfg, UserialClose, CloseFrame, FwCfg, CtrlSwitch, HostSwitch,
         LpmWakeSetState

\* No epilog that is waited for is lost (hardware.c 1587-1597, 1617-1647),
\* unless the library refuses its command: an answer is still to come.
THEOREM NoEpilogLost == Spec => []EpilogInFlight
<1>1. Init => TypeInv /\ HostInv /\ EpilogInFlight
  BY InitTypes, InitHost DEF Init, EpilogInFlight
<1>2. TypeInv /\ HostInv /\ EpilogInFlight /\ [Next]_vars
        => TypeInv' /\ HostInv' /\ EpilogInFlight'
  BY TypeStep, HostStep, InFlightStep
<1> QED
  BY <1>1, <1>2, PTL DEF Spec

-----------------------------------------------------------------------------
(* BT_WAKE, for the orderly host.                                          *)

LineInv == WakeAgreement /\ ClosedReleases

LEMMA LineStep == HostInv /\ LineInv /\ [Next]_vars => LineInv'
<1> SUFFICES ASSUME HostInv, LineInv, [Next]_vars, Orderly' PROVE LineInv'
  BY DEF LineInv, WakeAgreement, ClosedReleases
<1> USE DEF LineInv, WakeAgreement, ClosedReleases, Orderly, MayCall, Reach,
            portVars, wakeVars, NoFd, Port, Unloaded
<1>0. UNCHANGED setting /\ setting.orderly
  BY DEF Next, vars, VendorInit, VendorCleanup, Crash, Move, PowerOn, PowerOff,
         UserialOpen, userial_init_cfg, UserialClose, CloseFrame,
         FwCfg, CtrlSwitch, HostSwitch,
         hw_epilog_process, hw_epilog_cback, EpilogElsewhere, LpmWakeSetState
<1>1. CASE VendorInit
  <2>1. fd # 1
    BY <1>0, <1>1 DEF VendorInit, HostInv
  <2> QED
    BY <1>0, <1>1, <2>1 DEF VendorInit
<1>2. CASE Crash
  BY <1>0, <1>2 DEF Crash
<1>3. CASE PowerOff
  <2>1. fd # 1
    BY <1>0, <1>3 DEF PowerOff, HostInv
  <2> QED
    BY <1>0, <1>3, <2>1 DEF PowerOff, upio_set, userial_vendor_ioctl
<1>4. CASE UserialOpen
  <2>1. upio_wake = "UNKNOWN" /\ fd # 1
    BY <1>0, <1>4 DEF UserialOpen, userial_init_cfg, HostInv
  <2> QED
    BY <1>0, <1>4, <2>1 DEF UserialOpen, userial_init_cfg, userial_ioctl_init_bt_wake
<1>5. CASE UserialClose
  <2>0. fd' # 1
    BY <1>5 DEF UserialClose, CloseFrame
  <2>1. fd = 1 /\ setting.ioctl => ~line'
    <3>1. fd = 1 => line' = (line /\ ~setting.ioctl)
      BY <1>5 DEF UserialClose, CloseFrame
    <3> QED
      BY <3>1
  <2>2. fd # 1 => UNCHANGED line
    BY <1>5 DEF UserialClose, CloseFrame
  <2> QED
    BY <1>0, <2>0, <2>1, <2>2
<1>6. ASSUME NEW a \in {"ASSERT", "DEASSERT"}, LpmWakeSetState(a)
      PROVE  LineInv'
  BY <1>0, <1>6 DEF LpmWakeSetState, upio_set, userial_vendor_ioctl
<1>7. CASE UNCHANGED <<fd, upio_wake, line>>
  BY <1>0, <1>7
<1> QED
  BY <1>1, <1>2, <1>3, <1>4, <1>5, <1>6, <1>7
     DEF Next, vars, VendorCleanup, Move, PowerOn, FwCfg, CtrlSwitch, HostSwitch,
         hw_epilog_process, hw_epilog_cback, EpilogElsewhere

LEMMA LineAlways == Spec => []LineInv
<1>1. Init => TypeInv /\ HostInv /\ LineInv
  <2>1. Init => LineInv
    BY DEF Init, LineInv, WakeAgreement, ClosedReleases, Port, Unloaded
  <2> QED
    BY <2>1, InitTypes, InitHost
<1>2. TypeInv /\ HostInv /\ LineInv /\ [Next]_vars
        => TypeInv' /\ HostInv' /\ LineInv'
  BY TypeStep, HostStep, LineStep
<1> QED
  BY <1>1, <1>2, PTL DEF Spec

\* The recorded level is the line's while an orderly host has the port open.
THEOREM AgreementCorrect == Spec => []WakeAgreement
<1>1. LineInv => WakeAgreement
  BY DEF LineInv
<1> QED
  BY <1>1, LineAlways, PTL

\* A host that does not crash leaves BT_WAKE deasserted.
THEOREM ReleaseCorrect == Spec => []ClosedReleases
<1>1. LineInv => ClosedReleases
  BY DEF LineInv
<1> QED
  BY <1>1, LineAlways, PTL

-----------------------------------------------------------------------------
(* Power, for every host.                                                  *)

\* Where rfkill works, the controller has the power the host's last call asked
\* for, whatever that host did in between.
PowerAsAsked == /\ Steady /\ stage = "off" => ~power.powered
                /\ Steady /\ stage = "on"  => power.powered

PowerInv == PowerAsAsked /\ (Steady => power.rfkill_id \in {-1, bt})

LEMMA PowerStep == TypeInv /\ PowerInv /\ [Next]_vars => PowerInv'
<1> SUFFICES ASSUME TypeInv, PowerInv, [Next]_vars, Steady' PROVE PowerInv'
  BY DEF PowerInv, PowerAsAsked
<1>1. UNCHANGED setting
  BY DEF Next, vars, VendorInit, VendorCleanup, Crash, Move, PowerOn, PowerOff,
         UserialOpen, userial_init_cfg, UserialClose, CloseFrame,
         FwCfg, CtrlSwitch, HostSwitch,
         hw_epilog_process, hw_epilog_cback, EpilogElsewhere, LpmWakeSetState
<1>2. ~Move
  BY <1>1 DEF Move, Steady
<1>3. UNCHANGED bt /\ Steady
  <2>1. UNCHANGED bt
    BY <1>2 DEF Next, vars, VendorInit, VendorCleanup, Crash, PowerOn, PowerOff,
           UserialOpen, userial_init_cfg, UserialClose, CloseFrame, FwCfg, CtrlSwitch,
           HostSwitch, hw_epilog_process, hw_epilog_cback, EpilogElsewhere,
           LpmWakeSetState
  <2> QED
    BY <1>1, <2>1 DEF Steady
<1>t. power \in Power /\ bt \in Nat /\ power.rfkill_id \in {-1, bt}
  BY <1>3 DEF TypeInv, TypeOK, PowerInv
<1> USE DEF PowerInv, PowerAsAsked, Reach
<1>4. CASE PowerOn
  <2>1. PICK off \in upio_set_bluetooth_power(power, FALSE) :
          power' \in upio_set_bluetooth_power(off, TRUE)
    BY <1>4 DEF PowerOn
  <2>2. off \in Power /\ off.rfkill_id = bt
    BY <1>3, <1>t, PowerTypes, PowerWorks
  <2>3. power'.rfkill_id = bt /\ power'.powered = TRUE
    BY <1>3, <1>t, <2>1, <2>2, PowerWorks
  <2>4. stage' = "on"
    BY <1>4 DEF PowerOn
  <2> QED
    BY <1>3, <2>3, <2>4
<1>5. CASE PowerOff
  <2>1. power'.rfkill_id = bt /\ power'.powered = FALSE /\ stage' = "off"
    BY <1>3, <1>5, <1>t, PowerWorks DEF PowerOff
  <2> QED
    BY <1>3, <2>1
<1>6. CASE Crash
  <2>1. power'.rfkill_id = -1 /\ stage' = "down"
    BY <1>6, <1>t DEF Crash, Power
  <2> QED
    BY <2>1
<1>7. CASE CtrlSwitch
  <2>1. /\ power'.rfkill_id = power.rfkill_id /\ power'.powered = power.powered
        /\ UNCHANGED stage
    BY <1>7, <1>t DEF CtrlSwitch, Power
  <2> QED
    BY <1>3, <1>t, <2>1
<1>8. CASE VendorInit \/ VendorCleanup \/ UserialOpen \/ UserialClose \/ FwCfg
  <2>1. stage' \notin {"on", "off"} /\ UNCHANGED power
    BY <1>8 DEF VendorInit, VendorCleanup, UserialOpen, userial_init_cfg,
       UserialClose, CloseFrame, FwCfg
  <2> QED
    BY <1>3, <1>t, <2>1
<1>9. CASE UNCHANGED <<stage, power>>
  BY <1>3, <1>t, <1>9
<1> QED
  BY <1>2, <1>4, <1>5, <1>6, <1>7, <1>8, <1>9
     DEF Next, vars, HostSwitch, hw_epilog_process, hw_epilog_cback,
         EpilogElsewhere, LpmWakeSetState

\* After BT_VND_PWR_OFF the controller is off, and after BT_VND_PWR_ON on
\* (bt_vendor_nordic.c 129-144, upio.c 289-358), for every host, in any order
\* of calls and over crashes: the remembered number is the radio's.
THEOREM PowerCorrect == Spec => []PowerAsAsked
<1>1. Init => TypeInv /\ PowerInv
  <2> SUFFICES ASSUME Init PROVE PowerInv
    BY InitTypes
  <2>1. power.rfkill_id = -1 /\ stage = "down"
    BY DEF Init
  <2> QED
    BY <2>1 DEF PowerInv, PowerAsAsked
<1>2. TypeInv /\ PowerInv /\ [Next]_vars => TypeInv' /\ PowerInv'
  BY TypeStep, PowerStep
<1>3. PowerInv => PowerAsAsked
  BY DEF PowerInv
<1> QED
  BY <1>1, <1>2, <1>3, PTL DEF Spec

-----------------------------------------------------------------------------
(* The speed of the two ends.                                              *)

\* Once an orderly host switched power on, until it configures the firmware,
\* the controller is as it was started.
SpeedInv ==
  Orderly /\ Steady =>
    /\ power.rfkill_id \in {-1, bt}
    /\ stage \in {"on", "open"} => power.powered /\ power.baud = "115200"
    /\ stage = "open" /\ fd = Port => hostBaud = "115200"

LEMMA SpeedStep == TypeInv /\ HostInv /\ SpeedInv /\ [Next]_vars => SpeedInv'
<1> SUFFICES ASSUME TypeInv, HostInv, SpeedInv, [Next]_vars, Orderly', Steady'
             PROVE  SpeedInv'
  BY DEF SpeedInv
<1>0. UNCHANGED <<setting, bt>> /\ Orderly /\ Steady
  <2>1. UNCHANGED setting
    BY DEF Next, vars, VendorInit, VendorCleanup, Crash, Move, PowerOn, PowerOff,
           UserialOpen, userial_init_cfg, UserialClose, CloseFrame,
           FwCfg, CtrlSwitch, HostSwitch,
           hw_epilog_process, hw_epilog_cback, EpilogElsewhere, LpmWakeSetState
  <2>2. ~setting.moves
    BY <2>1 DEF Steady
  <2>3. UNCHANGED bt
    BY <2>2 DEF Next, vars, VendorInit, VendorCleanup, Crash, Move, PowerOn,
           PowerOff, UserialOpen, userial_init_cfg, UserialClose, CloseFrame,
           FwCfg, CtrlSwitch,
           HostSwitch,
           hw_epilog_process, hw_epilog_cback, EpilogElsewhere, LpmWakeSetState
  <2> QED
    BY <2>1, <2>3 DEF Orderly, Steady
<1>t. power \in Power /\ bt \in Nat /\ power.rfkill_id \in {-1, bt}
  BY <1>0 DEF TypeInv, TypeOK, SpeedInv
<1> USE DEF SpeedInv, Reach, NoFd, Port, Unloaded
<1>1. CASE PowerOn
  <2>1. PICK off \in upio_set_bluetooth_power(power, FALSE) :
          power' \in upio_set_bluetooth_power(off, TRUE)
    BY <1>1 DEF PowerOn
  <2>2. off \in Power /\ off.rfkill_id = bt /\ ~off.powered
    BY <1>0, <1>t, PowerTypes, PowerWorks
  <2>3. power'.rfkill_id = bt /\ power'.powered /\ power'.baud = "115200"
    BY <1>0, <1>t, <2>1, <2>2, PowerWorks
  <2>4. stage' = "on"
    BY <1>1 DEF PowerOn
  <2> QED
    BY <1>0, <2>3, <2>4
<1>2. CASE PowerOff
  <2>1. power'.rfkill_id = bt /\ stage' = "off"
    BY <1>0, <1>2, <1>t, PowerWorks DEF PowerOff
  <2> QED
    BY <1>0, <2>1
<1>3. CASE Crash
  <2>1. power'.rfkill_id = -1 /\ stage' = "down"
    BY <1>3, <1>t DEF Crash, Power
  <2> QED
    BY <2>1
<1>4. CASE CtrlSwitch
  <2>1. stage = "up" /\ UNCHANGED stage
    BY <1>0, <1>4 DEF CtrlSwitch, HostInv
  <2>2. power'.rfkill_id = power.rfkill_id
    BY <1>4, <1>t DEF CtrlSwitch, Power
  <2> QED
    BY <1>0, <1>t, <2>1, <2>2
<1>5. CASE HostSwitch
  <2>1. stage = "up" /\ UNCHANGED <<stage, power>>
    BY <1>0, <1>5 DEF HostSwitch, HostInv
  <2> QED
    BY <1>0, <1>t, <2>1
<1>6. CASE UserialOpen
  <2>1. stage = "on" /\ UNCHANGED power /\ (fd' = Port => hostBaud' = "115200")
    BY <1>0, <1>6 DEF UserialOpen, userial_init_cfg, MayCall
  <2> QED
    BY <1>0, <1>t, <2>1
<1>7. CASE VendorInit \/ VendorCleanup \/ UserialClose \/ FwCfg
  <2>1. stage' \notin {"on", "open"} /\ UNCHANGED power
    BY <1>7 DEF VendorInit, VendorCleanup, UserialClose, CloseFrame, FwCfg
  <2> QED
    BY <1>0, <1>t, <2>1
<1>8. CASE UNCHANGED <<stage, power, fd, hostBaud>>
  BY <1>0, <1>8
<1>9. CASE Move
  BY <1>0, <1>9 DEF Move, Steady
<1> QED
  BY <1>1, <1>2, <1>3, <1>4, <1>5, <1>6, <1>7, <1>8, <1>9
     DEF Next, vars, hw_epilog_process, hw_epilog_cback, EpilogElsewhere,
         LpmWakeSetState, portVars

\* Where rfkill works, both ends have the same speed whenever the firmware is
\* to be configured, also after a crash in the middle of a change of speed.
THEOREM SpeedCorrect == Spec => []StartsInStep
<1>1. Init => TypeInv /\ HostInv /\ SpeedInv
  <2>1. Init => SpeedInv
    BY DEF Init, SpeedInv, Port, Unloaded
  <2> QED
    BY <2>1, InitTypes, InitHost
<1>2. TypeInv /\ HostInv /\ SpeedInv /\ [Next]_vars
        => TypeInv' /\ HostInv' /\ SpeedInv'
  BY TypeStep, HostStep, SpeedStep
<1>3. SpeedInv => StartsInStep
  BY DEF SpeedInv, StartsInStep, InStep
<1> QED
  BY <1>1, <1>2, <1>3, PTL DEF Spec
=============================================================================
