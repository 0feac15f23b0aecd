------------------------------- MODULE HwConfig -------------------------------
(***************************************************************************)
(* The firmware configuration of hardware.c: hw_config_start sends         *)
(* HCI_RESET, and every later step is taken by hw_config_cback, on the     *)
(* thread of the HCI library, when the controller answers the command in   *)
(* flight.  The program raises the speed of the link, downloads a patch    *)
(* file into the controller, raises the speed again, writes the address    *)
(* and calls fwcfg_cb once.                                                *)
(*                                                                         *)
(* Three parties take steps: the host stack, through init, op and cleanup  *)
(* of bt_vendor_nordic.c; the callback; and, between fwcfg_cb and the last *)
(* statements of the callback, the host stack again.  The controller's     *)
(* answer and the callback it triggers are one step.                       *)
(***************************************************************************)
EXTENDS Integers, Sequences, FiniteSets, UartSpeed

CONSTANTS
  TargetBaud,             \* UART_TARGET_BAUD_RATE
  USE_CONTROLLER_BDADDR,  \* build switch
  PatchFiles,             \* patch files that may be found, as record sequences
  FD,                     \* descriptors open() may return
  MaxStarts,              \* bound on the calls of hw_config_start
  RestartInCallback,      \* the host may act before the callback has returned
  AbandonMidway,          \* the host may act while a command is in flight
  ReadMayFail             \* read() of the patch file may fail

\* A whole record is a preamble and its payload.  SHORT is a partial preamble
\* at the end of the file, CUT_RECORD a payload that ends early.
Record == {"WRITE_RAM", "LAUNCH_RAM", "CUT_RECORD", "SHORT"}
PatchFile == Seq(Record)

ASSUME TargetAssumption == TargetBaud \in LineSpeeds \ {115200}
ASSUME SwitchAssumption == {USE_CONTROLLER_BDADDR, RestartInCallback,
                            AbandonMidway, ReadMayFail} \subseteq BOOLEAN
ASSUME FilesAssumption  == PatchFiles \subseteq PatchFile
ASSUME FDAssumption     == FD \subseteq Nat \ {0}
ASSUME StartsAssumption == MaxStarts \in Nat

NoFd  == -1
NoCmd == "none"

CfgState == {"IDLE", "START", "SET_UART_CLOCK", "SET_UART_BAUD_1",
             "READ_LOCAL_NAME", "DL_MINIDRIVER", "DL_FW_PATCH",
             "SET_UART_BAUD_2", "SET_BD_ADDR", "READ_BD_ADDR"}

Command == {"RESET", "WRITE_UART_CLOCK_SETTING", "UPDATE_BAUDRATE",
            "READ_LOCAL_NAME", "DOWNLOAD_MINIDRV", "WRITE_BD_ADDR",
            "READ_LOCAL_BDADDR", "WRITE_RAM", "LAUNCH_RAM", "CUT_RECORD"}

VARIABLES
  cbacks,        \* bt_vendor_cbacks # NULL
  state,         \* hw_cfg_cb.state, "IDLE" for 0
  fw_fd,         \* hw_cfg_cb.fw_fd
  f_set_baud_2,  \* hw_cfg_cb.f_set_baud_2
  fw_left,       \* the records not yet read from fw_fd
  openFds,       \* the process's open descriptors
  held,          \* how many HCI buffers the library owns
  uart,          \* the serial port is open
  hostBaud,      \* the speed of the host's port
  ctrlBaud,      \* the speed of the controller's port
  ctrlMode,      \* what the controller runs
  cmd,           \* the command in flight, with hw_config_cback to call
  tail,          \* how the callback ends, once it has called fwcfg_cb
  fresh,         \* powered on and not yet configured
  starts,        \* calls of hw_config_start
  answers,       \* calls of fwcfg_cb
  result,        \* the last answer, "none" since the port was opened
  refusals       \* first commands refused by xmit_cb

fileVars   == <<fw_fd, fw_left, openFds>>
ctrlVars   == <<ctrlBaud, ctrlMode>>
answerVars == <<answers, result, tail>>
hostVars   == <<cbacks, uart, fresh, starts, refusals>>
vars == <<state, f_set_baud_2, held, hostBaud, cmd,
          fileVars, ctrlVars, answerVars, hostVars>>

\* hw_cfg_cb is a static: its fw_fd starts as 0, the descriptor of stdin.
Init ==
  /\ cbacks = FALSE /\ state = "IDLE" /\ fw_fd = 0 /\ f_set_baud_2 = FALSE
  /\ fw_left = <<>> /\ openFds = {0} /\ held = 0
  /\ uart = FALSE /\ hostBaud = 115200
  /\ ctrlBaud = 115200 /\ ctrlMode = "off" /\ cmd = NoCmd
  /\ tail = "none" /\ fresh = FALSE
  /\ starts = 0 /\ answers = 0 /\ result = "none" /\ refusals = 0

-----------------------------------------------------------------------------
(* The host stack. *)

HostMayAct == /\ tail = "none" \/ RestartInCallback
              /\ cmd = NoCmd   \/ AbandonMidway

VendorInit ==
  /\ HostMayAct /\ ~cbacks /\ ~uart
  /\ cbacks' = TRUE
  /\ UNCHANGED <<state, f_set_baud_2, held, hostBaud, cmd, fileVars, ctrlVars,
                 answerVars, uart, fresh, starts, refusals>>

VendorCleanup ==
  /\ HostMayAct /\ cbacks
  /\ cbacks' = FALSE
  /\ UNCHANGED <<state, f_set_baud_2, held, hostBaud, cmd, fileVars, ctrlVars,
                 answerVars, uart, fresh, starts, refusals>>

\* Power on forces power off first: the controller restarts from its ROM.
PowerOn ==
  /\ HostMayAct /\ ~uart
  /\ ctrlMode' = "rom" /\ ctrlBaud' = 115200 /\ fresh' = TRUE
  /\ UNCHANGED <<state, f_set_baud_2, held, hostBaud, cmd, fileVars,
                 answerVars, cbacks, uart, starts, refusals>>

PowerOff ==
  /\ HostMayAct /\ ~uart
  /\ ctrlMode' = "off" /\ fresh' = FALSE
  /\ UNCHANGED <<state, f_set_baud_2, held, hostBaud, cmd, fileVars, ctrlBaud,
                 answerVars, cbacks, uart, starts, refusals>>

UserialOpen ==
  /\ HostMayAct /\ cbacks /\ ~uart /\ ctrlMode # "off"
  /\ uart' = TRUE /\ hostBaud' = userial_to_tcio_baud(USERIAL_BAUD_115200)
  /\ UNCHANGED <<state, f_set_baud_2, held, cmd, fileVars, ctrlVars,
                 answerVars, cbacks, fresh, starts, refusals>>

\* The command in flight is dropped, and its callback will not be called.
UserialClose ==
  /\ HostMayAct /\ uart
  /\ uart' = FALSE /\ cmd' = NoCmd /\ result' = "none"
  /\ UNCHANGED <<state, f_set_baud_2, held, hostBaud, fileVars, ctrlVars,
                 answers, tail, cbacks, fresh, starts, refusals>>

\* Mutant of ResetConfig: fw_fd keeps its value.
ResetConfig_KeepsFd ==
  UNCHANGED fw_fd /\ fw_left' = <<>> /\ f_set_baud_2' = FALSE

ResetConfig == fw_fd' = NoFd /\ fw_left' = <<>> /\ f_set_baud_2' = FALSE

\* The result of xmit_cb is ignored: when it refuses HCI_RESET, the buffer
\* stays with the library and nobody is answered.
hw_config_start ==
  /\ HostMayAct /\ uart /\ fresh /\ cmd = NoCmd /\ starts < MaxStarts
  /\ ResetConfig
  /\ starts' = starts + 1 /\ fresh' = FALSE
  /\ \/ /\ cbacks /\ state' = "START" /\ cmd' = "RESET"
        /\ UNCHANGED <<held, refusals, answers, result>>
     \/ /\ cbacks /\ state' = "START"
        /\ held' = held + 1 /\ refusals' = refusals + 1
        /\ UNCHANGED <<cmd, answers, result>>
     \/ /\ cbacks /\ state' = "IDLE"
        /\ answers' = answers + 1 /\ result' = "FAIL"
        /\ UNCHANGED <<held, cmd, refusals>>
     \/ /\ ~cbacks /\ state' = "IDLE"
        /\ UNCHANGED <<held, cmd, refusals, answers, result>>
  /\ UNCHANGED <<openFds, hostBaud, ctrlVars, tail, cbacks, uart>>

-----------------------------------------------------------------------------
(* The controller: it hears a command sent at its own speed, and what it   *)
(* answers tells whether it did what the command says.                     *)

Hears == /\ uart /\ ctrlMode # "off" /\ hostBaud = ctrlBaud
         /\ cmd \notin {NoCmd, "CUT_RECORD"}

Obeys ==
  /\ ctrlBaud' = CASE cmd = "UPDATE_BAUDRATE" -> TargetBaud
                   [] cmd = "LAUNCH_RAM"      -> 115200
                   [] OTHER                   -> ctrlBaud
  /\ ctrlMode' = CASE cmd = "DOWNLOAD_MINIDRV" -> "download"
                   [] cmd = "LAUNCH_RAM"       -> "patched"
                   [] OTHER                    -> ctrlMode

-----------------------------------------------------------------------------
(* hw_config_cback.  The callback owns the event buffer it was handed.     *)

AnswerDue == tail = "none" /\ Hears

\* The library receives `got` buffers and hands on or frees `gone`.
Buffers(got, gone) == held' = held + got - gone

\* fwcfg_cb(FAIL), before the descriptor is closed and state is reset.
Abort == /\ cmd' = NoCmd /\ tail' = "abort"
         /\ answers' = answers + 1 /\ result' = "FAIL"

\* Status 0, and the callback has a buffer for its next command.
Proceeds(s) ==
  AnswerDue /\ cbacks /\ state = s /\ Obeys /\ UNCHANGED hostVars

Accepted(s, c) == /\ state' = s /\ cmd' = c /\ Buffers(2, 2)
                  /\ UNCHANGED answerVars
\* Mutant of Refused: the refused command's buffer is not freed.
Refused_Leaks(s) == state' = s /\ Buffers(2, 1) /\ Abort

Refused(s)     == state' = s /\ Buffers(2, 2) /\ Abort
Send(s, c)     == Accepted(s, c) \/ Refused(s)

\* Mutant of SetHostBaud: the new speed is not applied to the port.
SetHostBaud_Unapplied(speed) == UNCHANGED hostBaud

SetHostBaud(speed) == hostBaud' = HostSpeed(speed)

\* Mutant of CbackNoBuffer: fwcfg_cb is called without looking at cbacks.
CbackNoBuffer_Unchecked ==
  /\ AnswerDue
  /\ Obeys \/ UNCHANGED ctrlVars
  /\ Buffers(1, 1) /\ Abort
  /\ UNCHANGED <<state, f_set_baud_2, hostBaud, fileVars, hostVars>>

CbackNoBuffer ==
  /\ AnswerDue
  /\ Obeys \/ UNCHANGED ctrlVars
  /\ IF cbacks THEN Buffers(1, 1) /\ Abort
     ELSE /\ Buffers(1, 0) /\ cmd' = NoCmd /\ tail' = "abort"
          /\ UNCHANGED <<answers, result>>
  /\ UNCHANGED <<state, f_set_baud_2, hostBaud, fileVars, hostVars>>

\* A state the switch has no case for.
CbackIdle ==
  /\ Proceeds("IDLE") /\ Refused("IDLE")
  /\ UNCHANGED <<f_set_baud_2, hostBaud, fileVars>>

\* Mutant of SendUpdateBaud: f_set_baud_2 is ignored.
SendUpdateBaud_First ==
  /\ Send("SET_UART_BAUD_1", "UPDATE_BAUDRATE")
  /\ UNCHANGED <<f_set_baud_2, hostBaud, fileVars>>

SendUpdateBaud ==
  /\ Send(IF f_set_baud_2 THEN "SET_UART_BAUD_2" ELSE "SET_UART_BAUD_1",
          "UPDATE_BAUDRATE")
  /\ UNCHANGED <<f_set_baud_2, hostBaud, fileVars>>

CbackStart ==
  /\ Proceeds("START")
  /\ IF TargetBaud > 3000000
     THEN /\ Send("SET_UART_CLOCK", "WRITE_UART_CLOCK_SETTING")
          /\ UNCHANGED <<f_set_baud_2, hostBaud, fileVars>>
     ELSE SendUpdateBaud

CbackUartClock == Proceeds("SET_UART_CLOCK") /\ SendUpdateBaud

CbackBaud1 ==
  /\ Proceeds("SET_UART_BAUD_1")
  /\ SetHostBaud(TargetBaud)
  /\ Send("READ_LOCAL_NAME", "READ_LOCAL_NAME")
  /\ UNCHANGED <<f_set_baud_2, fileVars>>

\* No patch file was found, or it cannot be opened.
NoPatch == /\ Send("SET_BD_ADDR", "WRITE_BD_ADDR")
           /\ fw_fd' \in {fw_fd, NoFd} /\ UNCHANGED <<fw_left, openFds>>

OpenPatch(fd, file) ==
  /\ fw_fd' = fd /\ fw_left' = file /\ openFds' = openFds \cup {fd}
  /\ \/ Accepted("DL_MINIDRIVER", "DOWNLOAD_MINIDRV")
     \/ Send("SET_BD_ADDR", "WRITE_BD_ADDR")

CbackLocalName ==
  /\ Proceeds("READ_LOCAL_NAME")
  /\ NoPatch \/ \E fd \in FD \ openFds, file \in PatchFiles : OpenPatch(fd, file)
  /\ UNCHANGED <<f_set_baud_2, hostBaud>>

MoreRecords == /\ fw_fd >= 0 /\ fw_left # <<>> /\ cmd # "LAUNCH_RAM"
               /\ Head(fw_left) # "SHORT"

SendRecord ==
  /\ MoreRecords
  /\ Send("DL_FW_PATCH", Head(fw_left))
  /\ fw_left' = Tail(fw_left)
  /\ UNCHANGED <<f_set_baud_2, hostBaud, fw_fd, openFds>>

EndDownload ==
  /\ ~MoreRecords \/ ReadMayFail
  /\ openFds' = openFds \ {fw_fd} /\ fw_fd' = NoFd /\ fw_left' = <<>>
  /\ SetHostBaud(115200)
  /\ f_set_baud_2' = TRUE
  /\ Send("START", "RESET")

CbackDownload ==
  /\ Proceeds("DL_MINIDRIVER") \/ Proceeds("DL_FW_PATCH")
  /\ SendRecord \/ EndDownload

\* Mutant of Complete: the event buffer is freed here and again at the end.
Complete_FreesEvent ==
  /\ Buffers(2, 2) /\ cmd' = NoCmd /\ tail' = "complete"
  /\ answers' = answers + 1 /\ result' = "SUCCESS"

\* Mutant of Complete: without is_proceeding = TRUE the abort follows.
Complete_ThenAborts ==
  /\ Buffers(2, 2) /\ cmd' = NoCmd /\ tail' = "abort"
  /\ answers' = answers + 2 /\ result' = "FAIL"

\* fwcfg_cb(SUCCESS): the event buffer is still the callback's.
Complete ==
  /\ Buffers(2, 1) /\ cmd' = NoCmd /\ tail' = "complete"
  /\ answers' = answers + 1 /\ result' = "SUCCESS"

\* Mutant of CbackBaud2: the host's port stays at 115200.
CbackBaud2_KeepsSpeed ==
  /\ Proceeds("SET_UART_BAUD_2")
  /\ Accepted("SET_BD_ADDR", "WRITE_BD_ADDR") \/ (state' = state /\ Complete)
  /\ UNCHANGED <<hostBaud, f_set_baud_2, fileVars>>

CbackBaud2 ==
  /\ Proceeds("SET_UART_BAUD_2")
  /\ SetHostBaud(TargetBaud)
  /\ LET s == IF USE_CONTROLLER_BDADDR THEN "READ_BD_ADDR" ELSE "SET_BD_ADDR"
         c == IF USE_CONTROLLER_BDADDR THEN "READ_LOCAL_BDADDR" ELSE "WRITE_BD_ADDR"
     IN  Accepted(s, c) \/ (state' = s /\ Complete)
  /\ UNCHANGED <<f_set_baud_2, fileVars>>

CbackBdAddr ==
  /\ Proceeds("SET_BD_ADDR") /\ Complete
  /\ UNCHANGED <<state, f_set_baud_2, hostBaud, fileVars>>

\* An all-zero address is replaced by the host's, a valid one is kept.
CbackReadBdAddr ==
  /\ Proceeds("READ_BD_ADDR")
  /\ \/ Accepted("SET_BD_ADDR", "WRITE_BD_ADDR")
     \/ state' \in {"READ_BD_ADDR", "SET_BD_ADDR"} /\ Complete
  /\ UNCHANGED <<f_set_baud_2, hostBaud, fileVars>>

\* Mutant of ConfigTail: the patch file is closed only after a failure.
ConfigTail_LeavesOpen ==
  /\ tail # "none"
  /\ state' = "IDLE" /\ tail' = "none" /\ fw_fd' = NoFd /\ fw_left' = <<>>
  /\ openFds' = IF tail = "abort" THEN openFds \ {fw_fd} ELSE openFds
  /\ Buffers(0, IF tail = "complete" /\ cbacks THEN 1 ELSE 0)
  /\ UNCHANGED <<f_set_baud_2, hostBaud, cmd, ctrlVars, answers, result,
                 hostVars>>

\* What the callback does after fwcfg_cb, whatever the host did meanwhile.
ConfigTail ==
  /\ tail # "none"
  /\ state' = "IDLE" /\ tail' = "none"
  /\ openFds' = openFds \ {fw_fd} /\ fw_fd' = NoFd /\ fw_left' = <<>>
  /\ Buffers(0, IF tail = "complete" /\ cbacks THEN 1 ELSE 0)
  /\ UNCHANGED <<f_set_baud_2, hostBaud, cmd, ctrlVars, answers, result,
                 hostVars>>

-----------------------------------------------------------------------------
HostStep == \/ VendorInit \/ VendorCleanup \/ PowerOn \/ PowerOff
            \/ UserialOpen \/ UserialClose \/ hw_config_start

hw_config_cback ==
  \/ CbackNoBuffer \/ CbackIdle \/ CbackStart \/ CbackUartClock \/ CbackBaud1
  \/ CbackLocalName \/ CbackDownload \/ CbackBaud2 \/ CbackBdAddr
  \/ CbackReadBdAddr

Next == HostStep \/ hw_config_cback \/ ConfigTail

Spec == Init /\ [][Next]_vars

\* A controller that hears a command answers it, and the HCI library's thread
\* runs.  Nothing obliges the host to act.
FairSpec == Spec /\ WF_vars(hw_config_cback) /\ WF_vars(ConfigTail)
-----------------------------------------------------------------------------
(* Properties. *)

\* Type invariant.
TypeOK ==
  /\ cbacks \in BOOLEAN /\ uart \in BOOLEAN /\ fresh \in BOOLEAN
  /\ f_set_baud_2 \in BOOLEAN
  /\ state \in CfgState /\ cmd \in Command \cup {NoCmd}
  /\ fw_fd \in FD \cup {0, NoFd} /\ openFds \subseteq FD \cup {0}
  /\ fw_left \in PatchFile
  /\ held \in Nat /\ starts \in Nat /\ answers \in Nat /\ refusals \in Nat
  /\ hostBaud \in {115200, TargetBaud} /\ ctrlBaud \in {115200, TargetBaud}
  /\ ctrlMode \in {"off", "rom", "download", "patched"}
  /\ tail \in {"none", "complete", "abort"}
  /\ result \in {"none", "SUCCESS", "FAIL"}

\* While a command is in flight the two ends of the link run at one speed,
\* through both speed changes (hardware.c 653-669, 782, 835-848): the only
\* exception is a controller left in download mode, by a patch file that
\* ended, or could not be read, before LAUNCH_RAM.
LinkAgreement ==
  cmd # NoCmd /\ hostBaud # ctrlBaud => ctrlMode = "download"

\* A patch is downloaded only into a controller running its ROM: the second
\* pass through HW_CFG_START, after the download, must not lead to another
\* download (f_set_baud_2 at 786 and 829 selects BAUD_2 instead).
MinidriverOnlyToRom == cmd = "DOWNLOAD_MINIDRV" => ctrlMode = "rom"

\* When fwcfg_cb said SUCCESS (853, 886) and until the port is closed, both
\* ends run at the target speed and the controller is not in download mode.
SuccessMeansServing ==
  result = "SUCCESS" => /\ uart /\ hostBaud = TargetBaud /\ ctrlBaud = TargetBaud
                        /\ ctrlMode \in {"rom", "patched"}

\* Closing the patch file never closes a descriptor of the process that the
\* library did not open: fw_fd starts as 0, and hw_config_start must have
\* reset it (1128) before the callback compares it with -1 (857, 918).
StdinStaysOpen == 0 \in openFds

\* The descriptors the library opened are exactly the one fw_fd names.
NoDescriptorLeak ==
  openFds = {0} \cup (IF fw_fd \in FD THEN {fw_fd} ELSE {})

\* Between callbacks the library owns no HCI buffer, apart from the first
\* commands xmit_cb refused (1152); inside a successful callback it still
\* owns the event (904).
BuffersAccounted ==
  held = refusals + (IF tail = "complete" THEN 1 ELSE 0)

\* Both ends serve at the target speed.
Serves == /\ hostBaud = TargetBaud /\ ctrlBaud = TargetBaud
          /\ ctrlMode \in {"rom", "patched"}

\* Firmware configuration provides the service of FwCfgService, to a host that
\* waits for the answers and to one that does not.
Service == INSTANCE FwCfgService
             WITH attached <- cbacks, port <- uart, busy <- (cmd # NoCmd),
                  serves <- Serves
ServiceSpec == Service!Spec

\* The controller will not hear the host again until it is powered off.
Deaf == /\ ctrlMode = "download"
        /\ hostBaud # ctrlBaud \/ cmd = "CUT_RECORD"

\* A request that was taken up is answered through fwcfg_cb, unless the host
\* gives up on it or the patch file left the controller deaf.
RequestAnswered ==
  \A n \in 0..MaxStarts :
    cmd # NoCmd /\ answers = n ~> answers > n \/ Deaf \/ ~uart \/ ~cbacks
=============================================================================
