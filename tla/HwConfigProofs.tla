---------------------------- MODULE HwConfigProofs ----------------------------
(***************************************************************************)
(* Theorems about HwConfig, for every target speed, set of patch files,    *)
(* and host.                                                               *)
(***************************************************************************)
EXTENDS HwConfig, TLAPS

\* Both ends run at speed s.
Link(s) == hostBaud = s /\ ctrlBaud = s

\* What must hold while each command is in flight.
Phase ==
  /\ cmd # NoCmd => uart /\ ctrlMode # "off" /\ fw_fd # 0
                    /\ ~fresh /\ result # "SUCCESS"
  /\ cmd = "RESET" /\ ~f_set_baud_2 => Link(115200) /\ ctrlMode = "rom"
  /\ cmd = "RESET" /\ f_set_baud_2 =>
       /\ hostBaud = 115200
       /\ \/ ctrlMode = "patched"  /\ ctrlBaud = 115200
          \/ ctrlMode = "download" /\ ctrlBaud = TargetBaud
  /\ cmd \in {"WRITE_UART_CLOCK_SETTING", "UPDATE_BAUDRATE"} =>
       Link(115200) /\ ctrlMode = (IF f_set_baud_2 THEN "patched" ELSE "rom")
  /\ cmd \in {"READ_LOCAL_NAME", "DOWNLOAD_MINIDRV"} =>
       Link(TargetBaud) /\ ctrlMode = "rom"
  /\ cmd \in {"WRITE_RAM", "LAUNCH_RAM", "CUT_RECORD"} =>
       Link(TargetBaud) /\ ctrlMode = "download"
  /\ cmd \in {"WRITE_BD_ADDR", "READ_LOCAL_BDADDR"} =>
       Link(TargetBaud) /\ ctrlMode \in {"rom", "patched"}

\* The state says which command is in flight, unless the end of a callback has
\* overwritten the state of a configuration started meanwhile.
Dispatch ==
  cmd # NoCmd =>
    \/ state \in {"START", "IDLE"} /\ cmd = "RESET"
         /\ (state = "IDLE" => ~f_set_baud_2)
    \/ state = "SET_UART_CLOCK"  /\ cmd = "WRITE_UART_CLOCK_SETTING"
    \/ state = "SET_UART_BAUD_1" /\ cmd = "UPDATE_BAUDRATE" /\ ~f_set_baud_2
    \/ state = "SET_UART_BAUD_2" /\ cmd = "UPDATE_BAUDRATE" /\ f_set_baud_2
    \/ state = "READ_LOCAL_NAME" /\ cmd = "READ_LOCAL_NAME"
    \/ state = "DL_MINIDRIVER"   /\ cmd = "DOWNLOAD_MINIDRV"
    \/ state = "DL_FW_PATCH"  /\ cmd \in {"WRITE_RAM", "LAUNCH_RAM", "CUT_RECORD"}
    \/ state = "SET_BD_ADDR"  /\ cmd = "WRITE_BD_ADDR"
    \/ state = "READ_BD_ADDR" /\ cmd = "READ_LOCAL_BDADDR"

\* Between the two ends of a callback.
InTail ==
  tail # "none" =>
    /\ fw_fd # 0
    /\ cmd # NoCmd => cmd = "RESET" /\ ~f_set_baud_2
    /\ tail = "complete" => held > 0

\* Between power on and the request.
Fresh == fresh => /\ ctrlMode = "rom" /\ ctrlBaud = 115200
                  /\ uart => hostBaud = 115200

Serving == result = "SUCCESS" => ~fresh

ConfigInv == /\ TypeOK /\ Phase /\ Dispatch /\ InTail /\ Fresh
             /\ Serving /\ SuccessMeansServing /\ StdinStaysOpen

-----------------------------------------------------------------------------
(* The speed conversions of userial_vendor.c and hardware.c.               *)

\* A supported speed survives line_speed_to_userial_baud followed by
\* userial_to_tcio_baud: the host's port runs at the speed the controller was
\* told.
LEMMA SpeedRoundTrip == \A s \in LineSpeeds : HostSpeed(s) = s
<1> SUFFICES ASSUME NEW s \in LineSpeeds PROVE HostSpeed(s) = s
  OBVIOUS
<1>1. PICK b \in LineSpeedBranches : SymbolSpeed[b] = s
  BY DEF LineSpeeds
<1> DEFINE c == CHOOSE a \in LineSpeedBranches : SymbolSpeed[a] = s
<1>2. c \in LineSpeedBranches /\ SymbolSpeed[c] = s
  BY <1>1
<1>3. line_speed_to_userial_baud(s) = c
  BY <1>1 DEF line_speed_to_userial_baud
<1> HIDE DEF c
<1>4. c \in TcioBranches
  BY <1>2 DEF LineSpeedBranches, TcioBranches
<1> QED
  BY <1>2, <1>3, <1>4 DEF HostSpeed, userial_to_tcio_baud

\* The speeds hw_config_cback sets the host's port to.
LEMMA BaudFacts == /\ userial_to_tcio_baud(USERIAL_BAUD_115200) = 115200
                   /\ HostSpeed(115200) = 115200
                   /\ HostSpeed(TargetBaud) = TargetBaud
                   /\ TargetBaud \in Int
<1>1. 7 \in LineSpeedBranches /\ 7 \in TcioBranches /\ SymbolSpeed[7] = 115200
  BY DEF LineSpeedBranches, TcioBranches, SymbolSpeed
<1>2. 115200 \in LineSpeeds
  BY <1>1 DEF LineSpeeds
<1>3. \A b \in LineSpeedBranches : SymbolSpeed[b] \in Int
  BY DEF LineSpeedBranches, SymbolSpeed
<1>4. TargetBaud \in Int
  BY <1>3, TargetAssumption DEF LineSpeeds
<1> QED
  BY <1>1, <1>2, <1>4, SpeedRoundTrip, TargetAssumption
     DEF userial_to_tcio_baud, USERIAL_BAUD_115200

\* The host's port reaches a speed exactly when the conversions know it; asked
\* for any other, 1500000 of userial_vendor.h included, it stays at 115200
\* while hw_config_cback tells the controller the speed as it is (824).  This
\* is why TargetAssumption names LineSpeeds.
THEOREM SpeedsReached ==
  /\ \A s \in Int : HostSpeed(s) = IF s \in LineSpeeds THEN s ELSE 115200
  /\ 1500000 \notin LineSpeeds
<1>1. ASSUME NEW s \in Int, s \notin LineSpeeds PROVE HostSpeed(s) = 115200
  <2>1. ~ \E b \in LineSpeedBranches : SymbolSpeed[b] = s
    BY <1>1 DEF LineSpeeds
  <2>2. line_speed_to_userial_baud(s) = USERIAL_BAUD_115200
    BY <2>1 DEF line_speed_to_userial_baud
  <2> QED
    BY <2>2, BaudFacts DEF HostSpeed
<1>2. 1500000 \notin LineSpeeds
  BY DEF LineSpeeds, LineSpeedBranches, SymbolSpeed
<1> QED
  BY <1>1, <1>2, SpeedRoundTrip

-----------------------------------------------------------------------------
(* The inductive invariant. *)

\* For the steps that assign a flag.
LEMMA BoolFact == \A x : x = FALSE \/ x = TRUE => x \in BOOLEAN
  BY Zenon

LEMMA InitInv == Init => ConfigInv
<1>1. Init => fw_left \in PatchFile
  BY DEF Init, PatchFile
<1> QED
  BY <1>1, BoolFact, FDAssumption
     DEF Init, ConfigInv, TypeOK, Phase, Dispatch, InTail, Fresh, Serving,
         SuccessMeansServing, StdinStaysOpen, CfgState, Command, NoCmd, NoFd

\* What is left of the patch file is a sequence of records.
LEMMA FileInv == fw_left \in PatchFile /\ Next => fw_left' \in PatchFile
<1> SUFFICES ASSUME fw_left \in PatchFile, Next PROVE fw_left' \in PatchFile
  OBVIOUS
<1>1. <<>> \in PatchFile
  BY DEF PatchFile
<1>2. CASE HostStep
  BY <1>1, <1>2 DEF HostStep, VendorInit, VendorCleanup, PowerOn, PowerOff,
     UserialOpen, UserialClose, hw_config_start, ResetConfig, fileVars
<1>3. CASE CbackLocalName
  BY <1>1, <1>3, FilesAssumption DEF CbackLocalName, NoPatch, OpenPatch
<1>4. CASE CbackDownload
  <2>1. CASE SendRecord
    BY <1>1, <2>1 DEF SendRecord, MoreRecords, PatchFile
  <2>2. CASE EndDownload
    BY <1>1, <2>2 DEF EndDownload
  <2> QED
    BY <1>4, <2>1, <2>2 DEF CbackDownload
<1>5. CASE hw_config_cback /\ ~CbackLocalName /\ ~CbackDownload
  BY <1>1, <1>5 DEF hw_config_cback, CbackNoBuffer, CbackIdle, CbackStart,
     CbackUartClock, CbackBaud1, CbackBaud2, CbackBdAddr, CbackReadBdAddr,
     SendUpdateBaud, fileVars
<1>6. CASE ConfigTail
  BY <1>1, <1>6 DEF ConfigTail
<1> QED
  BY <1>2, <1>3, <1>4, <1>5, <1>6 DEF Next

LEMMA HostInv == ConfigInv /\ HostStep => ConfigInv'
<1> SUFFICES ASSUME ConfigInv, HostStep, fw_left' \in PatchFile PROVE ConfigInv'
  BY FileInv DEF ConfigInv, TypeOK, Next
<1> USE BoolFact, BaudFacts, TargetAssumption, FDAssumption
    DEF ConfigInv, TypeOK, Phase, Dispatch, InTail, Fresh, Serving, Link,
        SuccessMeansServing, StdinStaysOpen, CfgState, Command, NoCmd, NoFd,
        fileVars, ctrlVars, answerVars, hostVars
<1>1. CASE VendorInit
  BY <1>1 DEF VendorInit
<1>2. CASE VendorCleanup
  BY <1>2 DEF VendorCleanup
<1>3. CASE PowerOn
  BY <1>3 DEF PowerOn
<1>4. CASE PowerOff
  BY <1>4 DEF PowerOff
<1>5. CASE UserialOpen
  BY <1>5 DEF UserialOpen
<1>6. CASE UserialClose
  BY <1>6 DEF UserialClose
<1>7. CASE hw_config_start
  <2> USE DEF hw_config_start, ResetConfig
  <2>1. TypeOK'
    BY <1>7
  <2>2. Phase' /\ Dispatch'
    BY <1>7
  <2>3. (InTail /\ Fresh /\ Serving /\ SuccessMeansServing /\ StdinStaysOpen)'
    BY <1>7
  <2> QED
    BY <2>1, <2>2, <2>3
<1> QED
  BY <1>1, <1>2, <1>3, <1>4, <1>5, <1>6, <1>7 DEF HostStep

LEMMA CbackInv == ConfigInv /\ hw_config_cback => ConfigInv'
<1> SUFFICES ASSUME ConfigInv, hw_config_cback, fw_left' \in PatchFile
             PROVE  ConfigInv'
  BY FileInv DEF ConfigInv, TypeOK, Next
<1> USE BoolFact, BaudFacts, TargetAssumption, FDAssumption
    DEF ConfigInv, TypeOK, Phase, Dispatch, InTail, Fresh, Serving, Link,
        SuccessMeansServing, StdinStaysOpen, CfgState, Command, NoCmd, NoFd,
        fileVars, ctrlVars, answerVars, hostVars, AnswerDue, Hears, Proceeds,
        Obeys, Buffers, Abort, Send, Accepted, Refused, SetHostBaud
<1>1. CASE CbackNoBuffer
  BY <1>1 DEF CbackNoBuffer
<1>2. CASE CbackIdle
  BY <1>2 DEF CbackIdle
<1>3. CASE CbackStart
  BY <1>3 DEF CbackStart, SendUpdateBaud
<1>4. CASE CbackUartClock
  BY <1>4 DEF CbackUartClock, SendUpdateBaud
<1>5. CASE CbackBaud1
  BY <1>5 DEF CbackBaud1
<1>6. CASE CbackLocalName
  <2>1. CASE NoPatch
    BY <1>6, <2>1 DEF CbackLocalName, NoPatch
  <2>2. CASE \E fd \in FD \ openFds, file \in PatchFiles : OpenPatch(fd, file)
    BY <1>6, <2>2 DEF CbackLocalName, OpenPatch
  <2> QED
    BY <1>6, <2>1, <2>2 DEF CbackLocalName
<1>7. CASE CbackDownload
  <2>1. CASE SendRecord
    <3>1. Head(fw_left) \in {"WRITE_RAM", "LAUNCH_RAM", "CUT_RECORD"}
      BY <2>1 DEF SendRecord, MoreRecords, PatchFile, Record
    <3> QED
      BY <1>7, <2>1, <3>1 DEF CbackDownload, SendRecord, MoreRecords
  <2>2. CASE EndDownload
    BY <1>7, <2>2 DEF CbackDownload, EndDownload
  <2> QED
    BY <1>7, <2>1, <2>2 DEF CbackDownload
<1>8. CASE CbackBaud2
  BY <1>8 DEF CbackBaud2, Complete
<1>9. CASE CbackBdAddr
  BY <1>9 DEF CbackBdAddr, Complete
<1>10. CASE CbackReadBdAddr
  BY <1>10 DEF CbackReadBdAddr, Complete
<1> QED
  BY <1>1, <1>2, <1>3, <1>4, <1>5, <1>6, <1>7, <1>8, <1>9, <1>10
     DEF hw_config_cback

LEMMA TailInv == ConfigInv /\ ConfigTail => ConfigInv'
<1> SUFFICES ASSUME ConfigInv, ConfigTail, fw_left' \in PatchFile
             PROVE  ConfigInv'
  BY FileInv DEF ConfigInv, TypeOK, Next
<1> QED
  BY FDAssumption
     DEF ConfigTail, ConfigInv, TypeOK, Phase, Dispatch, InTail, Fresh,
         Serving, Link, SuccessMeansServing, StdinStaysOpen, CfgState,
         Command, NoCmd, NoFd, ctrlVars, hostVars, Buffers

LEMMA StepInv == ConfigInv /\ [Next]_vars => ConfigInv'
<1> SUFFICES ASSUME ConfigInv, [Next]_vars PROVE ConfigInv'
  OBVIOUS
<1>1. CASE UNCHANGED vars
  BY <1>1 DEF ConfigInv, TypeOK, Phase, Dispatch, InTail, Fresh, Serving,
     Link, SuccessMeansServing, StdinStaysOpen, vars, fileVars, ctrlVars,
     answerVars, hostVars
<1> QED
  BY <1>1, HostInv, CbackInv, TailInv DEF Next

\* The inductive invariant holds for every host and every set of patch files.
THEOREM Inductive == Spec => []ConfigInv
<1> QED
  BY InitInv, StepInv, PTL DEF Spec

-----------------------------------------------------------------------------
(* Safety. *)

\* Every variable stays in its type: in particular the library never frees
\* more buffers than it owns.
THEOREM TypeCorrect == Spec => []TypeOK
<1>1. ConfigInv => TypeOK
  BY DEF ConfigInv
<1> QED
  BY <1>1, Inductive, PTL

\* A command in flight can be heard, unless the controller was left in
\* download mode.
THEOREM LinkCorrect == Spec => []LinkAgreement
<1>1. ConfigInv => LinkAgreement
  BY TargetAssumption
     DEF ConfigInv, TypeOK, Phase, Dispatch, LinkAgreement, Link, Command, NoCmd
<1> QED
  BY <1>1, Inductive, PTL

\* No second download: the pass after the patch takes the other branch.
THEOREM OneDownload == Spec => []MinidriverOnlyToRom
<1>1. ConfigInv => MinidriverOnlyToRom
  BY DEF ConfigInv, Phase, MinidriverOnlyToRom
<1> QED
  BY <1>1, Inductive, PTL

\* fwcfg_cb(SUCCESS) is true until the port is closed.
THEOREM SuccessCorrect == Spec => []SuccessMeansServing
<1>1. ConfigInv => SuccessMeansServing
  BY DEF ConfigInv
<1> QED
  BY <1>1, Inductive, PTL

\* The library never closes descriptor 0.
THEOREM StdinCorrect == Spec => []StdinStaysOpen
<1>1. ConfigInv => StdinStaysOpen
  BY DEF ConfigInv
<1> QED
  BY <1>1, Inductive, PTL

-----------------------------------------------------------------------------
(* The service. *)

\* A callback either sends the next command or ends the request, with one
\* answer if there is anybody to answer.
LEMMA CbackAnswers ==
  ASSUME ConfigInv, hw_config_cback
  PROVE  /\ cmd # NoCmd
         /\ UNCHANGED <<cbacks, uart, starts>>
         /\ \/ cmd' # NoCmd /\ UNCHANGED <<answers, result>>
            \/ /\ cmd' = NoCmd /\ cbacks /\ answers' = answers + 1
               /\ result' \in {"SUCCESS", "FAIL"}
            \/ cmd' = NoCmd /\ ~cbacks /\ UNCHANGED <<answers, result>>
<1> USE DEF NoCmd, hostVars, answerVars, AnswerDue, Hears, Proceeds, Send,
            Accepted, Refused, Abort
<1>1. CASE CbackNoBuffer
  BY <1>1 DEF CbackNoBuffer
<1>2. CASE CbackIdle \/ CbackStart \/ CbackUartClock \/ CbackBaud1
  BY <1>2 DEF CbackIdle, CbackStart, CbackUartClock, CbackBaud1,
     SendUpdateBaud
<1>3. CASE CbackLocalName
  BY <1>3 DEF CbackLocalName, NoPatch, OpenPatch
<1>4. CASE CbackDownload
  <2>1. CASE SendRecord
    <3>1. Head(fw_left) # "none"
      BY <2>1 DEF SendRecord, MoreRecords, PatchFile, Record, ConfigInv, TypeOK
    <3> QED
      BY <1>4, <2>1, <3>1 DEF CbackDownload, SendRecord
  <2>2. CASE EndDownload
    BY <1>4, <2>2 DEF CbackDownload, EndDownload
  <2> QED
    BY <1>4, <2>1, <2>2 DEF CbackDownload
<1>5. CASE CbackBaud2 \/ CbackBdAddr \/ CbackReadBdAddr
  BY <1>5 DEF CbackBaud2, CbackBdAddr, CbackReadBdAddr, Complete
<1> QED
  BY <1>1, <1>2, <1>3, <1>4, <1>5 DEF hw_config_cback

\* Serves is a Boolean, and stays what it is with the two speeds and the
\* controller.
LEMMA ServesFacts ==
  /\ Serves \in BOOLEAN /\ Serves' \in BOOLEAN
  /\ UNCHANGED <<hostBaud, ctrlVars>> => Serves' = Serves
BY DEF Serves, ctrlVars

LEMMA ServiceInit == Init => Service!Init
<1> SUFFICES ASSUME Init PROVE Service!Init
  OBVIOUS
<1>1. Serves = FALSE
  BY ServesFacts, TargetAssumption DEF Init, Serves
<1> QED
  BY <1>1 DEF Init, Service!Init, NoCmd

LEMMA ServiceStep ==
  ConfigInv /\ [Next]_vars /\ ConfigInv' => [Service!Next]_Service!vars
<1> SUFFICES ASSUME ConfigInv, [Next]_vars, ConfigInv'
             PROVE  Service!Next \/ UNCHANGED Service!vars
  OBVIOUS
<1> USE BoolFact, ServesFacts
    DEF Service!vars, Service!counts, Service!Next, ConfigInv, TypeOK, Phase,
        NoCmd, fileVars, answerVars, hostVars
<1>1. CASE HostStep
  <2>1. CASE hw_config_start
    <3>1. Serves' = Serves
      BY <2>1 DEF hw_config_start
    <3> QED
      BY <2>1, <3>1 DEF hw_config_start, Service!Request
  <2>2. CASE UserialClose
    <3>1. Serves' = Serves
      BY <2>2 DEF UserialClose
    <3> QED
      BY <2>2, <3>1 DEF UserialClose, Service!Close
  <2>3. CASE UserialOpen
    <3>1. Serves' = FALSE
      BY <2>3, BaudFacts, TargetAssumption DEF UserialOpen, Serves
    <3> QED
      BY <2>3, <3>1 DEF UserialOpen, Service!Open
  <2>4. CASE VendorInit
    <3>1. Serves' = Serves
      BY <2>4 DEF VendorInit
    <3> QED
      BY <2>4, <3>1 DEF VendorInit, Service!Attach
  <2>5. CASE VendorCleanup
    <3>1. Serves' = Serves
      BY <2>5 DEF VendorCleanup
    <3> QED
      BY <2>5, <3>1 DEF VendorCleanup, Service!Detach
  <2>6. CASE PowerOn \/ PowerOff
    <3>1. Serves' = FALSE
      BY <2>6, TargetAssumption DEF PowerOn, PowerOff, Serves
    <3> QED
      BY <2>6, <3>1 DEF PowerOn, PowerOff, Service!Power
  <2> QED
    BY <1>1, <2>1, <2>2, <2>3, <2>4, <2>5, <2>6 DEF HostStep
<1>2. CASE hw_config_cback
  <2>1. /\ cmd # NoCmd
        /\ UNCHANGED <<cbacks, uart, starts>>
        /\ \/ cmd' # NoCmd /\ UNCHANGED <<answers, result>>
           \/ /\ cmd' = NoCmd /\ cbacks /\ answers' = answers + 1
              /\ result' \in {"SUCCESS", "FAIL"}
           \/ cmd' = NoCmd /\ ~cbacks /\ UNCHANGED <<answers, result>>
    BY <1>2, CbackAnswers
  <2>2. CASE cmd' # NoCmd /\ UNCHANGED <<answers, result>>
    BY <2>1, <2>2 DEF Service!Work
  <2>3. CASE /\ cmd' = NoCmd /\ cbacks /\ answers' = answers + 1
             /\ result' \in {"SUCCESS", "FAIL"}
    <3>1. result' = "SUCCESS" => Serves'
      BY DEF SuccessMeansServing, Serves
    <3> QED
      BY <2>1, <2>3, <3>1 DEF Service!Answer
  <2>4. CASE cmd' = NoCmd /\ ~cbacks /\ UNCHANGED <<answers, result>>
    BY <2>1, <2>4 DEF Service!Drop
  <2> QED
    BY <2>1, <2>2, <2>3, <2>4
<1>3. CASE ConfigTail
  <2>1. Serves' = Serves
    BY <1>3 DEF ConfigTail
  <2> QED
    BY <1>3, <2>1 DEF ConfigTail
<1>4. CASE UNCHANGED vars
  <2>1. Serves' = Serves
    BY <1>4 DEF vars
  <2> QED
    BY <1>4, <2>1 DEF vars
<1> QED
  BY <1>1, <1>2, <1>3, <1>4 DEF Next

\* Firmware configuration implements the service: whatever the host, the
\* controller and the patch files do, a request is answered at most once,
\* while attached, on the port it was made on, and from an answer of SUCCESS
\* until that port is closed the controller serves at the target speed.
THEOREM ServiceCorrect == Spec => ServiceSpec
<1> QED
  BY ServiceInit, ServiceStep, Inductive, PTL
     DEF Spec, ServiceSpec, Service!Spec

\* What the service alone implies: there are never more answers than requests,
\* and a request in progress has none, over any number of ports, sessions and
\* abandoned configurations.
THEOREM AtMostOneAnswer == Spec => []Service!AtMostOnce
<1>1. Service!Init => Service!AtMostOnce
  BY DEF Service!Init, Service!AtMostOnce
<1>2. TypeOK /\ Service!AtMostOnce /\ [Service!Next]_Service!vars
      => Service!AtMostOnce'
  BY DEF TypeOK, Service!AtMostOnce, Service!Next, Service!vars, Service!counts,
     Service!Attach, Service!Detach, Service!Power, Service!Open, Service!Close,
     Service!Request, Service!Work, Service!Answer, Service!Drop
<1> QED
  BY <1>1, <1>2, TypeCorrect, ServiceCorrect, PTL DEF ServiceSpec, Service!Spec

-----------------------------------------------------------------------------
(* Progress: a request ends after a bounded number of commands.            *)

\* How far the request in flight is from its end.  The two passes through
\* RESET and UPDATE_BAUDRATE differ in f_set_baud_2.
Stage ==
  CASE cmd = "RESET"                    -> IF f_set_baud_2 THEN 6 ELSE 11
    [] cmd = "WRITE_UART_CLOCK_SETTING" -> IF f_set_baud_2 THEN 5 ELSE 10
    [] cmd = "UPDATE_BAUDRATE"          -> IF f_set_baud_2 THEN 4 ELSE 9
    [] cmd = "READ_LOCAL_NAME"          -> 8
    [] cmd \in {"DOWNLOAD_MINIDRV", "WRITE_RAM", "LAUNCH_RAM", "CUT_RECORD"} -> 7
    [] cmd = "READ_LOCAL_BDADDR"        -> 3
    [] cmd = "WRITE_BD_ADDR"            -> 2
    [] OTHER                            -> 0

\* The next command belongs to a later stage, or to the download with less of
\* the file left.
Nearer == \/ Stage' < Stage
          \/ Stage' = Stage /\ Len(fw_left') < Len(fw_left)

LEMMA CbackNearer ==
  ASSUME ConfigInv, hw_config_cback
  PROVE  cmd' = NoCmd \/ Nearer
<1> USE DEF ConfigInv, TypeOK, Dispatch, Nearer, Stage, NoCmd, AnswerDue, Hears,
            Proceeds, Abort, Send, Accepted, Refused
<1>1. CASE CbackNoBuffer \/ CbackIdle
  BY <1>1 DEF CbackNoBuffer, CbackIdle
<1>2. CASE CbackStart
  BY <1>2 DEF CbackStart, SendUpdateBaud
<1>3. CASE CbackUartClock
  BY <1>3 DEF CbackUartClock, SendUpdateBaud
<1>4. CASE CbackBaud1
  BY <1>4 DEF CbackBaud1
<1>5. CASE CbackLocalName
  BY <1>5 DEF CbackLocalName, NoPatch, OpenPatch
<1>6. CASE CbackDownload
  <2>1. Stage = 7
    BY <1>6 DEF CbackDownload
  <2>2. CASE SendRecord
    <3>1. Head(fw_left) \in {"WRITE_RAM", "LAUNCH_RAM", "CUT_RECORD"}
      BY <2>2 DEF SendRecord, MoreRecords, PatchFile, Record
    <3>2. fw_left' = Tail(fw_left) /\ Len(fw_left') < Len(fw_left)
      BY <2>2 DEF SendRecord, MoreRecords, PatchFile
    <3>3. cmd' = NoCmd \/ Stage' = 7
      BY <2>2, <3>1 DEF SendRecord
    <3> QED
      BY <2>1, <3>2, <3>3
  <2>3. CASE EndDownload
    BY <2>1, <2>3 DEF EndDownload
  <2> QED
    BY <1>6, <2>2, <2>3 DEF CbackDownload
<1>7. CASE CbackBaud2 \/ CbackBdAddr \/ CbackReadBdAddr
  BY <1>7 DEF CbackBaud2, CbackBdAddr, CbackReadBdAddr, Complete
<1> QED
  BY <1>1, <1>2, <1>3, <1>4, <1>5, <1>6, <1>7 DEF hw_config_cback

\* Every callback ends the request or brings its end nearer: the second pass
\* through HW_CFG_START is the last (829, 786), and no answer of the
\* controller, refusal of xmit_cb or patch file makes the program loop.
THEOREM ConfigAdvances ==
  Spec => [][hw_config_cback => cmd' = NoCmd \/ Nearer]_vars
<1>1. ConfigInv /\ [Next]_vars => [hw_config_cback => cmd' = NoCmd \/ Nearer]_vars
  BY CbackNearer
<1> QED
  BY <1>1, Inductive, PTL DEF Spec

\* A request in flight is never stuck: the controller hears its command, or
\* was left in download mode by a patch file, where only power off helps.
THEOREM HeardOrDeaf == Spec => [](cmd # NoCmd => Hears \/ Deaf)
<1>1. ConfigInv => (cmd # NoCmd => Hears \/ Deaf)
  BY TargetAssumption
     DEF ConfigInv, TypeOK, Phase, Dispatch, Link, Hears, Deaf, Command, NoCmd
<1> QED
  BY <1>1, Inductive, PTL

-----------------------------------------------------------------------------
(* A host that waits: it takes no step while a command is in flight, nor   *)
(* before the callback has returned.                                       *)

Waits == ~RestartInCallback /\ ~AbandonMidway

\* The patch file is open only while it is being downloaded, or while the
\* address is written because the download was refused.
PatchOpen ==
  /\ fw_fd \in FD => /\ cmd # NoCmd \/ tail # "none"
                     /\ state \in {"DL_MINIDRIVER", "DL_FW_PATCH", "SET_BD_ADDR"}
  /\ tail # "none" => cmd = NoCmd

\* The callbacks are there from the request to the end of the last callback.
Attended == cmd # NoCmd \/ tail # "none" => cbacks

WaitingInv == PatchOpen /\ Attended /\ NoDescriptorLeak /\ BuffersAccounted

LEMMA WaitingHost ==
  ASSUME Waits, ConfigInv, WaitingInv, HostStep
  PROVE  WaitingInv'
<1> USE FDAssumption
    DEF Waits, HostMayAct, ConfigInv, TypeOK, WaitingInv, PatchOpen, Attended,
        NoDescriptorLeak, BuffersAccounted, NoCmd, NoFd, fileVars, ctrlVars,
        answerVars, hostVars
<1>1. CASE VendorInit \/ VendorCleanup \/ PowerOn \/ PowerOff \/ UserialOpen
  BY <1>1 DEF VendorInit, VendorCleanup, PowerOn, PowerOff, UserialOpen
<1>2. CASE UserialClose
  BY <1>2 DEF UserialClose
<1>3. CASE hw_config_start
  BY <1>3 DEF hw_config_start, ResetConfig
<1> QED
  BY <1>1, <1>2, <1>3 DEF HostStep

LEMMA WaitingBuffers ==
  ASSUME ConfigInv, Attended, BuffersAccounted, hw_config_cback
  PROVE  Attended' /\ BuffersAccounted'
<1> USE DEF ConfigInv, TypeOK, Attended, BuffersAccounted, hostVars, answerVars,
            NoCmd, AnswerDue, Hears, Proceeds, Buffers, Abort, Send, Accepted, Refused
<1>1. CASE CbackNoBuffer
  BY <1>1 DEF CbackNoBuffer
<1>2. CASE CbackIdle \/ CbackBaud1
  BY <1>2 DEF CbackIdle, CbackBaud1
<1>6. CASE CbackStart
  BY <1>6 DEF CbackStart, SendUpdateBaud
<1>7. CASE CbackUartClock
  BY <1>7 DEF CbackUartClock, SendUpdateBaud
<1>3. CASE CbackLocalName
  BY <1>3 DEF CbackLocalName, NoPatch, OpenPatch
<1>4. CASE CbackDownload
  BY <1>4 DEF CbackDownload, SendRecord, EndDownload
<1>5. CASE CbackBaud2 \/ CbackBdAddr \/ CbackReadBdAddr
  BY <1>5 DEF CbackBaud2, CbackBdAddr, CbackReadBdAddr, Complete
<1> QED
  BY <1>1, <1>2, <1>3, <1>4, <1>5, <1>6, <1>7
     DEF hw_config_cback

LEMMA WaitingFiles ==
  ASSUME ConfigInv, PatchOpen, NoDescriptorLeak, hw_config_cback
  PROVE  PatchOpen' /\ NoDescriptorLeak'
<1> USE FDAssumption
    DEF ConfigInv, TypeOK, Dispatch, PatchOpen, NoCmd, NoFd, fileVars,
        answerVars, AnswerDue, Hears, Proceeds, Abort, Send, Accepted, Refused
<1>1. CASE CbackNoBuffer
  BY <1>1 DEF CbackNoBuffer, NoDescriptorLeak
<1>2. CASE CbackIdle \/ CbackBaud1
  BY <1>2 DEF CbackIdle, CbackBaud1, NoDescriptorLeak
<1>3. CASE CbackStart
  BY <1>3 DEF CbackStart, SendUpdateBaud, NoDescriptorLeak
<1>4. CASE CbackUartClock
  BY <1>4 DEF CbackUartClock, SendUpdateBaud, NoDescriptorLeak
<1>5. CASE CbackLocalName
  BY <1>5 DEF CbackLocalName, NoPatch, OpenPatch, NoDescriptorLeak
<1>6. CASE CbackDownload
  <2>1. CASE SendRecord
    <3>1. Head(fw_left) # "none"
      BY <2>1 DEF SendRecord, MoreRecords, PatchFile, Record
    <3> QED
      BY <1>6, <2>1, <3>1 DEF CbackDownload, SendRecord, NoDescriptorLeak
  <2>2. CASE EndDownload
    <3>1. fw_fd # 0
      BY <1>6 DEF CbackDownload, Phase
    <3>2. openFds' = {0}
      BY <2>2, <3>1 DEF EndDownload, NoDescriptorLeak
    <3>3. NoDescriptorLeak'
      BY <2>2, <3>2 DEF EndDownload, NoDescriptorLeak
    <3>4. PatchOpen'
      BY <1>6, <2>2 DEF CbackDownload, EndDownload
    <3> QED
      BY <3>3, <3>4
  <2> QED
    BY <1>6, <2>1, <2>2 DEF CbackDownload
<1>7. CASE CbackBaud2
  BY <1>7 DEF CbackBaud2, Complete, NoDescriptorLeak
<1>8. CASE CbackBdAddr
  BY <1>8 DEF CbackBdAddr, Complete, NoDescriptorLeak
<1>9. CASE CbackReadBdAddr
  BY <1>9 DEF CbackReadBdAddr, Complete, NoDescriptorLeak
<1> QED
  BY <1>1, <1>2, <1>3, <1>4, <1>5, <1>6, <1>7, <1>8, <1>9
     DEF hw_config_cback

LEMMA WaitingStep ==
  ASSUME Waits, ConfigInv, WaitingInv, [Next]_vars
  PROVE  WaitingInv'
<1>1. CASE HostStep
  BY <1>1, WaitingHost
<1>2. CASE hw_config_cback
  BY <1>2, WaitingBuffers, WaitingFiles DEF WaitingInv
<1>3. CASE ConfigTail
  <2>1. fw_fd # 0
    BY <1>3 DEF ConfigTail, ConfigInv, InTail
  <2>2. openFds' = {0}
    BY <1>3, <2>1 DEF ConfigTail, WaitingInv, NoDescriptorLeak, ConfigInv,
       TypeOK, NoFd
  <2>3. NoDescriptorLeak' /\ PatchOpen' /\ Attended'
    BY <1>3, <2>2, FDAssumption DEF ConfigTail, WaitingInv, NoDescriptorLeak,
       PatchOpen, Attended, NoFd, NoCmd, hostVars
  <2>4. BuffersAccounted'
    BY <1>3 DEF ConfigTail, WaitingInv, BuffersAccounted, Attended, Buffers,
       ConfigInv, TypeOK, hostVars
  <2> QED
    BY <2>3, <2>4 DEF WaitingInv
<1>4. CASE UNCHANGED vars
  BY <1>4 DEF vars, fileVars, answerVars, hostVars, WaitingInv, PatchOpen,
     Attended, NoDescriptorLeak, BuffersAccounted
<1> QED
  BY <1>1, <1>2, <1>3, <1>4 DEF Next

LEMMA WaitingInductive == ASSUME Waits PROVE Spec => []WaitingInv
<1>1. Init => WaitingInv
  BY FDAssumption DEF Init, WaitingInv, PatchOpen, Attended, NoDescriptorLeak,
     BuffersAccounted, NoCmd, NoFd
<1>2. ConfigInv /\ WaitingInv /\ [Next]_vars => WaitingInv'
  BY WaitingStep
<1> QED
  BY <1>1, <1>2, Inductive, PTL DEF Spec

\* For a host that waits, the patch file is the only descriptor the library
\* has open, and no path through the callback leaves it open.
THEOREM FilesCorrect == ASSUME Waits PROVE Spec => []NoDescriptorLeak
<1>1. WaitingInv => NoDescriptorLeak
  BY DEF WaitingInv
<1> QED
  BY <1>1, WaitingInductive, PTL

\* For a host that waits, every HCI buffer handed to the callback or allocated
\* by it is freed or handed on, once.
THEOREM BuffersCorrect == ASSUME Waits PROVE Spec => []BuffersAccounted
<1>1. WaitingInv => BuffersAccounted
  BY DEF WaitingInv
<1> QED
  BY <1>1, WaitingInductive, PTL
=============================================================================
