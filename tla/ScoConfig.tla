------------------------------- MODULE ScoConfig -------------------------------
(***************************************************************************)
(* The configuration of the controller's audio port in hardware.c:         *)
(* hw_sco_config, called once in a session of the host stack, and          *)
(* hw_set_audio_state, which starts a chain of commands.  Each callback of *)
(* a chain sends the next command, or ends the chain with audio_state_cb:  *)
(*                                                                         *)
(*   ENABLE_WBS, I2SPCM                           on an I2S bus            *)
(*   ENABLE_WBS, I2SPCM, SCO_PCM_INT, DATA_FORMAT on a PCM bus             *)
(*                                                                         *)
(* The chains share the statics that hold the port's clock.  Commands are  *)
(* answered in the order they were sent.  While the library stays loaded   *)
(* its statics keep their values from session to session; the controller   *)
(* does not.                                                               *)
(***************************************************************************)
EXTENDS Naturals, Sequences

CONSTANTS
  Boards,        \* the boards the library may run on
  MaxInFlight    \* bound on the commands in flight

Clock   == 0..4
INVALID == 255     \* INVALID_SCO_CLOCK_RATE

\* i2s:   SCO_USE_I2S_INTERFACE
\* nbs:   SCO_I2SPCM_IF_CLOCK_RATE or SCO_PCM_IF_CLOCK_RATE, by bus
\* wbs:   SCO_I2SPCM_IF_CLOCK_RATE4WBS
\* stays: the library stays loaded from one session to the next
\* waits: the board's host waits for an answer before it acts again
Board == [i2s: BOOLEAN, nbs: Clock, wbs: Clock, stays: BOOLEAN, waits: BOOLEAN]

\* Boards whose clocks survive a session: wide-band calls do not change them.
Steady(b) == b.stays => b.wbs <= b.nbs

ASSUME BoardAssumption == Boards \subseteq Board
ASSUME BoundAssumption == MaxInFlight \in Nat

Codec  == {"CVSD", "MSBC"}
\* The port as the controller has it after power on: the codec, the sample
\* rate, by codec, and the clocks of the I2SPCM and the PCM interface.
PowerOnPort == [codec |-> "CVSD", rate |-> "CVSD", clock |-> INVALID, pcm |-> INVALID]

Command == [op: {"ENABLE_WBS", "I2SPCM", "SCO_PCM_INT", "DATA_FORMAT"},
            codec: Codec, clock: Clock \cup {INVALID}]

VARIABLES
  board,                   \* the board the library runs on
  cbacks,                  \* bt_vendor_cbacks # NULL
  if_clock,                \* bt_sco_i2spcm_param[3] or bt_sco_param[1], by bus
  sco_bus_clock_rate,
  sco_bus_wbs_clock_rate,
  cmds,                    \* the commands in flight, oldest first
  port,                    \* the controller's audio port
  configured,              \* scocfg_cb(SUCCESS) was called in this session
  asked,                   \* the codec last asked for in this session
  owed,                    \* requests not yet answered by audio_state_cb
  answer,                  \* the last answer, "none" since the last request
  crashed                  \* a call was made through NULL

clockVars  == <<if_clock, sco_bus_clock_rate, sco_bus_wbs_clock_rate>>
hostVars   == <<board, cbacks, configured, asked>>
answerVars == <<owed, answer>>
vars == <<cmds, port, crashed, clockVars, hostVars, answerVars>>

I2S         == board.i2s
NbsClock    == board.nbs
WbsClock    == board.wbs
StaysLoaded == board.stays
Waits       == board.waits

\* The initial values of the clocks.
Loaded(clock, nbs, wbs) == clock = NbsClock /\ nbs = INVALID /\ wbs = INVALID

Init ==
  /\ board \in Boards /\ cbacks = FALSE
  /\ Loaded(if_clock, sco_bus_clock_rate, sco_bus_wbs_clock_rate)
  /\ cmds = <<>> /\ port = PowerOnPort
  /\ configured = FALSE /\ asked = "CVSD"
  /\ owed = 0 /\ answer = "none" /\ crashed = FALSE

-----------------------------------------------------------------------------
(* Commands and answers.  rest: what stays in flight; n: what is owed.     *)

Cmd(o, cd, ck) == [op |-> o, codec |-> cd, clock |-> ck]

Sent(rest, c, n) ==
  /\ cmds' = Append(rest, c) /\ owed' = n /\ UNCHANGED crashed

\* The host's own request is sent.
Requested(c) == Sent(cmds, c, owed + 1) /\ answer' = "none"

audio_state_cb(result, rest, n) ==
  /\ cmds' = rest /\ owed' = n - 1 /\ answer' = result /\ UNCHANGED crashed

\* Without bt_vendor_cbacks a chain just stops.
Stopped == cmds' = Tail(cmds) /\ UNCHANGED <<answerVars, crashed>>

BusClock(codec) ==
  IF codec = "MSBC" THEN sco_bus_wbs_clock_rate ELSE sco_bus_clock_rate

\* Mutant of hw_sco_i2spcm_config: a refused command is not reported.
hw_sco_i2spcm_config_Silent(codec, rest, n) ==
  /\ if_clock' = BusClock(codec)
  /\ \/ Sent(rest, Cmd("I2SPCM", codec, if_clock'), n)
     \/ cmds' = rest /\ owed' = n /\ UNCHANGED crashed
  /\ UNCHANGED answer

\* alloc fails; or the statics are overwritten and xmit_cb accepts or refuses.
hw_sco_i2spcm_config(codec, rest, n) ==
  \/ audio_state_cb("FAIL", rest, n) /\ UNCHANGED if_clock
  \/ /\ if_clock' = BusClock(codec)
     /\ \/ Sent(rest, Cmd("I2SPCM", codec, if_clock'), n) /\ UNCHANGED answer
        \/ audio_state_cb("FAIL", rest, n)

-----------------------------------------------------------------------------
(* The host stack. *)

HostMayAct == ~crashed /\ (Waits => owed = 0)

\* A new session: the controller was powered on again, and the HCI library
\* forgot what was in flight.
VendorInit ==
  /\ HostMayAct /\ ~cbacks /\ cbacks' = TRUE
  /\ IF StaysLoaded THEN UNCHANGED clockVars
     ELSE Loaded(if_clock', sco_bus_clock_rate', sco_bus_wbs_clock_rate')
  /\ configured' = FALSE
  /\ asked' = "CVSD" /\ port' = PowerOnPort
  /\ cmds' = <<>> /\ owed' = 0 /\ answer' = "none"
  /\ UNCHANGED <<board, crashed>>

VendorCleanup ==
  /\ HostMayAct /\ cbacks /\ cbacks' = FALSE
  /\ UNCHANGED <<board, cmds, port, crashed, clockVars, configured, asked,
                 answerVars>>

\* Mutant of DefaultWbsClock: it is not raised to the narrow-band clock.
DefaultWbsClock_Plain(nbs) == WbsClock

DefaultWbsClock(nbs) == IF WbsClock < nbs THEN nbs ELSE WbsClock

\* SCO_CFG is answered before hw_sco_config returns, with SUCCESS whatever
\* became of the command to configure the port.
scocfg_cb(result) == configured' = (result = "SUCCESS")

\* On an I2S bus the port is configured at once, and audio_state_cb tells how
\* that went.
hw_sco_config ==
  /\ HostMayAct /\ cbacks /\ ~configured
  /\ sco_bus_clock_rate' = if_clock
  /\ sco_bus_wbs_clock_rate' =
       IF sco_bus_wbs_clock_rate = INVALID THEN DefaultWbsClock(if_clock)
       ELSE sco_bus_wbs_clock_rate
  /\ \/ /\ I2S  \* BusClock("CVSD") is sco_bus_clock_rate', which is if_clock
        /\ UNCHANGED if_clock
        /\ Requested(Cmd("I2SPCM", "CVSD", if_clock))
           \/ audio_state_cb("FAIL", cmds, owed + 1)
     \/ ~I2S /\ UNCHANGED <<if_clock, cmds, answerVars, crashed>>
  /\ scocfg_cb("SUCCESS")
  /\ UNCHANGED <<board, port, cbacks, asked>>

\* Mutant of hw_set_audio_state: the request is answered before the chain ran.
hw_set_audio_state_Early(codec) ==
  /\ HostMayAct /\ cbacks /\ configured /\ Len(cmds) < MaxInFlight
  /\ cmds' = Append(cmds, Cmd("ENABLE_WBS", codec, INVALID))
  /\ answer' = "SUCCESS" /\ asked' = codec
  /\ UNCHANGED <<board, port, clockVars, cbacks, configured, owed, crashed>>

\* Returns -1 and does nothing when the command cannot be sent, or when there
\* are no callbacks.  Any codec but mSBC is taken for CVSD.
hw_set_audio_state(codec) ==
  /\ HostMayAct /\ cbacks /\ configured /\ Len(cmds) < MaxInFlight
  /\ Requested(Cmd("ENABLE_WBS", codec, INVALID))
  /\ asked' = codec
  /\ UNCHANGED <<board, port, clockVars, cbacks, configured>>

-----------------------------------------------------------------------------
(* The controller answers the oldest command, and its callback runs.       *)

Oldest(o) == ~crashed /\ cmds # <<>> /\ Head(cmds).op = o
HostIdle  == UNCHANGED <<hostVars, sco_bus_clock_rate, sco_bus_wbs_clock_rate>>

\* What the controller does with a command it accepts.
Obey(c) ==
  port' = CASE c.op = "ENABLE_WBS"  -> [port EXCEPT !.codec = c.codec]
            [] c.op = "I2SPCM"      -> [port EXCEPT !.rate = c.codec, !.clock = c.clock]
            [] c.op = "SCO_PCM_INT" -> [port EXCEPT !.pcm = c.clock]
            [] OTHER                -> port

\* Mutant of Rejected: the status of the event is not looked at.
Rejected_Unchecked ==
  /\ ~crashed /\ cmds # <<>> /\ UNCHANGED <<port, if_clock>>
  /\ IF cbacks THEN audio_state_cb("SUCCESS", Tail(cmds), owed) ELSE Stopped
  /\ HostIdle

\* A command complete event with an error.
Rejected ==
  /\ ~crashed /\ cmds # <<>> /\ UNCHANGED <<port, if_clock>>
  /\ IF cbacks THEN audio_state_cb("FAIL", Tail(cmds), owed) ELSE Stopped
  /\ HostIdle

\* hw_set_MSBC_codec_cback and hw_set_CVSD_codec_cback.  Without callbacks
\* hw_sco_i2spcm_config calls audio_state_cb through NULL.
CodecSet ==
  /\ Oldest("ENABLE_WBS") /\ Obey(Head(cmds))
  /\ IF cbacks THEN hw_sco_i2spcm_config(Head(cmds).codec, Tail(cmds), owed)
     ELSE /\ crashed' = TRUE /\ cmds' = Tail(cmds)
          /\ UNCHANGED <<if_clock, answerVars>>
  /\ HostIdle

\* Mutant of Continue: without the return, FAIL follows the command.
Continue_NoReturn(c) ==
  IF cbacks THEN /\ cmds' = Append(Tail(cmds), c) /\ owed' = owed - 1
                 /\ answer' = "FAIL" /\ UNCHANGED crashed
            ELSE Stopped

\* The next command of a chain; FAIL when it cannot be sent.
Continue(c) ==
  IF cbacks THEN \/ Sent(Tail(cmds), c, owed) /\ UNCHANGED answer
                 \/ audio_state_cb("FAIL", Tail(cmds), owed)
            ELSE Stopped
Finish ==
  IF cbacks THEN audio_state_cb("SUCCESS", Tail(cmds), owed) ELSE Stopped

\* Mutant of PortConfigured: the PCM interface is left as it was.
PortConfigured_NoPcm ==
  /\ Oldest("I2SPCM") /\ Obey(Head(cmds)) /\ Finish /\ UNCHANGED if_clock /\ HostIdle

\* hw_sco_i2spcm_cfg_cback, by the opcode of the event.
PortConfigured ==
  /\ Oldest("I2SPCM") /\ Obey(Head(cmds))
  /\ IF I2S THEN Finish ELSE Continue(Cmd("SCO_PCM_INT", "CVSD", if_clock))
  /\ UNCHANGED if_clock /\ HostIdle

PcmConfigured ==
  /\ Oldest("SCO_PCM_INT") /\ Obey(Head(cmds))
  /\ Continue(Cmd("DATA_FORMAT", "CVSD", INVALID))
  /\ UNCHANGED if_clock /\ HostIdle

FormatConfigured ==
  /\ Oldest("DATA_FORMAT") /\ Obey(Head(cmds)) /\ Finish
  /\ UNCHANGED if_clock /\ HostIdle

Callback == Rejected \/ CodecSet \/ PortConfigured \/ PcmConfigured
            \/ FormatConfigured

HostStep == \/ VendorInit \/ VendorCleanup \/ hw_sco_config
            \/ \E codec \in Codec : hw_set_audio_state(codec)

Next == HostStep \/ Callback

Spec == Init /\ [][Next]_vars

\* The controller answers every command, and the HCI library's thread runs.
FairSpec == Spec /\ WF_vars(Callback)

-----------------------------------------------------------------------------
(* Properties. *)

\* Type invariant.
TypeOK ==
  /\ board \in Boards
  /\ cbacks \in BOOLEAN /\ configured \in BOOLEAN /\ crashed \in BOOLEAN
  /\ if_clock \in Clock \cup {INVALID}
  /\ sco_bus_clock_rate \in Clock \cup {INVALID}
  /\ sco_bus_wbs_clock_rate \in Clock \cup {INVALID}
  /\ cmds \in Seq(Command)
  /\ port \in [codec: Codec, rate: Codec, clock: Clock \cup {INVALID},
               pcm: Clock \cup {INVALID}]
  /\ asked \in Codec
  /\ owed \in Nat /\ answer \in {"none", "SUCCESS", "FAIL"}

\* A chain never forks and never vanishes: each request that was taken up has
\* one command in flight until audio_state_cb answers it, once, whichever step
\* fails (hardware.c 1018-1071, 1331-1336, 1391-1399).
AnsweredOnce == cbacks => owed = Len(cmds)

\* What the board's clock settings promise for a codec (1282, 1290, 1300-1303).
PromisedClock(codec) ==
  IF codec = "MSBC" /\ WbsClock > NbsClock THEN WbsClock ELSE NbsClock

\* A host that waits is told the truth: after audio_state_cb(SUCCESS), and
\* until the host acts again, the controller runs the codec last asked for, and
\* the port runs at the rate and at the clock of that codec; on a PCM bus the
\* PCM interface too.
CodecApplied ==
  Waits /\ cbacks /\ answer = "SUCCESS" =>
    /\ port.codec = asked /\ port.rate = asked
    /\ port.clock = PromisedClock(asked)
    /\ ~I2S => port.pcm = PromisedClock(asked)

\* The codec the port is set for throughout: the same codec, rate and promised
\* clocks.
Served ==
  IF /\ port.rate = port.codec /\ port.clock = PromisedClock(port.codec)
     /\ ~I2S => port.pcm = PromisedClock(port.codec)
  THEN port.codec ELSE "none"

\* The chains of commands provide the service of AudioService, whatever fails
\* and whether or not the host waits.
Service == INSTANCE AudioService
             WITH waits <- Waits, attached <- cbacks, pending <- owed,
                  serves <- Served
ServiceSpec == Service!Spec

\* "set nbs clock rate as the value in SCO_I2SPCM_IF_CLOCK_RATE field" and
\* "[...] in SCO_PCM_IF_CLOCK_RATE field" (1282, 1290), in every session.
NbsRateAsConfigured == configured => sco_bus_clock_rate = NbsClock

\* The host that waits never meets the call through NULL of line 1399: no
\* ENABLE_WBS is in flight when it cleans up.
NoNullCall == Waits => ~crashed

\* A request of a host that waits is answered, or the session ends.
RequestAnswered == Waits /\ cbacks /\ owed > 0 ~> owed = 0 \/ ~cbacks
=============================================================================
