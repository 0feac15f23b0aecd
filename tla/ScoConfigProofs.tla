---------------------------- MODULE ScoConfigProofs ----------------------------
(***************************************************************************)
(* AnsweredOnce holds for every host and every board.  For a host that     *)
(* waits for its answers NoNullCall holds on every board, and success      *)
(* means the codec asked for at the clock the library recorded for it;     *)
(* the proof needs what each command of a chain means: how far the port    *)
(* has been configured when the command is in flight.  On steady boards    *)
(* the recorded clocks are the configured ones, hence CodecApplied.        *)
(***************************************************************************)
EXTENDS ScoConfig, TLAPS

USE BoardAssumption, BoundAssumption
USE DEF Board

-----------------------------------------------------------------------------
(* One command in flight per request. *)

LEMMA BoolFact == TRUE \in BOOLEAN /\ FALSE \in BOOLEAN
OBVIOUS

CountInv == TypeOK /\ AnsweredOnce

\* Sending and answering keep the count, when what stays in flight is counted.
LEMMA SentCounts ==
  ASSUME NEW rest \in Seq(Command), NEW c \in Command, NEW n, n = Len(rest) + 1,
         Sent(rest, c, n)
  PROVE  /\ cmds' \in Seq(Command) /\ owed' \in Nat /\ owed' = Len(cmds')
         /\ crashed' = crashed
BY DEF Sent

LEMMA RequestCounts ==
  ASSUME NEW c \in Command, cmds \in Seq(Command), owed = Len(cmds), Requested(c)
  PROVE  /\ cmds' \in Seq(Command) /\ owed' \in Nat /\ owed' = Len(cmds')
         /\ answer' = "none" /\ crashed' = crashed
BY SentCounts DEF Requested

LEMMA AnswerCounts ==
  ASSUME NEW rest \in Seq(Command), NEW n, n = Len(rest) + 1,
         NEW r \in {"SUCCESS", "FAIL"}, audio_state_cb(r, rest, n)
  PROVE  /\ cmds' = rest /\ owed' \in Nat /\ owed' = Len(rest)
         /\ answer' = r /\ crashed' = crashed
BY DEF audio_state_cb

LEMMA TailFacts ==
  ASSUME NEW s \in Seq(Command), s # <<>>
  PROVE  /\ Head(s) \in Command /\ Tail(s) \in Seq(Command)
         /\ Len(s) = Len(Tail(s)) + 1
OBVIOUS

LEMMA CmdType ==
  ASSUME NEW o \in {"ENABLE_WBS", "I2SPCM", "SCO_PCM_INT", "DATA_FORMAT"},
         NEW cd \in Codec, NEW ck \in Clock \cup {INVALID}
  PROVE  /\ Cmd(o, cd, ck) \in Command /\ Cmd(o, cd, ck).op = o
         /\ Cmd(o, cd, ck).codec = cd /\ Cmd(o, cd, ck).clock = ck
BY DEF Cmd, Command

LEMMA ObeyType ==
  ASSUME TypeOK, NEW c \in Command, Obey(c)
  PROVE  port' \in [codec: Codec, rate: Codec, clock: Clock \cup {INVALID},
                    pcm: Clock \cup {INVALID}]
<1>1. c.codec \in Codec /\ c.clock \in Clock \cup {INVALID}
  BY DEF Command
<1>2. \/ port' = [port EXCEPT !.codec = c.codec]
      \/ port' = [port EXCEPT !.rate = c.codec, !.clock = c.clock]
      \/ port' = [port EXCEPT !.pcm = c.clock]
      \/ port' = port
  BY DEF Obey
<1> QED BY <1>1, <1>2 DEF TypeOK

LEMMA CountInit == Init => CountInv
<1>1. ASSUME Init PROVE TypeOK
  <2>1. if_clock \in Clock
    BY <1>1 DEF Init, Loaded, NbsClock
  <2>2. cmds \in Seq(Command) /\ owed \in Nat /\ board \in Boards
    BY <1>1 DEF Init
  <2> QED BY <1>1, <2>1, <2>2 DEF Init, TypeOK, Loaded, PowerOnPort, Codec
<1>2. ASSUME Init PROVE AnsweredOnce
  BY <1>2 DEF Init, AnsweredOnce
<1> QED BY <1>1, <1>2 DEF CountInv

LEMMA CountHost ==
  ASSUME CountInv, HostStep PROVE CountInv'
<1> USE DEF CountInv, AnsweredOnce
<1>1. CASE VendorInit
  <2>1. NbsClock \in Clock
    BY DEF NbsClock, TypeOK
  <2>2. /\ if_clock' \in Clock \cup {INVALID}
        /\ sco_bus_clock_rate' \in Clock \cup {INVALID}
        /\ sco_bus_wbs_clock_rate' \in Clock \cup {INVALID}
    BY <1>1, <2>1 DEF VendorInit, TypeOK, Loaded, clockVars
  <2>3. port' \in [codec: Codec, rate: Codec, clock: Clock \cup {INVALID},
                   pcm: Clock \cup {INVALID}]
    BY <1>1 DEF VendorInit, PowerOnPort, Codec
  <2>4. cmds' = <<>> /\ cmds' \in Seq(Command) /\ owed' = 0
    BY <1>1 DEF VendorInit
  <2>5. cbacks' \in BOOLEAN /\ configured' \in BOOLEAN /\ crashed' \in BOOLEAN
    BY <1>1, BoolFact DEF VendorInit, TypeOK
  <2> QED BY <1>1, <2>2, <2>3, <2>4, <2>5 DEF VendorInit, TypeOK, Codec
<1>2. CASE VendorCleanup
  BY <1>2 DEF VendorCleanup, TypeOK, clockVars, answerVars
<1>3. CASE hw_sco_config
  <2>1. if_clock' = if_clock
    BY <1>3 DEF hw_sco_config, scocfg_cb
  <2>2. /\ cmds' \in Seq(Command) /\ owed' \in Nat /\ owed' = Len(cmds')
        /\ answer' \in {"none", "SUCCESS", "FAIL"} /\ crashed' = crashed
    <3>1. CASE I2S
      <4>1. CASE Requested(Cmd("I2SPCM", "CVSD", if_clock))
        BY <1>3, <4>1, RequestCounts, CmdType DEF hw_sco_config, scocfg_cb, TypeOK, Codec
      <4>2. CASE audio_state_cb("FAIL", cmds, owed + 1)
        BY <1>3, <4>2, AnswerCounts DEF hw_sco_config, scocfg_cb, TypeOK
      <4> QED BY <1>3, <3>1, <4>1, <4>2 DEF hw_sco_config, scocfg_cb
    <3>2. CASE ~I2S
      BY <1>3, <3>2 DEF hw_sco_config, scocfg_cb, answerVars, TypeOK
    <3> QED BY <3>1, <3>2
  <2>3. DefaultWbsClock(if_clock) \in Clock \cup {INVALID}
    BY DEF DefaultWbsClock, TypeOK, WbsClock
  <2> QED BY <1>3, <2>1, <2>2, <2>3 DEF hw_sco_config, scocfg_cb, TypeOK
<1>4. ASSUME NEW codec \in Codec, hw_set_audio_state(codec) PROVE CountInv'
  <2>1. Cmd("ENABLE_WBS", codec, INVALID) \in Command
    BY CmdType
  <2>2. /\ cmds' \in Seq(Command) /\ owed' \in Nat /\ owed' = Len(cmds')
        /\ answer' = "none" /\ crashed' = crashed
    BY <1>4, <2>1, RequestCounts DEF hw_set_audio_state, TypeOK
  <2> QED BY <1>4, <2>2 DEF hw_set_audio_state, TypeOK, clockVars
<1> QED BY <1>1, <1>2, <1>3, <1>4 DEF HostStep

\* What every callback does to the count, with what it does to the clock.
LEMMA CountCback ==
  ASSUME CountInv, Callback PROVE CountInv'
<1> USE DEF CountInv, AnsweredOnce
<1> DEFINE rest == Tail(cmds)
<1>1. /\ cmds # <<>> /\ HostIdle
      /\ port' \in [codec: Codec, rate: Codec, clock: Clock \cup {INVALID},
                    pcm: Clock \cup {INVALID}]
  <2>1. cmds # <<>> /\ HostIdle /\ (port' = port \/ Obey(Head(cmds)))
    BY DEF Callback, Rejected, CodecSet, PortConfigured, PcmConfigured,
           FormatConfigured, Oldest
  <2> QED BY <2>1, TailFacts, ObeyType DEF TypeOK
<1>2. /\ Head(cmds) \in Command /\ rest \in Seq(Command)
      /\ cbacks => owed = Len(rest) + 1
  BY <1>1, TailFacts DEF TypeOK
<1> DEFINE Counted == /\ cmds' \in Seq(Command) /\ owed' \in Nat
                      /\ cbacks => owed' = Len(cmds')
                      /\ answer' \in {"none", "SUCCESS", "FAIL"}
                      /\ crashed' \in BOOLEAN
<1>3. Stopped /\ ~cbacks => Counted
  BY <1>2 DEF Stopped, answerVars, TypeOK
<1>4. ASSUME NEW r \in {"SUCCESS", "FAIL"}, cbacks, audio_state_cb(r, rest, owed)
      PROVE  Counted
  BY <1>2, <1>4, AnswerCounts DEF TypeOK
<1>5. ASSUME NEW c \in Command, cbacks, Sent(rest, c, owed), UNCHANGED answer
      PROVE  Counted
  BY <1>2, <1>5, SentCounts DEF TypeOK
<1>6. ASSUME NEW c \in Command, Continue(c) PROVE Counted
  BY <1>3, <1>4, <1>5, <1>6 DEF Continue
<1>7. Finish => Counted
  BY <1>3, <1>4 DEF Finish
<1>8. Counted /\ if_clock' \in Clock \cup {INVALID}
  <2>1. CASE Rejected
    BY <2>1, <1>3, <1>4 DEF Rejected, TypeOK
  <2>2. CASE CodecSet
    <3>1. CASE ~cbacks
      BY <3>1, <2>2, <1>2 DEF CodecSet, answerVars, TypeOK
    <3>2. CASE cbacks
      <4>1. BusClock(Head(cmds).codec) \in Clock \cup {INVALID}
        BY DEF BusClock, TypeOK
      <4>2. Head(cmds).codec \in Codec
        BY <1>2 DEF Command
      <4>3. hw_sco_i2spcm_config(Head(cmds).codec, rest, owed)
        BY <2>2, <3>2 DEF CodecSet
      <4>4. CASE audio_state_cb("FAIL", rest, owed) /\ UNCHANGED if_clock
        BY <4>4, <3>2, <1>4 DEF TypeOK
      <4>5. CASE /\ if_clock' = BusClock(Head(cmds).codec)
                 /\ audio_state_cb("FAIL", rest, owed)
        BY <4>5, <4>1, <3>2, <1>4
      <4>6. CASE /\ if_clock' = BusClock(Head(cmds).codec)
                 /\ Sent(rest, Cmd("I2SPCM", Head(cmds).codec, if_clock'), owed)
                 /\ UNCHANGED answer
        BY <4>6, <4>1, <4>2, <3>2, <1>5, CmdType
      <4> QED BY <4>3, <4>4, <4>5, <4>6 DEF hw_sco_i2spcm_config
    <3> QED BY <3>1, <3>2
  <2>3. CASE PortConfigured
    <3>1. Cmd("SCO_PCM_INT", "CVSD", if_clock) \in Command
      BY CmdType DEF TypeOK, Codec
    <3> QED BY <2>3, <3>1, <1>6, <1>7 DEF PortConfigured, TypeOK
  <2>4. CASE PcmConfigured
    <3>1. Cmd("DATA_FORMAT", "CVSD", INVALID) \in Command
      BY CmdType DEF Codec
    <3> QED BY <2>4, <3>1, <1>6 DEF PcmConfigured, TypeOK
  <2>5. CASE FormatConfigured
    BY <2>5, <1>7 DEF FormatConfigured, TypeOK
  <2> QED BY <2>1, <2>2, <2>3, <2>4, <2>5 DEF Callback
<1> QED BY <1>1, <1>8 DEF HostIdle, hostVars, TypeOK

\* Counting is inductive.
THEOREM Counting == Spec => []CountInv
<1>1. CountInv /\ [Next]_vars => CountInv'
  <2> SUFFICES ASSUME CountInv, [Next]_vars PROVE CountInv'
    OBVIOUS
  <2>1. CASE Next
    BY <2>1, CountHost, CountCback DEF Next
  <2>2. CASE UNCHANGED vars
    BY <2>2 DEF CountInv, TypeOK, AnsweredOnce, vars, clockVars, hostVars,
                answerVars
  <2> QED BY <2>1, <2>2
<1> QED BY <1>1, CountInit, PTL DEF Spec

\* AnsweredOnce: whatever the host does, each request that was taken up keeps
\* one command in flight until audio_state_cb answers it, once.
THEOREM AnsweredOnceCorrect == Spec => []AnsweredOnce
<1>1. CountInv => AnsweredOnce
  BY DEF CountInv
<1> QED BY <1>1, Counting, PTL

\* Type correctness.
THEOREM TypeCorrect == Spec => []TypeOK
<1>1. CountInv => TypeOK
  BY DEF CountInv
<1> QED BY <1>1, Counting, PTL

-----------------------------------------------------------------------------
(* The recorded clocks. *)

\* The clocks of a session that was configured.
ClocksSet == /\ sco_bus_clock_rate = NbsClock
             /\ sco_bus_wbs_clock_rate = PromisedClock("MSBC")

\* The clocks take two values, and a session that was not configured finds the
\* narrow-band one.
ClockInv ==
  /\ if_clock \in {NbsClock, PromisedClock("MSBC")}
  /\ sco_bus_wbs_clock_rate \in {INVALID, PromisedClock("MSBC")}
  /\ configured => ClocksSet
  /\ cbacks /\ ~configured => if_clock = NbsClock
  /\ cmds # <<>> => configured

AllSteady == \A b \in Boards : Steady(b)

LEMMA BoardStays == [Next]_vars => board' = board
BY DEF Next, HostStep, VendorInit, VendorCleanup, hw_sco_config, scocfg_cb,
       hw_set_audio_state, Callback, Rejected, CodecSet, PortConfigured,
       PcmConfigured, FormatConfigured, HostIdle, hostVars, vars

LEMMA ClockFacts ==
  ASSUME TypeOK
  PROVE  /\ NbsClock \in Clock /\ WbsClock \in Clock /\ PromisedClock("MSBC") \in Clock
         /\ PromisedClock("MSBC") # INVALID
         /\ PromisedClock("CVSD") = NbsClock
         /\ DefaultWbsClock(NbsClock) = PromisedClock("MSBC")
         /\ StaysLoaded /\ AllSteady => PromisedClock("MSBC") = NbsClock
<1>1. /\ board \in Boards /\ board.nbs \in Clock /\ board.wbs \in Clock
      /\ \A c \in Clock : c \in Nat /\ c # INVALID
  BY DEF TypeOK, Clock, INVALID
<1> QED BY <1>1 DEF NbsClock, WbsClock, PromisedClock, DefaultWbsClock, StaysLoaded,
                    AllSteady, Steady

LEMMA ClockInit == Init => ClockInv
BY DEF Init, Loaded, ClockInv

LEMMA ClockStep ==
  ASSUME AllSteady, TypeOK, ClockInv, [Next]_vars PROVE ClockInv'
<1>0. /\ NbsClock' = NbsClock /\ StaysLoaded' = StaysLoaded
      /\ \A c : PromisedClock(c)' = PromisedClock(c)
  BY BoardStays DEF NbsClock, WbsClock, PromisedClock, StaysLoaded
<1> USE DEF ClockInv, ClocksSet, clockVars
<1>1. CASE VendorInit
  BY <1>0, <1>1, ClockFacts DEF VendorInit, Loaded
<1>2. CASE VendorCleanup
  BY <1>0, <1>2 DEF VendorCleanup
<1>3. CASE hw_sco_config
  BY <1>0, <1>3, ClockFacts DEF hw_sco_config, scocfg_cb
<1>4. CASE \E codec \in Codec : hw_set_audio_state(codec)
  BY <1>0, <1>4 DEF hw_set_audio_state
<1>5. CASE Callback
  <2>1. /\ configured /\ configured' = configured /\ cbacks' = cbacks
        /\ UNCHANGED <<sco_bus_clock_rate, sco_bus_wbs_clock_rate>>
    BY <1>5 DEF Callback, Rejected, CodecSet, PortConfigured, PcmConfigured,
                FormatConfigured, Oldest, HostIdle, hostVars
  <2>2. if_clock' = if_clock \/ \E codec : if_clock' = BusClock(codec)
    BY <1>5 DEF Callback, Rejected, CodecSet, PortConfigured, PcmConfigured,
                FormatConfigured, hw_sco_i2spcm_config
  <2>3. if_clock' \in {NbsClock, PromisedClock("MSBC")}
    BY <2>1, <2>2 DEF BusClock
  <2> QED BY <1>0, <2>1, <2>3
<1>6. CASE UNCHANGED vars
  BY <1>0, <1>6 DEF vars, hostVars
<1> QED BY <1>1, <1>2, <1>3, <1>4, <1>5, <1>6 DEF Next, HostStep

\* NbsRateAsConfigured, whatever the host does, on every steady board.
THEOREM NbsRateCorrect == ASSUME AllSteady PROVE Spec => []NbsRateAsConfigured
<1>1. CountInv /\ ClockInv /\ [Next]_vars => ClockInv'
  BY ClockStep DEF CountInv
<1>2. ClockInv => NbsRateAsConfigured
  BY DEF ClockInv, ClocksSet, NbsRateAsConfigured
<1> QED BY <1>1, <1>2, ClockInit, Counting, PTL DEF Spec

-----------------------------------------------------------------------------
(* The chain of a host that waits. *)

\* The clock the library recorded for the codec asked for.
Recorded == BusClock(asked)

\* The port after I2SPCM, and after SCO_PCM_INT.
PortSet    == port.codec = asked /\ port.rate = asked /\ port.clock = Recorded
PortAndPcm == PortSet /\ (~I2S => port.pcm = Recorded)

\* How far the port is when c is in flight, and what c will do.
Means(c) ==
  /\ c.op = "ENABLE_WBS" => c.codec = asked
  /\ c.op = "I2SPCM" => /\ c.codec = asked /\ c.clock = Recorded
                        /\ if_clock = Recorded /\ port.codec = asked
  /\ c.op = "SCO_PCM_INT" => c.clock = Recorded /\ PortSet
  /\ c.op = "DATA_FORMAT" => PortAndPcm

\* A session in which SCO_CFG was not done yet.
Pristine == /\ cmds = <<>> /\ answer = "none"
            /\ port = PowerOnPort /\ asked = "CVSD"

ChainInv ==
  /\ cmds # <<>> => cbacks /\ Tail(cmds) = <<>> /\ Means(Head(cmds))
  /\ cmds # <<>> => answer = "none"
  /\ cbacks /\ ~configured => Pristine
  /\ answer = "SUCCESS" => PortAndPcm
  /\ ~crashed

AppliedInv == CountInv /\ ChainInv

LEMMA ChainInit == Init => ChainInv
BY DEF Init, ChainInv

\* A step that leaves the clocks, the port and what was asked for alone.
LEMMA SameMeaning ==
  ASSUME UNCHANGED <<board, port, asked>>, UNCHANGED clockVars
  PROVE  /\ PortAndPcm' = PortAndPcm /\ PortSet' = PortSet
         /\ \A c : Means(c)' = Means(c)
BY DEF PortAndPcm, PortSet, Recorded, BusClock, Means, I2S, clockVars

LEMMA OneInFlight ==
  ASSUME NEW c PROVE Append(<<>>, c) # <<>> /\ Head(Append(<<>>, c)) = c
                     /\ Tail(Append(<<>>, c)) = <<>>
OBVIOUS

LEMMA AppliedHost ==
  ASSUME Waits, AppliedInv, HostStep PROVE ChainInv'
<1>1. cmds = <<>> /\ board' = board /\ ~crashed
  <2>1. owed = 0 /\ board' = board /\ ~crashed
    BY DEF HostStep, VendorInit, VendorCleanup, hw_sco_config, scocfg_cb,
           hw_set_audio_state, HostMayAct
  <2>2. cbacks => Len(cmds) = 0
    BY <2>1 DEF AppliedInv, CountInv, AnsweredOnce
  <2>3. cmds \in Seq(Command) /\ (~cbacks => cmds = <<>>)
    BY DEF AppliedInv, CountInv, TypeOK, ChainInv
  <2> QED BY <2>1, <2>2, <2>3
<1>2. CASE VendorInit
  BY <1>1, <1>2 DEF VendorInit, ChainInv, Pristine
<1>3. CASE VendorCleanup
  <2>1. /\ PortAndPcm' = PortAndPcm
        /\ cmds' = <<>> /\ cbacks' = FALSE /\ ~crashed'
        /\ configured' = configured /\ answer' = answer
    BY <1>1, <1>3, SameMeaning
    DEF VendorCleanup, clockVars, answerVars
  <2> QED BY <1>1, <2>1 DEF AppliedInv, ChainInv
<1>4. CASE hw_sco_config
  <2>1. Pristine /\ cbacks
    BY <1>4 DEF hw_sco_config, scocfg_cb, AppliedInv, ChainInv
  <2>2. /\ if_clock' = if_clock /\ UNCHANGED <<port, asked, cbacks>> /\ configured'
        /\ Recorded' = if_clock
    BY <1>4, <2>1 DEF hw_sco_config, scocfg_cb, Pristine, Recorded, BusClock
  <2>3. answer' \in {"none", "FAIL"} /\ ~crashed'
    BY <1>1, <1>4, <2>1 DEF hw_sco_config, scocfg_cb, Requested, Sent, audio_state_cb, answerVars, Pristine
  <2>4. CASE cmds' = <<>>
    BY <2>2, <2>3, <2>4 DEF ChainInv
  <2>5. CASE I2S /\ Requested(Cmd("I2SPCM", "CVSD", if_clock))
    <3>1. /\ cmds' = Append(<<>>, Cmd("I2SPCM", "CVSD", if_clock))
          /\ answer' = "none"
      BY <1>1, <2>5 DEF Requested, Sent
    <3>2. Means(Cmd("I2SPCM", "CVSD", if_clock))'
      BY <1>1, <2>1, <2>2 DEF Means, Cmd, Pristine, PowerOnPort
    <3> QED BY <2>1, <2>2, <2>3, <3>1, <3>2, OneInFlight DEF ChainInv
  <2> QED BY <1>1, <1>4, <2>4, <2>5 DEF hw_sco_config, scocfg_cb, audio_state_cb
<1>5. ASSUME NEW codec \in Codec, hw_set_audio_state(codec) PROVE ChainInv'
  <2>1. /\ cmds' = Append(<<>>, Cmd("ENABLE_WBS", codec, INVALID))
        /\ answer' = "none" /\ asked' = codec
        /\ cbacks' /\ configured' /\ configured /\ ~crashed'
    BY <1>1, <1>5 DEF hw_set_audio_state, Requested, Sent
  <2>2. Means(Cmd("ENABLE_WBS", codec, INVALID))'
    BY <2>1 DEF Means, Cmd
  <2> QED BY <2>1, <2>2, OneInFlight DEF ChainInv
<1> QED BY <1>2, <1>3, <1>4, <1>5 DEF HostStep

LEMMA AppliedCback ==
  ASSUME AppliedInv, Callback PROVE ChainInv'
<1> DEFINE c == Head(cmds)
<1>1. /\ cmds # <<>> /\ cbacks /\ Tail(cmds) = <<>> /\ Means(c) /\ configured
      /\ HostIdle /\ ~crashed /\ TypeOK
  BY DEF Callback, Rejected, CodecSet, PortConfigured, PcmConfigured,
         FormatConfigured, Oldest, AppliedInv, CountInv, ChainInv, Pristine
<1>2. /\ cbacks' /\ configured' /\ UNCHANGED <<board, asked>>
      /\ Recorded' = Recorded
  BY <1>1 DEF HostIdle, hostVars, Recorded, BusClock
<1>3. ASSUME audio_state_cb("FAIL", Tail(cmds), owed) PROVE ChainInv'
  BY <1>1, <1>2, <1>3 DEF audio_state_cb, ChainInv
<1>4. ASSUME audio_state_cb("SUCCESS", Tail(cmds), owed), PortAndPcm' PROVE ChainInv'
  BY <1>1, <1>2, <1>4 DEF audio_state_cb, ChainInv
<1>5. ASSUME NEW d, Sent(Tail(cmds), d, owed), UNCHANGED answer, Means(d)'
      PROVE  ChainInv'
  <2>1. answer' = "none"
    BY <1>1, <1>5 DEF AppliedInv, ChainInv
  <2> QED BY <1>1, <1>2, <1>5, <2>1, OneInFlight DEF Sent, ChainInv
<1>6. CASE Rejected
  BY <1>1, <1>3, <1>6 DEF Rejected
<1>7. CASE CodecSet
  <2>1. c.codec = asked /\ port'.codec = asked
    BY <1>1, <1>7 DEF CodecSet, Oldest, Means, Obey, TypeOK
  <2>2. BusClock(asked) = Recorded
    BY DEF Recorded
  <2>3. CASE /\ if_clock' = BusClock(c.codec)
             /\ Sent(Tail(cmds), Cmd("I2SPCM", c.codec, if_clock'), owed)
             /\ UNCHANGED answer
    <3>1. ASSUME NEW d, d = Cmd("I2SPCM", c.codec, if_clock') PROVE Means(d)'
      BY <1>2, <2>1, <2>2, <2>3, <3>1 DEF Means, Cmd
    <3> QED BY <1>5, <2>3, <3>1
  <2> QED BY <1>1, <1>3, <1>7, <2>3 DEF CodecSet, hw_sco_i2spcm_config
<1>8. CASE PortConfigured
  <2>1. PortSet' /\ if_clock = Recorded
    BY <1>1, <1>2, <1>8 DEF PortConfigured, Oldest, Means, Obey, PortSet,
       TypeOK
  <2>2. CASE I2S
    BY <1>1, <1>2, <1>4, <1>8, <2>1, <2>2
    DEF PortConfigured, Finish, PortAndPcm, I2S
  <2>3. CASE /\ ~I2S /\ Sent(Tail(cmds), Cmd("SCO_PCM_INT", "CVSD", if_clock), owed)
             /\ UNCHANGED answer
    <3>1. ASSUME NEW d, d = Cmd("SCO_PCM_INT", "CVSD", if_clock) PROVE Means(d)'
      BY <1>2, <2>1, <3>1 DEF Means, Cmd
    <3> QED BY <1>5, <2>3, <3>1
  <2> QED BY <1>1, <1>3, <1>8, <2>2, <2>3 DEF PortConfigured, Continue
<1>9. CASE PcmConfigured
  <2>1. PortAndPcm'
    BY <1>1, <1>2, <1>9 DEF PcmConfigured, Oldest, Means, Obey, PortSet,
       PortAndPcm, TypeOK
  <2>2. CASE /\ Sent(Tail(cmds), Cmd("DATA_FORMAT", "CVSD", INVALID), owed)
             /\ UNCHANGED answer
    <3>1. Means(Cmd("DATA_FORMAT", "CVSD", INVALID))'
      BY <2>1 DEF Means, Cmd
    <3> QED BY <1>5, <2>2, <3>1
  <2> QED BY <1>1, <1>3, <1>9, <2>2 DEF PcmConfigured, Continue
<1>10. CASE FormatConfigured
  <2>1. PortAndPcm'
    BY <1>1, <1>2, <1>10 DEF FormatConfigured, Oldest, Means, Obey, PortSet,
       PortAndPcm, I2S
  <2> QED BY <1>1, <1>4, <1>10, <2>1 DEF FormatConfigured, Finish
<1> QED BY <1>6, <1>7, <1>8, <1>9, <1>10 DEF Callback

\* For a host that waits, on every board, a chain is one command, and that
\* command tells how far the port is configured (hardware.c 1018-1071,
\* 1331-1336): what the callbacks rely on when they report SUCCESS.
THEOREM ChainCorrect == Spec => [](Waits => ChainInv)
<1>1. CountInv /\ (Waits => ChainInv) /\ [Next]_vars => (Waits => ChainInv)'
  <2> SUFFICES ASSUME CountInv, Waits => ChainInv, [Next]_vars, Waits'
               PROVE  ChainInv'
    OBVIOUS
  <2>0. Waits /\ AppliedInv
    BY BoardStays DEF Waits, AppliedInv
  <2>1. CASE Next
    BY <2>0, <2>1, AppliedHost, AppliedCback DEF Next
  <2>2. CASE UNCHANGED vars
    BY <2>0, <2>2 DEF vars, clockVars, hostVars, answerVars, AppliedInv, ChainInv,
       Means, PortAndPcm, PortSet, Recorded, BusClock, Pristine, I2S
  <2> QED BY <2>1, <2>2
<1> QED BY <1>1, ChainInit, Counting, PTL DEF Spec

\* NoNullCall: on every board, the call through NULL is never made for a host
\* that waits.
THEOREM NoNullCallCorrect == Spec => []NoNullCall
<1>1. (Waits => ChainInv) => NoNullCall
  BY DEF ChainInv, NoNullCall
<1> QED BY <1>1, ChainCorrect, PTL

\* Success, and until the host acts again: the controller runs the codec asked
\* for, the port runs at its rate, and port and PCM interface at the clock the
\* library recorded for it in hw_sco_config (hardware.c 1282-1303).
AppliedAsRecorded ==
  Waits /\ cbacks /\ answer = "SUCCESS" =>
    /\ port.codec = asked /\ port.rate = asked
    /\ port.clock = BusClock(asked)
    /\ ~I2S => port.pcm = BusClock(asked)

\* AppliedAsRecorded holds on every board, also where a wide-band call changes
\* the clocks of later sessions: controller and library agree even then.
THEOREM RecordedCorrect == Spec => []AppliedAsRecorded
<1>1. (Waits => ChainInv) => AppliedAsRecorded
  BY DEF ChainInv, AppliedAsRecorded, PortAndPcm, PortSet, Recorded
<1> QED BY <1>1, ChainCorrect, PTL

\* CodecApplied: on a steady board, audio_state_cb(SUCCESS) tells a host that
\* waits that the controller runs the codec asked for, at the rate and the
\* clock the board promises for it.
THEOREM CodecCorrect == ASSUME AllSteady PROVE Spec => []CodecApplied
<1>1. CountInv /\ ClockInv /\ [Next]_vars => ClockInv'
  BY ClockStep DEF CountInv
<1>2. CountInv /\ ClockInv /\ (Waits => ChainInv) => CodecApplied
  <2> SUFFICES ASSUME CountInv, ClockInv, ChainInv, Waits, cbacks, answer = "SUCCESS"
               PROVE  /\ port.codec = asked /\ port.rate = asked
                      /\ port.clock = PromisedClock(asked)
                      /\ ~I2S => port.pcm = PromisedClock(asked)
    BY DEF CodecApplied
  <2>1. PortAndPcm /\ configured
    BY DEF ChainInv, Pristine
  <2>2. BusClock(asked) = PromisedClock(asked)
    BY <2>1 DEF ClockInv, ClocksSet, BusClock, PromisedClock, CountInv, TypeOK, Codec
  <2> QED BY <2>1, <2>2 DEF PortAndPcm, PortSet, Recorded
<1> QED BY <1>1, <1>2, ChainCorrect, ClockInit, Counting, PTL DEF Spec

-----------------------------------------------------------------------------
(* Progress: a request is answered after at most four commands.            *)

\* How many commands a chain may still take, counting the one in flight.
Stage(c) == CASE c.op = "ENABLE_WBS"  -> 4
              [] c.op = "I2SPCM"      -> 3
              [] c.op = "SCO_PCM_INT" -> 2
              [] OTHER                -> 1

\* The oldest chain ends, or goes on with a command of a later stage.
Advances ==
  \/ cmds' = Tail(cmds)
  \/ \E c \in Command : /\ cmds' = Append(Tail(cmds), c)
                         /\ Stage(c) < Stage(Head(cmds))

LEMMA CbackAdvances == ASSUME TypeOK, Callback PROVE cmds # <<>> /\ Advances
<1> DEFINE first == Head(cmds)
<1>1. cmds # <<>> /\ first \in Command
  <2>1. cmds # <<>>
    BY DEF Callback, Rejected, CodecSet, PortConfigured, PcmConfigured,
           FormatConfigured, Oldest
  <2> QED BY <2>1, TailFacts DEF TypeOK
<1> SUFFICES Advances
  BY <1>1
<1>2. ASSUME NEW c \in Command, Stage(c) < Stage(first), Continue(c) PROVE Advances
  BY <1>2 DEF Continue, Sent, audio_state_cb, Stopped, Advances
<1>3. Finish => Advances
  BY DEF Finish, audio_state_cb, Stopped, Advances
<1>4. CASE Rejected
  BY <1>4 DEF Rejected, audio_state_cb, Stopped, Advances
<1>5. CASE CodecSet
  <2> DEFINE c == Cmd("I2SPCM", first.codec, if_clock')
  <2>1. CASE cmds' = Tail(cmds)
    BY <2>1 DEF Advances
  <2>2. CASE if_clock' = BusClock(first.codec) /\ cmds' = Append(Tail(cmds), c)
    <3>1. first.codec \in Codec /\ if_clock' \in Clock \cup {INVALID}
      BY <1>1, <2>2 DEF Command, BusClock, TypeOK
    <3>2. c \in Command /\ c.op = "I2SPCM"
      BY <3>1, CmdType
    <3>3. Stage(c) < Stage(first)
      BY <1>5, <3>2 DEF CodecSet, Oldest, Stage
    <3> QED BY <2>2, <3>2, <3>3 DEF Advances
  <2> QED BY <1>5, <2>1, <2>2 DEF CodecSet, hw_sco_i2spcm_config, Sent, audio_state_cb
<1>6. CASE PortConfigured
  <2> DEFINE c == Cmd("SCO_PCM_INT", "CVSD", if_clock)
  <2>1. c \in Command /\ c.op = "SCO_PCM_INT"
    BY CmdType DEF TypeOK, Codec
  <2>2. Stage(c) < Stage(first)
    BY <1>6, <2>1 DEF PortConfigured, Oldest, Stage
  <2> QED BY <1>2, <1>3, <1>6, <2>1, <2>2 DEF PortConfigured
<1>7. CASE PcmConfigured
  <2> DEFINE c == Cmd("DATA_FORMAT", "CVSD", INVALID)
  <2>1. c \in Command /\ c.op = "DATA_FORMAT"
    BY CmdType DEF Codec
  <2>2. Stage(c) < Stage(first)
    BY <1>7, <2>1 DEF PcmConfigured, Oldest, Stage
  <2> QED BY <1>2, <1>7, <2>1, <2>2 DEF PcmConfigured
<1>8. CASE FormatConfigured
  BY <1>3, <1>8 DEF FormatConfigured
<1> QED BY <1>4, <1>5, <1>6, <1>7, <1>8 DEF Callback

\* Each callback ends the chain of the oldest request or brings its end nearer,
\* for every host and board: no answer of the controller and no refusal makes a
\* chain go round, and a request of any codec takes at most four commands.
THEOREM ChainAdvances == Spec => [][Callback => cmds # <<>> /\ Advances]_vars
<1>1. CountInv /\ [Next]_vars => [Callback => cmds # <<>> /\ Advances]_vars
  BY CbackAdvances DEF CountInv
<1> QED BY <1>1, Counting, PTL DEF Spec

-----------------------------------------------------------------------------
(* The service. *)

\* What is owed covers what is in flight, also after the host left; and
\* SCO_CFG finds the codec of power on.
OwedInv == /\ Len(cmds) <= owed
           /\ cbacks /\ ~configured => asked = "CVSD"

\* What a callback does, as the host sees it.
LEMMA CbackEffect ==
  ASSUME CountInv, Callback
  PROVE  /\ cmds # <<>> /\ UNCHANGED hostVars
         /\ Len(cmds') <= Len(cmds)
         /\ \/ UNCHANGED answerVars
            \/ /\ cbacks /\ owed' = owed - 1
               /\ answer' \in {"SUCCESS", "FAIL"}
<1> DEFINE rest == Tail(cmds)
<1>1. cmds # <<>> /\ HostIdle
  BY DEF Callback, Rejected, CodecSet, PortConfigured, PcmConfigured,
         FormatConfigured, Oldest
<1>2. rest \in Seq(Command) /\ Len(cmds) = Len(rest) + 1
  BY <1>1, TailFacts DEF CountInv, TypeOK
<1> DEFINE Effect == /\ Len(cmds') <= Len(cmds)
                     /\ \/ UNCHANGED answerVars
                        \/ /\ cbacks /\ owed' = owed - 1
                           /\ answer' \in {"SUCCESS", "FAIL"}
<1>3. ASSUME NEW r \in {"SUCCESS", "FAIL"}, cbacks, audio_state_cb(r, rest, owed)
      PROVE  Effect
  BY <1>2, <1>3 DEF audio_state_cb
<1>4. ASSUME NEW c, Sent(rest, c, owed), UNCHANGED answer PROVE Effect
  <2>1. Len(cmds') = Len(rest) + 1
    BY <1>2, <1>4 DEF Sent
  <2> QED BY <1>2, <1>4, <2>1 DEF Sent, answerVars
<1>5. ASSUME cmds' = rest, UNCHANGED answerVars PROVE Effect
  BY <1>2, <1>5
<1>6. Stopped => Effect
  BY <1>5 DEF Stopped
<1>7. ASSUME NEW c, Continue(c) PROVE Effect
  BY <1>3, <1>4, <1>6, <1>7 DEF Continue
<1>8. Finish => Effect
  BY <1>3, <1>6 DEF Finish
<1>9. Effect
  <2>1. CASE Rejected
    BY <2>1, <1>3, <1>6 DEF Rejected
  <2>2. CASE CodecSet /\ cbacks
    BY <2>2, <1>3, <1>4 DEF CodecSet, hw_sco_i2spcm_config
  <2>3. CASE CodecSet /\ ~cbacks
    BY <2>3, <1>5 DEF CodecSet
  <2>4. CASE PortConfigured
    BY <2>4, <1>7, <1>8 DEF PortConfigured
  <2>5. CASE PcmConfigured
    BY <2>5, <1>7 DEF PcmConfigured
  <2>6. CASE FormatConfigured
    BY <2>6, <1>8 DEF FormatConfigured
  <2> QED BY <2>1, <2>2, <2>3, <2>4, <2>5, <2>6 DEF Callback
<1> QED BY <1>1, <1>9 DEF HostIdle

\* What the host's steps do to what is owed.
LEMMA OwedStep == CountInv /\ OwedInv /\ [Next]_vars => OwedInv'
<1> SUFFICES ASSUME CountInv, OwedInv, [Next]_vars PROVE OwedInv'
  OBVIOUS
<1>1. cmds \in Seq(Command) /\ owed \in Nat /\ (cbacks => owed = Len(cmds))
  BY DEF CountInv, TypeOK, AnsweredOnce
<1>2. CountInv'
  BY CountHost, CountCback DEF Next, CountInv, TypeOK, AnsweredOnce, vars,
     clockVars, hostVars, answerVars
<1>3. cbacks' => Len(cmds') <= owed'
  BY <1>2 DEF CountInv, AnsweredOnce, TypeOK
<1>4. CASE VendorInit
  BY <1>3, <1>4 DEF VendorInit, OwedInv
<1>5. CASE VendorCleanup
  BY <1>5 DEF VendorCleanup, OwedInv, answerVars
<1>6. CASE hw_sco_config
  BY <1>3, <1>6 DEF hw_sco_config, scocfg_cb, OwedInv
<1>7. ASSUME NEW codec \in Codec, hw_set_audio_state(codec) PROVE OwedInv'
  BY <1>3, <1>7 DEF hw_set_audio_state, OwedInv
<1>8. CASE Callback
  <2>1. /\ UNCHANGED hostVars /\ Len(cmds') <= Len(cmds)
        /\ cbacks \/ UNCHANGED owed
    BY <1>8, CbackEffect DEF answerVars
  <2>2. Len(cmds) \in Nat /\ Len(cmds') \in Nat
    BY <1>1, <1>2 DEF CountInv, TypeOK
  <2>3. Len(cmds') <= owed'
    BY <1>1, <1>3, <2>1, <2>2 DEF OwedInv, hostVars
  <2> QED BY <2>1, <2>3 DEF OwedInv, hostVars
<1>9. CASE UNCHANGED vars
  BY <1>9 DEF vars, hostVars, answerVars, OwedInv
<1> QED BY <1>4, <1>5, <1>6, <1>7, <1>8, <1>9 DEF Next, HostStep

\* After power on the port serves no codec; when it is configured for a codec
\* at the promised clock, it serves that codec.
ServedIs ==
  /\ Served \in Codec \cup {"none"}
  /\ port = PowerOnPort => Served = "none"
  /\ PortAndPcm /\ Recorded = PromisedClock(asked) => Served = asked

LEMMA ServedFacts == TypeOK => ServedIs
<1> SUFFICES ASSUME TypeOK PROVE ServedIs
  OBVIOUS
<1>1. port.codec \in Codec
  BY DEF TypeOK
<1>2. Served \in Codec \cup {"none"}
  BY <1>1 DEF Served
<1>3. ASSUME port = PowerOnPort PROVE Served = "none"
  <2>1. port.codec = "CVSD" /\ port.clock = INVALID
    BY <1>3 DEF PowerOnPort
  <2>2. PromisedClock("CVSD") # INVALID
    BY ClockFacts DEF Clock, INVALID
  <2> QED BY <2>1, <2>2 DEF Served
<1>4. ASSUME PortAndPcm, Recorded = PromisedClock(asked) PROVE Served = asked
  <2>1. port.codec = asked /\ port.rate = asked /\ port.clock = PromisedClock(asked)
    BY <1>4 DEF PortAndPcm, PortSet
  <2>2. ~I2S => port.pcm = PromisedClock(asked)
    BY <1>4 DEF PortAndPcm
  <2> QED BY <2>1, <2>2 DEF Served
<1> QED BY <1>2, <1>3, <1>4 DEF ServedIs

LEMMA SameServed == UNCHANGED <<board, port>> => Served' = Served /\ Waits' = Waits
BY DEF Served, PromisedClock, NbsClock, WbsClock, I2S, Waits

LEMMA ServiceInit == Init => Service!Init
<1> SUFFICES ASSUME Init PROVE Service!Init
  OBVIOUS
<1>1. TypeOK /\ port = PowerOnPort
  BY CountInit DEF CountInv, Init
<1>2. Waits \in BOOLEAN
  BY <1>1 DEF TypeOK, Waits
<1> QED BY <1>1, <1>2, ServedFacts DEF Init, Service!Init, ServedIs

\* Each step of the chains, of the host or of the controller is a step of the
\* service, or invisible to it.
LEMMA ServiceStep ==
  /\ CountInv /\ OwedInv /\ ServedIs /\ [Next]_vars
  /\ (CountInv /\ ClockInv /\ (Waits => ChainInv) /\ ServedIs)'
  => [Service!Next]_Service!vars
<1> SUFFICES ASSUME CountInv, OwedInv, ServedIs, [Next]_vars,
                    (CountInv /\ ClockInv /\ (Waits => ChainInv) /\ ServedIs)'
             PROVE  Service!Next \/ UNCHANGED Service!vars
  OBVIOUS
<1>1. board' = board /\ Waits' = Waits
  BY BoardStays DEF Waits
<1>2. TypeOK /\ owed \in Nat /\ Served \in Service!Serves /\ Served' \in Service!Serves
  <2>1. TypeOK
    BY DEF CountInv
  <2> QED BY <2>1 DEF TypeOK, ServedIs, Service!Serves, Service!Codec, Codec
<1>3. CASE VendorInit
  <2>1. port' = PowerOnPort
    BY <1>3 DEF VendorInit
  <2>2. Served' = "none"
    BY <2>1 DEF ServedIs, PowerOnPort
  <2>3. Service!Attach
    BY <1>1, <1>3, <2>2 DEF VendorInit, HostMayAct, Service!Attach, Service!HostMayAct
  <2> QED BY <2>3 DEF Service!Next
<1>4. CASE VendorCleanup
  <2>1. Served' = Served
    BY <1>1, <1>4, SameServed DEF VendorCleanup
  <2>2. Service!Detach
    BY <1>1, <1>4, <2>1 DEF VendorCleanup, HostMayAct, answerVars, Service!Detach,
       Service!HostMayAct
  <2> QED BY <2>2 DEF Service!Next
<1>5. CASE hw_sco_config
  <2>1. Served' = Served /\ UNCHANGED <<asked, cbacks>> /\ cbacks /\ asked = "CVSD"
    BY <1>1, <1>5, SameServed DEF hw_sco_config, scocfg_cb, OwedInv
  <2>2. CASE I2S /\ Requested(Cmd("I2SPCM", "CVSD", if_clock))
    <3>1. Service!Request("CVSD")
      BY <1>1, <1>5, <2>1, <2>2 DEF hw_sco_config, scocfg_cb, Requested, Sent, HostMayAct,
         Service!Request, Service!HostMayAct
    <3> QED BY <3>1 DEF Service!Next, Service!Codec
  <2>3. CASE I2S /\ audio_state_cb("FAIL", cmds, owed + 1)
    <3>1. owed' = owed /\ answer' = "FAIL"
      BY <1>2, <2>3 DEF audio_state_cb
    <3>2. Service!Refuse
      BY <1>1, <1>5, <2>1, <3>1 DEF hw_sco_config, scocfg_cb, HostMayAct, Service!Refuse,
         Service!HostMayAct
    <3> QED BY <3>2 DEF Service!Next
  <2>4. CASE ~I2S
    BY <1>1, <1>5, <2>1, <2>4 DEF hw_sco_config, scocfg_cb, answerVars, Service!vars
  <2> QED BY <1>5, <2>2, <2>3, <2>4 DEF hw_sco_config, scocfg_cb
<1>6. ASSUME NEW codec \in Codec, hw_set_audio_state(codec)
      PROVE  Service!Next \/ UNCHANGED Service!vars
  <2>1. Served' = Served
    BY <1>1, <1>6, SameServed DEF hw_set_audio_state
  <2>2. Service!Request(codec)
    BY <1>1, <1>6, <2>1 DEF hw_set_audio_state, Requested, Sent, HostMayAct,
       Service!Request, Service!HostMayAct
  <2> QED BY <2>2 DEF Service!Next, Service!Codec, Codec
<1>7. CASE Callback
  <2>1. /\ cmds # <<>> /\ UNCHANGED hostVars
        /\ \/ UNCHANGED answerVars
           \/ /\ cbacks /\ owed' = owed - 1
              /\ answer' \in {"SUCCESS", "FAIL"}
    BY <1>7, CbackEffect
  <2>2. owed > 0
    <3>1. cmds \in Seq(Command) /\ Len(cmds) <= owed
      BY DEF CountInv, TypeOK, OwedInv
    <3>2. Len(cmds) # 0
      BY <2>1, <3>1
    <3> QED BY <1>2, <3>1, <3>2
  <2>3. CASE UNCHANGED answerVars
    <3>1. Service!Work
      BY <1>1, <1>2, <2>1, <2>2, <2>3 DEF hostVars, answerVars, Service!Work
    <3> QED BY <3>1 DEF Service!Next
  <2>4. CASE /\ cbacks /\ owed' = owed - 1
             /\ answer' \in {"SUCCESS", "FAIL"}
    <3>1. ASSUME Waits, answer' = "SUCCESS" PROVE Served' = asked
      <4>1. ChainInv' /\ TypeOK' /\ cbacks'
        BY <1>1, <2>1, <2>4, <3>1 DEF CountInv, hostVars
      <4>2. PortAndPcm' /\ configured'
        BY <3>1, <4>1 DEF ChainInv, Pristine
      <4>3. (Recorded = PromisedClock(asked))'
        BY <4>1, <4>2 DEF ClockInv, ClocksSet, Recorded, BusClock, PromisedClock,
           TypeOK, Codec
      <4>4. Served' = asked'
        BY <4>2, <4>3 DEF ServedIs
      <4> QED BY <2>1, <4>4 DEF hostVars
    <3>2. Service!Answer
      BY <1>1, <1>2, <2>1, <2>2, <2>4, <3>1 DEF hostVars, Service!Answer
    <3> QED BY <3>2 DEF Service!Next
  <2> QED BY <2>1, <2>3, <2>4
<1>8. CASE UNCHANGED vars
  <2>1. Served' = Served
    BY <1>8, SameServed DEF vars, hostVars
  <2> QED BY <1>1, <1>8, <2>1 DEF vars, hostVars, answerVars, Service!vars
<1> QED BY <1>3, <1>4, <1>5, <1>6, <1>7, <1>8 DEF Next, HostStep

\* ServiceSpec: on steady boards the four callbacks implement AudioService, for
\* hosts that wait and hosts that do not: requests are answered at most once
\* and only in their session, only requests in progress touch the port, and to
\* a host that waits success means that the port serves the codec asked for.
THEOREM ServiceCorrect == ASSUME AllSteady PROVE Spec => ServiceSpec
<1>1. CountInv /\ ClockInv /\ [Next]_vars => ClockInv'
  BY ClockStep DEF CountInv
<1>2. Init => OwedInv
  BY DEF Init, OwedInv
<1>3. CountInv => ServedIs
  BY ServedFacts DEF CountInv
<1> QED
  BY <1>1, <1>2, <1>3, ServiceInit, ServiceStep, OwedStep, ClockInit, Counting,
     ChainCorrect, PTL DEF Spec, ServiceSpec, Service!Spec
=============================================================================
