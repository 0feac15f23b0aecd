# Verification of the Bluetooth vendor library (`src/libbt`)

`libbt` is the vendor library between an Android-style Bluetooth host stack and a
UART-attached controller. The stack calls `init`, `op` and `cleanup`
(`bt_vendor_nordic.c`); the library sends HCI commands through the stack's `xmit_cb`
and goes on in callbacks that the stack runs when the controller answers. This
directory models it in TLA+, checks the models with TLC and proves theorems about
them with TLAPS.

## 1. Inventory

| Component | State | Operations | Model |
| --- | --- | --- | --- |
| Firmware configuration, `hardware.c` 619-926, 1122-1162 | `hw_cfg_cb` (state, patch descriptor, baud flag), HCI buffers | `hw_config_start`, ten cases of `hw_config_cback` | `HwConfig`, `FwCfgService` |
| Speed conversions, `hardware.c` 358-395, `userial_vendor.c` 88-124 | none | two table look-ups | `UartSpeed` |
| Patch search, chip name, settlement delay, idle timeout, `hardware.c` 267-346, 398-542, 671-722, 1218-1249 | chip name | string matching, directory scan, sleep | `PatchConf` |
| Configuration file, `conf.c`, `userial_vendor.c` 361-377, `hardware.c` 1508-1562 | port, patch path and name, delay | `vnd_load_conf`, four setters; the call is commented out (`bt_vendor_nordic.c` 110) | `PatchConf` |
| Low power mode, `hardware.c` 941-956, 1173-1263 | none but `upio.c`'s | `hw_lpm_enable` and its callback, `hw_lpm_set_wake_state` | `LowPower` |
| BT_WAKE and its timer, `upio.c` 197-276, 363-530 | `upio_state`, `lpm_proc_cb`, a POSIX timer | `upio_set`, `proc_btwrite_timeout` on a thread of its own | `LowPower` (proc nodes), `VendorPort` (ioctl, neither) |
| Power, `upio.c` 120-181, 278-351 | rfkill id, emulator flag | `upio_set_bluetooth_power` | `VendorPort`; its effect in `HwConfig` |
| Serial port, `userial_vendor.c` | descriptor, speed | open, close, speed, ioctl | `VendorPort`, `HwConfig` |
| Audio port, `hardware.c` 204-258, 973-1104, 1275-1499 | parameter arrays, two clock rates | `hw_sco_config`, `hw_set_audio_state`, three callbacks | `ScoConfig`, `AudioService` |
| Epilog, `hardware.c` 1568-1647 | none | HCI_RESET at the end, off by default | `VendorPort` |
| Vendor interface, `bt_vendor_nordic.c` | `bt_vendor_cbacks` | `init`, the opcodes, `cleanup` | host actions of each module |
| Build settings, `bt_vendor_nordic.h`, `vnd_nordic.txt` | constants | | `BuildConfig` |

**Interaction.** The components share `bt_vendor_cbacks`, the HCI channel, the
serial port and `upio_state`. Host calls, HCI callbacks and the btwrite timer run on
different threads, and nothing in the library takes a lock.

**What is hard.** (a) A chain of up to a dozen commands, each of which may find no
buffer, be refused or be rejected, must end in exactly one answer. (b) Both ends
change the UART's speed twice and may not lose each other; a host that dies in
between must be able to start again. (c) The host may call back into the library from
inside an answer, or leave in the middle of a chain. (d) The timer thread and the
host run the same unlocked function. (e) Statics outlive a session; the controller
and BT_WAKE outlive the process. (f) The level of BT_WAKE is recorded in one place and
set in three. (g) A search that calls itself, over a directory in any order.
PROJECT.json lists each hazard at its line, with the properties that watch it.

**What makes each component correct.** Firmware configuration: at most one answer
per request, success only over a working link, no lost descriptor or buffer, an
answer in the end. Search: the file for the longest name that has one. LPM: one
answer per request, both sides in the same mode. BT_WAKE: no assertion is lost, none
is held for ever, the line is what was recorded. Power: a session starts with the
controller at the port's speed, and no other radio is touched. Audio: one answer per
request, and success means the codec, rate and clock asked for.

## 2. Plan

1. `UartSpeed`, `HwConfig`, `FwCfgService`, with proofs. *Done.*
2. `LowPower`, with proofs, failing nodes included. *Done.*
3. `ScoConfig`, `AudioService`, with proofs. *Done.*
4. `VendorPort`: port, power, BT_WAKE without proc nodes, epilog, host crashes, with
   proofs. *Done.*
5. `PatchConf`: configuration file, search, delays. *Done, with proofs.*
6. `BuildConfig`, from which the instances take the shipped build. *Done.*

Open: one module with the audio and LPM opcodes next to those of `VendorPort`, which
share only `bt_vendor_cbacks` with them.

## 3. Modules

Modules named `MC...` instantiate the others for TLC, `...Proofs` hold the theorems.
Definitions carry the source's names; PROJECT.json maps each to its lines. Operators
named `X_Something` are mutants of `X`: a plausible slip in that code, which the run
that PROJECT.json pairs it with finds by the property named there.

### `HwConfig`: firmware configuration

One action per case of `hw_config_cback`, named after its state (`CbackStart`,
`CbackBaud1`, ...), plus `CbackNoBuffer` for a bad status, no callbacks or no buffer.
An action is the controller doing what the command says, its event, and the whole
callback up to and including `fwcfg_cb`. What the callback does after `fwcfg_cb`
(857-861, 904-926) is `ConfigTail`, a step of its own, because the host may already
act again: `RestartInCallback`. `AbandonMidway` lets the host clean up and close
with a command in flight.

| Variable | Code |
| --- | --- |
| `state`, `fw_fd`, `f_set_baud_2` | `hw_cfg_cb`; 0 is `"IDLE"` |
| `fw_left`, `openFds` | what is left of the patch file; the process's descriptors |
| `held` | HCI buffers the library has received or allocated, and not passed on or freed |
| `hostBaud`, `ctrlBaud`, `ctrlMode` | both ends of the UART, and ROM, download mode or patched firmware |
| `cmd` | the command in flight |
| `tail`, `answers`, `result` | the rest of the callback; calls of `fwcfg_cb` |
| `fresh`, `starts`, `refusals` | powered on and not yet configured; two counters |

A patch file is a sequence of records: `WRITE_RAM`, `LAUNCH_RAM`, a truncated
preamble or a truncated payload. The controller is external: it hears commands sent
at its own speed, and a truncated command is never answered. The host powers the
controller on before it opens the port, asks once per power-on, and calls `init` only
with the port closed.

`FwCfgService` is the service the host sees: attached, port, busy, requests, answers,
and whether the controller serves, which `HwConfig` defines from both speeds and the
controller's mode (`Serves`). Only a request in progress can make the controller
serve, `SUCCESS` is answered only if it does, and it does until the port is closed.

### `LowPower`: LPM, BT_WAKE and the btwrite timer

`upio_set(UPIO_BT_WAKE)` is split at each access to shared state: the check (447-462),
the level (471), the node (485-504), the timer (214-235), the flag (514). The host and
the timer thread each run it with a program counter. `SetLpmMode` and
`hw_lpm_enable` are single steps: the timer thread touches nothing they read, except
that it runs on a timer they delete. A `Tick` passes only when no thread is in a call,
since a call is short against 8 s. `line` is the kernel's 10 s timeout. A host's
deassertion stands also for the one of power off (`bt_vendor_nordic.c` 141).
`AssertLasts` says what an assertion is worth, swallowed or not: the line stays
asserted for `KernelTicks - HoldTicks`, and TLC finds it not to hold a tick longer. The
`setting` chosen at the start says how the library was built, whether the host is
orderly and whether nodes and `timer_create` may fail. `timer_settime` without a
timer (230) is taken as a call that fails.

`cleanup` and `init` leave commands in flight: the HCI layer may drop them, or deliver
their answers to the next session, whose `lpm_cb` is then called. `late` counts those;
`owed` is what this session asked and was not answered. `lastAnswer` is the last answer
to a request of this session, so that `LpmAgreement` speaks of a host that does not take
a late answer for its own, which nothing in the command would tell it (hazard at 950).

### `ScoConfig`: the audio port

Commands in flight are a FIFO; the callback of the oldest sends the next command of
its chain or answers. `if_clock` is the static that holds the port's clock:
`bt_sco_i2spcm_param[3]` on I2S and `bt_sco_param[1]` on PCM, always written together.
`scocfg_cb` answers `BT_VND_OP_SCO_CFG`, with success whatever became of the commands.
The board (bus, two clock settings, whether the library stays loaded and so keeps its
statics across sessions, and whether the host waits) is chosen at the start. A call
through NULL (1399) is `crashed`. Mode, role, frame type and data format are constants
of the build and are left out. `AudioService` is what the host sees of it: requests
pending, the codec asked for, the codec the port is set for throughout (`Served`), and
the last answer.

### `VendorPort`: the controller over the life of a host

| Variable | Code |
| --- | --- |
| `power` | `rfkill_id`, `bt_emul_enable`; whether the controller has power, and its speed |
| `bt` | the rfkill number of the Bluetooth radio, which its driver may change (`Move`) |
| `fd`, `openFds`, `hostBaud` | `vnd_userial.fd`; the descriptors of the port; the speed it is set to |
| `stdin` | descriptor 0 of the process is open |
| `upio_wake`, `line` | `upio_state[UPIO_BT_WAKE]`; the level of BT_WAKE |
| `cfg` | the change of speed in `hw_config_start`'s chain: asked for, acknowledged |
| `epilogs`, `due` | HCI_RESETs of epilogs in flight; epilogs not answered |
| `cbacks`, `stage` | `bt_vendor_cbacks`; how far the host got |

`vnd_userial` is a static, so its descriptor is 0 until the first `init` makes it -1: a
close before that takes the process's descriptor 0 (`fd = Unloaded`). `NoFdLost` excludes
it for an orderly host, which closes only what it opened.

The process may `Crash` anywhere: the library's variables are as loaded, the
descriptors closed, while the controller keeps power, speed and BT_WAKE. Firmware
configuration is represented by the change of speed it leads to (`FwCfg`,
`CtrlSwitch`, `HostSwitch`), so that a crash or a second power-on falls between its
steps; `HwConfig` has the rest. `upio_set_bluetooth_power` is the set of its outcomes:
it returns early in the emulator and with rfkill disabled, `init_rfkill` stops at the
first number not in use, and any `open` or `write` may fail. The result is ignored by
`op` (134-138), hence by the model.

### `PatchConf`: configuration file, search and delays

A pipeline: `vnd_load_conf` reads the file by buffers of 255 characters (`Line` is
the sequence of its `Chunk`s), the chip name is read from the controller,
`hw_config_findpatch` looks at one directory entry per step and shortens the name at
the last letter that is not M, and after the download `ms_delay` sleeps, perhaps
interrupted, for `look_up_fw_settlement_delay`. The host may ask for the idle timeout
at any point, also before the name is read: `local_chip_name` is then empty, or what an
earlier configuration of the same controller left. Names are sequences of letters and
digits; words and paths of the file come from the constant `Word` and are compared as a
whole. Case is folded.

`local_chip_name` has 32 characters. It keeps 31 from "BCM" on, and 30 of a name made
of "4343" (`ChipName`), while the search runs on the name in the event's buffer, which is
whole in the first case and the cut one, copied back, in the second (`SearchName`). The
delays are looked up in `local_chip_name`: a BCM43241 named behind what is kept gets the
100 ms of other chips. `SettledInTime` therefore has the premise `NamedInTime`, which is
true up to the last kept character and false one further.

### `BuildConfig`: the build

The defaults of `bt_vendor_nordic.h` by group, and `Built`, what is left of them after
the definitions of `vnd_nordic.txt`. `MCHwConfig` takes the target speed from it,
`PatchConf` paths and thresholds, `MCScoConfig` the shipped board, `MCLowPower` and
`MCVendorPort` the switches.

## 4. Runs

| Run | Shows |
| --- | --- |
| `waiting` | All safety properties of `HwConfig` and the service (`StdinStaysOpen` follows from `NoDescriptorLeak` here), at the shipped speed, for a host that waits, three requests, whole and cut files, failing reads. |
| `impatient` | The service and `StdinStaysOpen`, for a host that restarts in the callback and abandons, at 4M (with the UART-clock step) and with the controller's address; and that every request taken up is answered. The other properties that hold for such a host (`LinkAgreement`, `MinidriverOnlyToRom`, `SuccessMeansServing`) are proved for every host and checked in `waiting`. |
| `settings` | LPM and BT_WAKE in both proc builds, orderly and disorderly hosts, nodes that work or fail, two LPM requests in flight, answers that arrive in a later session; kernel timeout twice the library's, so that `AssertLasts` speaks of two ticks. |
| `boards` | Audio on every board whose clocks survive a session; overlapping chains of three commands and a host that leaves; that the callbacks implement `AudioService`. |
| `sites` | Search, settings and delays for seven chip names, every listing of up to two files and every pair of configuration lines; long names, with the chip's number at the last character that is kept, one behind it, and a cut name made of "4343". |
| `hosts` | Power, port, BT_WAKE and epilog, for every combination of failures and builds, with crashes. |

Runs that find a disagreement between the code and a comment of the code:

| Run | Comment | What happens |
| --- | --- | --- |
| `asleep` | "this timer should fire only when BT is awake" (`upio.c` 201) | The timer fires up to 8 s after a deassertion that is not notified. |
| `kick` | "we want to explicity touch proc btwrite node" (`upio.c` 456) | The code returns there: an assertion while active touches nothing. |
| `race` | the same, "to keep the bt_wake assertion" | With notification, the timer's `0` overtakes the host's `1`; later assertions are swallowed with the line down. |
| `again` | "set nbs clock rate as the value in SCO_I2SPCM_IF_CLOCK_RATE field" (`hardware.c` 1282) | After a wide-band call, the next session's narrow-band clock is the wide-band one. |
| `epilog` | "Once epilog process is done, must call epilog_cb" (`hardware.c` 1594) | Not after the HCI library refused the command (1636). |
| `longline` | "read line by line" (`conf.c` 106) | What follows the 255th character of a line is read as another line. |

Seen as well, and not stated as properties because they concern no behaviour a model
would have: `Android.mk` passes `-USE_BLUETOOTH_BCM4343` without its `D`; the port is
opened "with the given configuration" (`userial_vendor.c` 188), but parity and data
bits are computed and never applied (255), which 8N1 does not notice;
`SCO_PCM_IF_CLOCK_RATE` is "suggested to be consistent" with its I2S counterpart
(`bt_vendor_nordic.h` 323) and is not; "make sure wakelock is released"
(`bt_vendor_nordic.c` 140) does nothing in the ioctl build once the port is closed,
where `userial_vendor_close` has done it.

**Bounds.** Three requests are enough to follow a success, a failure and an abandoned
request with another; `MaxStarts = 2` where the host may act everywhere, which covers
any pair. Two descriptors tell the file of a new configuration from one that was
forgotten. Files of at most four records have each ending, with and without a record
before and after it. `HoldTicks < KernelTicks` is the only relation of the timeouts
that matters, and the theorems cover all values; 2 and 4 leave room between them. Three HCI commands in flight let a
chain be overtaken by two others; in one chain only one is ever in flight. rfkill
numbers up to 2 with one other radio, below or above Bluetooth's, give a radio that is
found, one that is hidden behind a gap, and one that moved; two descriptors and two
epilogs tell one from more than one. Two files suffice for a listing's order to
matter, two lines for one setting to override another. `Grain = 50` divides every
delay, so that a sleep may be interrupted at each multiple.

**Deadlock** is checked except where the system may stop: `waiting` (the host waits
for a controller that a bad file left deaf), `boards` (after a crash), `hosts` and
`epilog` (an orderly host waits for ever for the answer to a refused epilog).

**Fairness.** `HwConfig` and `ScoConfig`: the controller answers what it hears, and
the HCI library's thread runs the callback, weakly fair as one; the host owes
nothing. `LowPower`: a thread inside a call goes on, a due timer starts its thread,
and time passes; `Tick` is strongly fair because calls may disable it again and
again, and the host does not call without end between two ticks. `VendorPort`: the HCI
library delivers the answers to the commands it took. `PatchConf`: the callback's
thread runs, and is not interrupted for ever without any sleep. No fairness is given
to the host's calls.

## 5. Proofs

Constants are arbitrary up to the named assumptions of the modules: the target speed
survives both conversions and is not 115200, descriptors are positive, the library's
timeout is shorter than the kernel's, clocks lie in 0..4, bounds are natural numbers.

- **`HwConfigProofs`**: `Inductive`, `TypeCorrect`, `LinkCorrect`, `OneDownload`,
  `SuccessCorrect`, `StdinCorrect`, `ServiceCorrect` for every host, impatient ones
  included. None of the properties is inductive. `ConfigInv` adds what each command in
  flight says about both speeds and the controller (`Phase`), that `state` selects the
  case for that command (`Dispatch`) unless the end of an earlier callback cleared it
  under a new HCI_RESET, and what holds inside the tail (`InTail`). `ServiceCorrect` is
  a step-by-step refinement under it; `AtMostOneAnswer` follows from the service alone.
  `ConfigAdvances` and `HeardOrDeaf` are the safety half of `RequestAnswered`: a
  callback ends the request or lowers the rank (pass, case, records left), and the
  command in flight is heard unless a file left the controller in download mode. What
  remains for TLC is that the fair steps then happen. `SpeedsReached` evaluates the two
  conversions for every integer; it is why `TargetAssumption` names `LineSpeeds`, and
  shows what happens outside (hazard at 824). `FilesCorrect` and `BuffersCorrect`
  assume `Waits` (no restart in the callback, no abandoning): otherwise the patch file
  and an event can be forgotten (hazards at 1128 and 910).
- **`LowPowerProofs`**: `LpmAnswered`, `TypeCorrect`, `TimerCorrect` and
  `AgreementCorrect` for every setting. `AssertsCount`, `AssertsLast` and `TimerReady`
  speak, as the properties do, of `Sound` settings: deassertions not notified (the
  default), an orderly host, working nodes. `WakeInv` says that the flag which swallows
  assertions is always watched: a timer is armed or its thread is about to clear the
  flag, and an armed timer is due before the kernel. `Lasting` adds, for `AssertsLast`,
  the reserve left on the kernel's timeout since the last call.
- **`ScoConfigProofs`**: `Counting` makes type correctness and `AnsweredOnce`
  inductive together, since `owed` stays a natural number only because each answer has
  its command. `ChainInv` says how far the port is configured when each command is in
  flight. `ChainCorrect`, and from it `NoNullCallCorrect` and `RecordedCorrect`, hold
  on every board: what success reports is what the library's statics say. That the
  statics are what the board asked for, `NbsRateCorrect`, `CodecCorrect` and
  `ServiceCorrect`, assumes `AllSteady`: each board's clocks survive a session (run
  `again` shows one whose clock does not). `ServiceCorrect` refines `AudioService` step
  by step, also for hosts that do not wait. `ChainAdvances` is the safety half of
  `RequestAnswered`: a chain takes at most four commands.
- **`VendorPortProofs`**: all safety properties of the module. `TypeInv` adds to the
  types that a remembered port is an open one, so that `openFds` stays natural;
  `RadioInv` that neither the remembered number nor the radio itself is another's;
  `HostInv` ties an orderly host's stage to what is open and in flight; `LineInv` the
  recorded level to the line and to the port; `SpeedInv` the controller's power and
  speed to the stage, for `Steady` rfkill. Two more say what no run does:
  `PowerCorrect`, that there every host, disorderly or crashed before, gets the power
  it asked for; and `NoEpilogLost`, the safety half of `EpilogTakenAnswered`.
- **`PatchConfProofs`**: `TypeCorrect`, `SearchCorrect`, `SettledCorrect`,
  `EarlyCorrect` and `ReadCorrect`, for any directory, name, set of words and
  configuration file. `SearchInv` says that the search is at a prefix of the name and
  that every longer prefix it may try has no file: its step needs that the last cut of
  a prefix is the next cut of the whole name (`NextCut`, `NoCutLeft`) and that the
  first match is all that counts (`FirstMatch`). `SettledCorrect` is about names that
  end within the kept characters. `SettleInv` needs that what is kept from "BCM" on then
  still contains the chip's number (`ChipNameKeeps`), and that what was slept and what is
  left make up the delay. `EarlyInv` says which name an early answer came from, `ReadInv`
  that the settings are what the lines read so far give. `StepsAdvance` is the safety half of `Finishes`: each step lowers the
  lexicographic rank of phase, chunks left, letters and entries left, and sleep left,
  except a sleep interrupted before it began.

Only model-checked: liveness (`RequestAnswered` of both modules, `NeverLeftAsserted`,
`Finishes`, `EpilogTakenAnswered`), which is out of the prover's reach. Every safety
property of a passing run is stated by a theorem.

## 6. Not modelled

- `uipc_msg.h`: message types that nothing in the library uses. There is no behaviour.
- `src/unit_test`, `src/mocks`: tests, and mocks, of a client of a Bluetooth service
  that is not in this repository; they call nothing of `libbt`.
- The makefile; A2DP offload (`BRCM_A2DP_OFFLOAD`), whose code is not in the
  repository; log output.
- termios bits other than the speed; the line-discipline switch of BT_WAKE
  (`BT_WAKE_USERIAL_LDISC`), which changes nothing that the library keeps.
- Firmware configuration at target speeds that the conversions do not know (hazard at
  `hardware.c` 824); `SpeedsReached` says which those are.
- What the epilog's HCI_RESET does to the controller's speed: the host closes the port
  and switches power off after it.
