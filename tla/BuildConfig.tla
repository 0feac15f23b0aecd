------------------------------ MODULE BuildConfig ------------------------------
(***************************************************************************)
(* The build-time settings of the library that other modules depend on:    *)
(* the defaults of bt_vendor_nordic.h, by group, and what vnd_nordic.txt   *)
(* sets instead.                                                           *)
(***************************************************************************)
EXTENDS Naturals

GeneralDefaults ==
  [VENDOR_LIB_RUNTIME_TUNING_ENABLED |-> FALSE,
   BLUETOOTH_UART_DEVICE_PORT        |-> "/dev/ttyO1",
   FW_PATCHFILE_LOCATION             |-> "/vendor/firmware/",
   UART_TARGET_BAUD_RATE             |-> 3000000,
   FW_PATCH_SETTLEMENT_DELAY_MS      |-> 0,
   USE_CONTROLLER_BDADDR             |-> FALSE]

\* The order of lpm_param, the parameters of WRITE_SLEEP_MODE.
LpmDefaults ==
  [LPM_SLEEP_MODE                  |-> 1,
   LPM_IDLE_THRESHOLD              |-> 1,
   LPM_HC_IDLE_THRESHOLD           |-> 1,
   LPM_BT_WAKE_POLARITY            |-> 1,
   LPM_HOST_WAKE_POLARITY          |-> 1,
   LPM_ALLOW_HOST_SLEEP_DURING_SCO |-> 1,
   LPM_COMBINE_SLEEP_MODE_AND_LPM  |-> 1,
   LPM_ENABLE_UART_TXD_TRI_STATE   |-> 0,
   LPM_PULSED_HOST_WAKE            |-> 0,
   LPM_IDLE_TIMEOUT_MULTIPLE       |-> 10]

WakeDefaults ==
  [BT_WAKE_VIA_USERIAL_IOCTL        |-> FALSE,
   BT_WAKE_USERIAL_LDISC            |-> FALSE,
   BT_WAKE_VIA_PROC                 |-> FALSE,
   BT_WAKE_VIA_PROC_NOTIFY_DEASSERT |-> FALSE]

\* Clock rates: 0 for 128K, then doubled up to 4.
ScoDefaults ==
  [SCO_USE_I2S_INTERFACE        |-> FALSE,
   SCO_WBS_SAMPLE_RATE          |-> 1,
   SCO_I2SPCM_IF_MODE           |-> 1,
   SCO_I2SPCM_IF_ROLE           |-> 1,
   SCO_I2SPCM_IF_SAMPLE_RATE    |-> 0,
   SCO_I2SPCM_IF_CLOCK_RATE     |-> 1,
   SCO_I2SPCM_IF_CLOCK_RATE4WBS |-> 2]

PcmDefaults ==
  [SCO_PCM_ROUTING       |-> 0,
   SCO_PCM_IF_CLOCK_RATE |-> 4,
   SCO_PCM_IF_FRAME_TYPE |-> 0,
   SCO_PCM_IF_SYNC_MODE  |-> 0,
   SCO_PCM_IF_CLOCK_MODE |-> 0]

EpilogDefaults == [HW_END_WITH_HCI_RESET |-> FALSE]

\* vnd_nordic.txt, as vnd_buildcfg.h hands it to the headers.
Overrides ==
  [BLUETOOTH_UART_DEVICE_PORT |-> "/dev/ttymxc0",
   FW_PATCHFILE_LOCATION      |-> "/vendor/firmware/brcm",
   LPM_IDLE_TIMEOUT_MULTIPLE  |-> 5,
   SCO_USE_I2S_INTERFACE      |-> FALSE,
   LPM_SLEEP_MODE             |-> 0,
   UART_TARGET_BAUD_RATE      |-> 1000000]

\* A header keeps its default where nothing was defined before it.
Built(defaults) ==
  [s \in DOMAIN defaults |->
     IF s \in DOMAIN Overrides THEN Overrides[s] ELSE defaults[s]]

General == Built(GeneralDefaults)
Lpm     == Built(LpmDefaults)
Wake    == Built(WakeDefaults)
Sco     == Built(ScoDefaults)
Pcm     == Built(PcmDefaults)
Epilog  == Built(EpilogDefaults)

\* The narrow-band clock of a bus: bt_sco_i2spcm_param[3] or bt_sco_param[1].
BusClockRate(i2s) ==
  IF i2s THEN Sco.SCO_I2SPCM_IF_CLOCK_RATE ELSE Pcm.SCO_PCM_IF_CLOCK_RATE
=============================================================================
