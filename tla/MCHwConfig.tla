------------------------------ MODULE MCHwConfig ------------------------------
(***************************************************************************)
(* Instances of HwConfig for TLC.                                          *)
(***************************************************************************)
EXTENDS HwConfig, BuildConfig

\* The target speed of the shipped build.
BuiltTarget == General.UART_TARGET_BAUD_RATE

\* Whole files: two records, a launch, and something after the launch.
IntactFiles == {<<"WRITE_RAM", "LAUNCH_RAM">>,
                <<"WRITE_RAM", "WRITE_RAM", "LAUNCH_RAM", "WRITE_RAM">>}

\* Files that were cut: empty, without a launch, in a preamble, in a payload.
CutFiles == {<<>>, <<"WRITE_RAM">>, <<"WRITE_RAM", "SHORT">>,
             <<"WRITE_RAM", "CUT_RECORD">>}

AllFiles == IntactFiles \cup CutFiles
=============================================================================
