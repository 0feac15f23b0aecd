------------------------------ MODULE UartSpeed ------------------------------
(***************************************************************************)
(* The conversions between line speeds (bit/s), the USERIAL_BAUD_* symbols *)
(* of userial_vendor.h, and the speeds the host's serial port is set to    *)
(* (termios B* constants, written here as their speeds).                   *)
(***************************************************************************)
EXTENDS Integers

\* SymbolSpeed[b] is the speed that symbol b of userial_vendor.h is named for,
\* for b in 1..15.  USERIAL_BAUD_300 (0) and USERIAL_BAUD_AUTO (16) have no
\* entry: neither conversion knows them.
SymbolSpeed == << 600, 1200, 2400, 9600, 19200, 57600, 115200, 230400,
                  460800, 921600, 1000000, 1500000, 2000000, 3000000, 4000000 >>

USERIAL_BAUD_115200 == 7

\* The symbols the two conversions have a branch for; 2400 and 1.5M have a
\* symbol and no branch.
LineSpeedBranches == (1..15) \ {3, 12}
TcioBranches      == (1..15) \ {3, 12}

\* An unsupported line speed becomes the symbol of 115200.
line_speed_to_userial_baud(speed) ==
  IF \E b \in LineSpeedBranches : SymbolSpeed[b] = speed
  THEN CHOOSE b \in LineSpeedBranches : SymbolSpeed[b] = speed
  ELSE USERIAL_BAUD_115200

\* An unsupported symbol sets the port to 115200.
userial_to_tcio_baud(b) == IF b \in TcioBranches THEN SymbolSpeed[b] ELSE 115200

\* The speed the host's port ends up at when the program asks for `speed`.
HostSpeed(speed) == userial_to_tcio_baud(line_speed_to_userial_baud(speed))

\* The speeds both ends can use: those that survive the two conversions.
LineSpeeds == {SymbolSpeed[b] : b \in LineSpeedBranches}
=============================================================================
