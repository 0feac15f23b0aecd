------------------------------ MODULE MCVendorPort ------------------------------
(***************************************************************************)
(* Instances of VendorPort for TLC.                                        *)
(***************************************************************************)
EXTENDS VendorPort, BuildConfig

\* The shipped build, where rfkill works.
Plain == [emul |-> FALSE, disabled |-> FALSE, fails |-> FALSE, moves |-> FALSE,
          others |-> {0}, ioctl |-> Wake.BT_WAKE_VIA_USERIAL_IOCTL,
          reset |-> Epilog.HW_END_WITH_HCI_RESET, orderly |-> TRUE, crash |-> FALSE]

Hosts(s) == {[s EXCEPT !.orderly = o, !.crash = c] : o, c \in BOOLEAN}

\* Every way rfkill may work, or not.
PowerSettings ==
  UNION {Hosts([Plain EXCEPT !.emul = e, !.disabled = d, !.fails = f, !.moves = m,
                             !.others = o]) :
           e, d, f, m \in BOOLEAN, o \in {{0}, {1}}}

\* Both builds of BT_WAKE, and of the epilog.
BuildSettings ==
  UNION {Hosts([Plain EXCEPT !.fails = f, !.ioctl = i, !.reset = r]) :
           f, i, r \in BOOLEAN}

AllSettings == PowerSettings \cup BuildSettings

\* The HCI library may refuse the epilog's command.
EpilogSettings == {[Plain EXCEPT !.fails = TRUE, !.reset = TRUE]}
=============================================================================
