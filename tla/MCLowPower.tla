------------------------------ MODULE MCLowPower ------------------------------
(***************************************************************************)
(* Instances of LowPower for TLC.                                          *)
(***************************************************************************)
EXTENDS LowPower, BuildConfig

AllSettings == {s \in Setting : s.sleep = 0 => s.orderly /\ ~s.notify}

\* An orderly host and working nodes, with the defaults of the header, and
\* where deassertions are noted too.
QuietDeassert ==
  {[notify |-> Wake.BT_WAKE_VIA_PROC_NOTIFY_DEASSERT, sleep |-> LpmDefaults.LPM_SLEEP_MODE,
    orderly |-> TRUE, fail |-> FALSE]}
NotedDeassert == {[s EXCEPT !.notify = TRUE] : s \in QuietDeassert}
=============================================================================
