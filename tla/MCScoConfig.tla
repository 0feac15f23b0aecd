------------------------------ MODULE MCScoConfig ------------------------------
(***************************************************************************)
(* Instances of ScoConfig for TLC.                                         *)
(***************************************************************************)
EXTENDS ScoConfig, BuildConfig

\* The board the headers make, by bus.
BuiltBoard(bus) ==
  [i2s |-> bus, nbs |-> BusClockRate(bus), wbs |-> Sco.SCO_I2SPCM_IF_CLOCK_RATE4WBS,
   stays |-> TRUE, waits |-> TRUE]

\* Every steady board for a host that waits; two clocks for a host that does
\* not.
SafeBoards ==
  {b \in Board : Steady(b) /\ (~b.waits => {b.nbs, b.wbs} \subseteq {1, 2})}

ASSUME ShippedIsSafe == BuiltBoard(Sco.SCO_USE_I2S_INTERFACE) \in SafeBoards

\* The header's I2S settings.
TwoClockBoards == {BuiltBoard(TRUE)}
=============================================================================
