------------------------------ MODULE MCPatchConf ------------------------------
(***************************************************************************)
(* Instances of PatchConf for TLC.                                         *)
(***************************************************************************)
EXTENDS PatchConf, TLC

Words == STRING

BCM4324   == BCM \o <<"4", "3", "2", "4">>
BCM4324B3 == BCM4324 \o <<"B", "3">>
BCM43241B0M4 == BCM43241 \o <<"B", "0", "M", "4">>

\* Names with and without revision, two revision letters, a prefix before
\* "BCM", "4343" only, neither, and none.
Locals == {BCM4324B3, BCM43241B0M4, BCM \o <<"4", "3", "2", "5", "A", "1", "C">>,
           <<"N", "R">> \o BCM \o <<"4", "3", "5", "8">>,
           <<"A", "P">> \o Is4343 \o <<"A">>, <<"N", "R", "F", "5", "2">>, <<>>}

\* BCM43241 behind n characters from the first "BCM" on: with 23, it ends at
\* the last character that is kept; with 24, it does not fit.
Behind(n) == BCM \o [i \in 1..(n - 3) |-> "0"] \o BCM43241

Stems == {BCM4324, BCM4324B3, BCM43241B0M4, BCM, BCM \o Is4343, <<"N", "R", "F">>}

\* A file of each name; of some a long or an unsuited one.
Files == [stem: Stems, hcd: {TRUE}, long: {FALSE}]
         \cup [stem: {BCM4324B3, BCM}, hcd: {TRUE}, long: {TRUE}]
         \cup [stem: {BCM4324B3}, hcd: {FALSE}, long: {FALSE}]

Listings == {<<>>} \cup {<<f>> : f \in Files} \cup {<<f, g>> : f, g \in Files}

Plain(w)  == << [comment |-> FALSE, words |-> w] >>
Remark(w) == << [comment |-> TRUE, words |-> w] >>
\* A remark that does not fit the buffer.
LongRemark(w) == Remark(<<"#">>) \o Plain(w)

OneListing == <<[stem |-> BCM4324B3, hcd |-> TRUE, long |-> FALSE]>>
Default    == General.FW_PATCHFILE_LOCATION

\* All listings and names, without a configuration file.
SearchSites ==
  {[conf |-> <<>>, tuning |-> General.VENDOR_LIB_RUNTIME_TUNING_ENABLED,
    delay |-> General.FW_PATCH_SETTLEMENT_DELAY_MS, bcm4343 |-> b, local |-> l,
    dirs |-> (Default :> d)] : b \in BOOLEAN, l \in Locals, d \in Listings}

Lines == {Plain(<<"UartPort", "/dev/a">>), Plain(<<"UartPort">>),
          Plain(<<"FwPatchFilePath", "/fw">>), Plain(<<"FwPatchFileName", "x.hcd">>),
          Plain(<<"FwPatchSettlementDelay", "300">>),
          Plain(<<"FwPatchSettlementDelay", "none">>),
          Plain(<<"Other", "UartPort">>), Plain(<<>>),
          Remark(<<"#UartPort", "/dev/b">>), Plain(<<"UartPort", "/dev/c", "#">>)}

Confs == {<<a, b>> : a, b \in Lines}

\* All settings, with one listing in each of two directories.
ConfSites ==
  {[conf |-> c, tuning |-> t, delay |-> m, bcm4343 |-> FALSE, local |-> l,
    dirs |-> [d \in {Default, "/fw"} |-> OneListing]] :
     c \in Confs \cup {<<LongRemark(<<"UartPort", "/dev/b">>)>>}, t \in BOOLEAN,
     m \in {0, 50}, l \in {BCM4324B3, BCM43241B0M4}}

LongNames == {Behind(23), Behind(24),
              Is4343 \o [i \in 1..25 |-> "0"] \o <<"A", "2">>}

\* Long names, whose ends are not kept, and a file of the whole name.
LongNameSites ==
  {[conf |-> <<>>, tuning |-> TRUE, delay |-> 0, bcm4343 |-> TRUE, local |-> l,
    dirs |-> (Default :> <<[stem |-> l, hcd |-> TRUE, long |-> FALSE]>>)] : l \in LongNames}

AllSites == SearchSites \cup ConfSites \cup LongNameSites

\* One file with a remark that does not fit.
LongLineSites ==
  {s \in ConfSites : s.conf = <<LongRemark(<<"UartPort", "/dev/b">>)>>}
=============================================================================
