------------------------------- MODULE PatchConf -------------------------------
(***************************************************************************)
(* From the name of a chip to the patch file it is loaded with: the        *)
(* settings of the run-time configuration file (conf.c), the name that     *)
(* READ_LOCAL_NAME returns, the search of hw_config_findpatch through the  *)
(* directory of patch files, and the time the controller is given to start *)
(* its patch; and the idle timeout, which depends on the name too.         *)
(*                                                                         *)
(* Names are sequences of characters, in capitals: all comparisons are     *)
(* caseless, or made after toupper.  Words of the configuration file,      *)
(* directories and ports are not looked into.                              *)
(***************************************************************************)
EXTENDS Integers, Sequences, BuildConfig

CONSTANTS
  Word,     \* the words of configuration files, those of the build among them
  Sites,    \* the sites the library may run at
  Grain     \* nanosleep is interrupted only at multiples of Grain ms

Digit == {"0", "1", "2", "3", "4", "5", "6", "7", "8", "9"}
Char  == Digit \cup {"A", "B", "C", "F", "K", "M", "N", "O", "P", "R", "U", "W"}
Name  == Seq(Char)

\* fgets takes a line in chunks of at most 255 characters.  A chunk: whether
\* it starts with '#', and its words.
Entry == {"UartPort", "FwPatchFilePath", "FwPatchFileName", "FwPatchSettlementDelay"}
Chunk == [comment: BOOLEAN, words: Seq(Word)]
Line  == Seq(Chunk) \ {<<>>}

\* A file of a directory: its name without extension, whether that is .hcd,
\* and whether directory and name exceed FW_PATCHFILE_PATH_MAXLEN.
File == [stem: Name, hcd: BOOLEAN, long: BOOLEAN]

\* conf:    the configuration file, <<>> when it is not there, or not read:
\*          init has its call of vnd_load_conf commented out
\* tuning:  VENDOR_LIB_RUNTIME_TUNING_ENABLED
\* delay:   FW_PATCH_SETTLEMENT_DELAY_MS
\* bcm4343: USE_BLUETOOTH_BCM4343
\* local:   the name the controller returns
\* dirs:    the listings, in readdir's order, of the directories there are
SiteAssumed(s) ==
  /\ s.conf \in Seq(Line) /\ s.tuning \in BOOLEAN /\ s.delay \in Nat
  /\ s.bcm4343 \in BOOLEAN /\ s.local \in Name
  /\ \A d \in DOMAIN s.dirs : s.dirs[d] \in Seq(File)

ASSUME WordAssumption ==
  {"", General.BLUETOOTH_UART_DEVICE_PORT, General.FW_PATCHFILE_LOCATION} \subseteq Word
ASSUME SitesAssumption == \A s \in Sites : SiteAssumed(s)
ASSUME GrainAssumption == Grain \in Nat \ {0}

VARIABLES
  site,
  pc,
  todo,                       \* the lines of the file not yet read
  port_name, fw_patchfile_path, fw_patchfile_name,
  fw_patch_settlement_delay,
  local_chip_name,
  target,                     \* p_chip_id_str, the name searched for
  entry,                      \* the next entry of the directory
  patch,                      \* the file found, by directory and name
  remaining, slept,           \* ms_delay: still to sleep, and slept
  idle_timeout                \* the last answer to GET_LPM_IDLE_TIMEOUT, 0 for none

confVars == <<port_name, fw_patchfile_path, fw_patchfile_name,
              fw_patch_settlement_delay>>
findVars == <<target, entry, patch>>
waitVars == <<remaining, slept>>
vars == <<site, pc, todo, local_chip_name, idle_timeout, confVars, findVars, waitVars>>

NoPatch == <<>>

-----------------------------------------------------------------------------
(* The name of the chip. *)

\* strstr: where a word starts in a name.
Starts(s, w) == {i \in 1..(Len(s) - Len(w) + 1) : SubSeq(s, i, i + Len(w) - 1) = w}
Contains(s, w) == Starts(s, w) # {}
From(s, w) ==
  LET i == CHOOSE k \in Starts(s, w) : \A j \in Starts(s, w) : k <= j
  IN  SubSeq(s, i, Len(s))

\* strncpy and snprintf: the first n characters.
Kept(s, n) == SubSeq(s, 1, IF Len(s) < n THEN Len(s) ELSE n)

BCM     == <<"B", "C", "M">>
Is4343  == <<"4", "3", "4", "3">>
UNKNOWN == <<"U", "N", "K", "N", "O", "W", "N">>

LOCAL_NAME_BUFFER_LEN == 32

\* Only "4343" is in the controller's name, which some builds look for.
Only4343(s) == ~Contains(s.local, BCM) /\ s.bcm4343 /\ Contains(s.local, Is4343)

\* What local_chip_name keeps of the name: strncpy leaves room for the
\* terminating zero, and snprintf, which is given one byte less, for two.
ChipName(s) ==
  CASE Contains(s.local, BCM) -> Kept(From(s.local, BCM), LOCAL_NAME_BUFFER_LEN - 1)
    [] Only4343(s) -> Kept(BCM \o From(s.local, Is4343), LOCAL_NAME_BUFFER_LEN - 2)
    [] OTHER -> UNKNOWN

\* The name to search for: in the buffer of the event, so not cut; but the name
\* made of "4343" is copied back there.
SearchName(s) ==
  CASE Contains(s.local, BCM) -> From(s.local, BCM)
    [] Only4343(s) -> ChipName(s)
    [] OTHER -> s.local

-----------------------------------------------------------------------------
\* local_chip_name is a static: empty when the library is loaded, and later
\* what an earlier configuration of the same controller left there.
Init ==
  /\ site \in Sites /\ pc = "conf" /\ todo = site.conf
  /\ port_name = General.BLUETOOTH_UART_DEVICE_PORT
  /\ fw_patchfile_path = General.FW_PATCHFILE_LOCATION
  /\ fw_patchfile_name = "" /\ fw_patch_settlement_delay = -1
  /\ local_chip_name \in {<<>>, ChipName(site)}
  /\ target = <<>> /\ entry = 1 /\ patch = NoPatch
  /\ remaining = 0 /\ slept = 0 /\ idle_timeout = 0

-----------------------------------------------------------------------------
(* The configuration file. *)

Supported == IF site.tuning THEN Entry ELSE Entry \ {"FwPatchSettlementDelay"}

\* Chunk c is an assignment to entry e.  What follows the second word is not
\* looked at.
Assigns(c, e) ==
  e \in Supported /\ ~c.comment /\ Len(c.words) > 1 /\ c.words[1] = e

\* atoi, for the words the sites use.
atoi(w) == CASE w = "300" -> 300 [] w = "-1" -> -1 [] OTHER -> 0

\* Mutant of After: a missing value clears the setting.
After_Clears(c, e, old) ==
  IF Assigns(c, e) THEN c.words[2]
  ELSE IF ~c.comment /\ c.words = <<e>> THEN "" ELSE old

\* The value of entry e after chunk c.
After(c, e, old) == IF Assigns(c, e) THEN c.words[2] ELSE old

userial_set_port(c) == port_name' = After(c, "UartPort", port_name)

hw_set_patch_file(c) ==
  /\ fw_patchfile_path' = After(c, "FwPatchFilePath", fw_patchfile_path)
  /\ fw_patchfile_name' = After(c, "FwPatchFileName", fw_patchfile_name)

hw_set_patch_settlement_delay(c) ==
  fw_patch_settlement_delay' = IF Assigns(c, "FwPatchSettlementDelay")
                               THEN atoi(c.words[2]) ELSE fw_patch_settlement_delay

\* One call of fgets, and what comes of it.
vnd_load_conf ==
  /\ pc = "conf" /\ todo # <<>>
  /\ LET line == Head(todo)
         c    == Head(line)
     IN  /\ todo' = IF Len(line) > 1 THEN <<Tail(line)>> \o Tail(todo) ELSE Tail(todo)
         /\ userial_set_port(c) /\ hw_set_patch_file(c)
         /\ hw_set_patch_settlement_delay(c)
  /\ UNCHANGED <<site, pc, local_chip_name, idle_timeout, findVars, waitVars>>

-----------------------------------------------------------------------------
\* The controller's answer to READ_LOCAL_NAME.
ReadLocalName ==
  /\ pc = "conf" /\ todo = <<>> /\ pc' = "find"
  /\ local_chip_name' = ChipName(site) /\ target' = SearchName(site)
  /\ UNCHANGED <<site, todo, entry, patch, idle_timeout, confVars, waitVars>>

-----------------------------------------------------------------------------
(* hw_config_findpatch, which calls itself with the shortened name. *)

Elsewhere == UNCHANGED <<site, todo, local_chip_name, idle_timeout, confVars, waitVars>>

Listing == site.dirs[fw_patchfile_path]

\* A name from the configuration file is taken as it is; else the directory is
\* opened.
FindPatch ==
  /\ pc = "find" /\ UNCHANGED target /\ Elsewhere
  /\ \/ /\ fw_patchfile_name # ""
        /\ patch' = <<fw_patchfile_path, fw_patchfile_name>>
        /\ pc' = "found" /\ UNCHANGED entry
     \/ /\ fw_patchfile_name = "" /\ fw_patchfile_path \in DOMAIN site.dirs
        /\ pc' = "scan" /\ entry' = 1 /\ UNCHANGED patch
     \/ /\ fw_patchfile_name = "" /\ fw_patchfile_path \notin DOMAIN site.dirs
        /\ pc' = "none" /\ UNCHANGED <<entry, patch>>

\* hw_strncmp over the length of the name, and again over the extension.
Matches(f, name) ==
  /\ f.hcd /\ Len(name) <= Len(f.stem) /\ SubSeq(f.stem, 1, Len(name)) = name

\* The first match ends the scan, also when its path is too long.
ReadEntry ==
  /\ pc = "scan" /\ entry <= Len(Listing) /\ UNCHANGED target /\ Elsewhere
  /\ LET f == Listing[entry]
     IN  \/ /\ ~Matches(f, target) /\ entry' = entry + 1 /\ UNCHANGED <<pc, patch>>
         \/ /\ Matches(f, target) /\ f.long /\ pc' = "shorten"
            /\ UNCHANGED <<entry, patch>>
         \/ /\ Matches(f, target) /\ ~f.long /\ pc' = "found"
            /\ patch' = <<fw_patchfile_path, f>> /\ UNCHANGED entry

EndOfDir ==
  /\ pc = "scan" /\ entry > Len(Listing) /\ pc' = "shorten"
  /\ UNCHANGED findVars /\ Elsewhere

\* Where a name can be cut: at a letter that is not M, behind "BCM".
Cuts(s) == {k \in 4..Len(s) : s[k] \notin Digit \cup {"M"}}
LastCut(s) == CHOOSE k \in Cuts(s) : \A j \in Cuts(s) : j <= k

\* Mutant of Shorten: a name that ends in a letter is not shortened.
Shorten_KeepsLetter ==
  /\ pc = "shorten" /\ UNCHANGED <<entry, patch>> /\ Elsewhere
  /\ IF Cuts(target) = {} \/ LastCut(target) = Len(target)
     THEN pc' = "none" /\ UNCHANGED target
     ELSE pc' = "find" /\ target' = SubSeq(target, 1, LastCut(target))

\* Mutant of Shorten: the cut keeps the letter.
Shorten_Endless ==
  /\ pc = "shorten" /\ UNCHANGED <<entry, patch>> /\ Elsewhere
  /\ IF Cuts(target) = {} THEN pc' = "none" /\ UNCHANGED target
     ELSE pc' = "find" /\ target' = SubSeq(target, 1, LastCut(target))

\* "Try again chip name without revision info".
Shorten ==
  /\ pc = "shorten" /\ UNCHANGED <<entry, patch>> /\ Elsewhere
  /\ IF Cuts(target) = {} THEN pc' = "none" /\ UNCHANGED target
     ELSE pc' = "find" /\ target' = SubSeq(target, 1, LastCut(target) - 1)

hw_config_findpatch == FindPatch \/ ReadEntry \/ EndOfDir \/ Shorten

-----------------------------------------------------------------------------
(* The settlement delay, once the patch was downloaded. *)

BCM43241 == BCM \o <<"4", "3", "2", "4", "1">>
BCM43341 == BCM \o <<"4", "3", "3", "4", "1">>
fw_settlement_table == << [chip |-> BCM43241, ms |-> 200], [chip |-> BCM43341, ms |-> 100] >>

\* The delay of the first chip of the table that the name contains.
Recommended ==
  LET chips == {i \in 1..2 : Contains(local_chip_name, fw_settlement_table[i].chip)}
  IN  IF chips = {} THEN 100
      ELSE fw_settlement_table[CHOOSE i \in chips : \A j \in chips : i <= j].ms

\* Mutant of look_up_fw_settlement_delay: the run-time value is not checked.
look_up_fw_settlement_delay_Unset ==
  CASE site.delay > 0 -> site.delay
    [] site.delay = 0 /\ site.tuning ->
         fw_patch_settlement_delay
    [] OTHER -> Recommended

look_up_fw_settlement_delay ==
  CASE site.delay > 0 -> site.delay
    [] site.delay = 0 /\ site.tuning /\ fw_patch_settlement_delay >= 0 ->
         fw_patch_settlement_delay
    [] OTHER -> Recommended

\* The file cannot be opened, or not be downloaded; or it was.
Downloaded ==
  /\ pc = "found"
  /\ \/ pc' = "none" /\ UNCHANGED remaining
     \/ pc' = "settle" /\ remaining' = look_up_fw_settlement_delay
  /\ UNCHANGED <<site, todo, local_chip_name, idle_timeout, confVars, findVars, slept>>

\* Mutant of ms_delay: an interrupted sleep is not resumed.
ms_delay_Once ==
  /\ pc = "settle" /\ pc' = "ready" /\ remaining' = 0
  /\ \E left \in {r \in 0..remaining : r % Grain = 0} : slept' = slept + remaining - left
  /\ UNCHANGED <<site, todo, local_chip_name, idle_timeout, confVars, findVars>>

\* nanosleep returns in time, or is interrupted and told what is left.
ms_delay ==
  /\ pc = "settle"
  /\ \E left \in {r \in 0..remaining : r % Grain = 0} :
       /\ slept' = slept + remaining - left /\ remaining' = left
       /\ pc' = IF left = 0 THEN "ready" ELSE pc
  /\ UNCHANGED <<site, todo, local_chip_name, idle_timeout, confVars, findVars>>

-----------------------------------------------------------------------------
(* The idle timeout, which the host may ask for at any time. *)

\* Mutant of IdleUnit: 25 ms are taken for a chip that is not known.
IdleUnit_Short(chip) ==
  CASE Contains(chip, BCM \o <<"4", "3", "5", "8">>) -> 50
    [] Contains(chip, BCM \o <<"4", "3", "0", "1", "3">>) -> 1
    [] OTHER -> 25

\* The unit of the idle thresholds, in ms.
IdleUnit(chip) ==
  CASE Contains(chip, BCM \o <<"4", "3", "2", "5">>) -> 25
    [] Contains(chip, BCM \o <<"4", "3", "5", "8">>) -> 50
    [] Contains(chip, BCM \o <<"4", "3", "0", "1", "3">>) -> 1
    [] OTHER -> 300

IdleTimeout(chip) ==
  Lpm.LPM_IDLE_THRESHOLD * Lpm.LPM_IDLE_TIMEOUT_MULTIPLE * IdleUnit(chip)

hw_lpm_get_idle_timeout ==
  /\ idle_timeout' = IdleTimeout(local_chip_name)
  /\ UNCHANGED <<site, pc, todo, local_chip_name, confVars, findVars, waitVars>>

-----------------------------------------------------------------------------
Step == vnd_load_conf \/ ReadLocalName \/ hw_config_findpatch \/ Downloaded
        \/ ms_delay

Next == Step \/ hw_lpm_get_idle_timeout

Spec == Init /\ [][Next]_vars

\* The program runs, and does not get interrupted without any sleep for ever.
FairSpec == Spec /\ WF_vars(Step)

-----------------------------------------------------------------------------
(* Properties. *)

\* Type invariant.
TypeOK ==
  /\ site \in Sites /\ todo \in Seq(Line)
  /\ pc \in {"conf", "find", "scan", "shorten", "found", "none", "settle", "ready"}
  /\ {port_name, fw_patchfile_path, fw_patchfile_name} \subseteq Word
  /\ fw_patch_settlement_delay \in Int
  /\ local_chip_name \in Name /\ target \in Name /\ entry \in Nat \ {0}
  /\ patch # NoPatch => Len(patch) = 2 /\ patch[1] \in Word
  /\ remaining \in Nat /\ slept \in Nat /\ idle_timeout \in Nat

\* What a file means to its reader: the last line that assigns to an entry.
Written(e, default) ==
  LET lines == {i \in 1..Len(site.conf) : Assigns(site.conf[i][1], e)}
      last  == CHOOSE i \in lines : \A j \in lines : j <= i
  IN  IF lines = {} THEN default ELSE site.conf[last][1].words[2]

\* "read line by line" (conf.c:106): once the file was read, every setting has
\* the value its last line gives it, and nothing else sets it.
ReadLineByLine ==
  pc # "conf" =>
    /\ port_name = Written("UartPort", General.BLUETOOTH_UART_DEVICE_PORT)
    /\ fw_patchfile_path = Written("FwPatchFilePath", General.FW_PATCHFILE_LOCATION)
    /\ fw_patchfile_name = Written("FwPatchFileName", "")
    /\ fw_patch_settlement_delay = atoi(Written("FwPatchSettlementDelay", "-1"))

\* The same for files whose lines fit the buffer (conf.c 100-107).
ShortLinesRead == (\A i \in 1..Len(site.conf) : Len(site.conf[i]) = 1) => ReadLineByLine

\* The names the search may try: the chip's, and what is left of it before
\* each letter that may start revision information.
Tried ==
  LET full == SearchName(site)
  IN  {full} \cup {SubSeq(full, 1, k - 1) : k \in Cuts(full)}
Hits(name) == {i \in 1..Len(Listing) : Matches(Listing[i], name)}
\* The file taken for a name: its first match, if its path fits.
Taken(name) ==
  {Listing[i] : i \in {k \in Hits(name) : ~Listing[k].long /\ \A j \in Hits(name) : k <= j}}

\* The search ends with the file for the longest name that has one, and
\* without a file only when none has: neither the order of the listing nor the
\* recursion makes it skip a name (hardware.c 465-534).
SearchIsBestFit ==
  /\ fw_patchfile_name = "" /\ fw_patchfile_path \in DOMAIN site.dirs
  /\ pc \in {"found", "none", "settle", "ready"}
  => \/ patch = NoPatch /\ \A name \in Tried : Taken(name) = {}
     \/ \E name \in Tried :
          /\ patch \in {<<fw_patchfile_path, f>> : f \in Taken(name)}
          /\ \A other \in Tried : Taken(other) # {} => Len(other) <= Len(name)

\* BCM43241 ends within the characters that are kept from the first "BCM" on.
NamedInTime(s) ==
  \E i \in Starts(s.local, BCM43241) : \A j \in Starts(s.local, BCM) :
    i + Len(BCM43241) <= j + LOCAL_NAME_BUFFER_LEN - 1

\* "BCM43241B0 needs at least 200ms settlement delay" (bt_vendor_nordic.h 75):
\* however often the sleep is interrupted, the next command is not sent
\* earlier, unless the build or the configuration file asks for it.  A chip
\* named behind the characters that are kept gets the 100 ms of the others.
SettledInTime ==
  pc = "ready" /\ NamedInTime(site) /\ site.delay = 0 /\ fw_patch_settlement_delay < 0
  => slept >= 200

\* A host that keeps an answer it got before the name was read, from a name that
\* is empty or of an earlier configuration, waits at least as long as the chip's
\* own timeout: it does not let the chip sleep too soon.
EarlyAnswerSafe ==
  pc # "conf" /\ idle_timeout # 0 => idle_timeout >= IdleTimeout(local_chip_name)

\* The search ends, and so does the delay (hardware.c 510-534, 343-345).
Finishes == <>(pc \in {"none", "ready"})
=============================================================================
