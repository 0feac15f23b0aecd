---------------------------- MODULE PatchConfProofs ----------------------------
(***************************************************************************)
(* Theorems about PatchConf, for every site: any directory, any name, any  *)
(* configuration file.                                                     *)
(***************************************************************************)
EXTENDS PatchConf, TLAPS, WellFoundedInduction, SequenceTheorems

(***************************************************************************)
(* Least elements, words in names, and the settings of the build.          *)
(***************************************************************************)

\* A set of natural numbers has a least element.
LEMMA Least ==
  ASSUME NEW S, S \subseteq Nat, S # {}
  PROVE  \E i \in S : \A j \in S : i <= j
<1>1. \E i \in S : \A j \in S : ~(<<j, i>> \in OpToRel(<, Nat))
  BY NatLessThanWellFounded, WFMin
<1>2. PICK i \in S : \A j \in S : ~(<<j, i>> \in OpToRel(<, Nat))
  BY <1>1
<1>3. ASSUME NEW j \in S PROVE i <= j
  <2>1. i \in Nat /\ j \in Nat
    OBVIOUS
  <2>2. j < i => <<j, i>> \in OpToRel(<, Nat)
    BY <2>1 DEF OpToRel
  <2>3. ~(j < i)
    BY Zenon, <1>2, <2>2
  <2> QED
    BY <2>1, <2>3
<1> QED
  BY <1>3

\* strstr finds the first place of a word.
LEMMA FromFirst ==
  ASSUME NEW s, NEW w, s \in Name, w \in Name, Contains(s, w)
  PROVE  \E i \in Starts(s, w) : /\ \A j \in Starts(s, w) : i <= j
                                 /\ From(s, w) = SubSeq(s, i, Len(s))
<1>1. Starts(s, w) \subseteq Nat
  BY DEF Starts, Name
<1>2. \E i \in Starts(s, w) : \A j \in Starts(s, w) : i <= j
  BY <1>1, Least DEF Contains
<1> QED
  BY <1>2 DEF From

\* The words the library looks for are names.
LEMMA WordNames ==
  /\ BCM \in Name /\ Is4343 \in Name /\ BCM43241 \in Name /\ UNKNOWN \in Name
  /\ Len(BCM) = 3 /\ Len(BCM43241) = 8 /\ Len(UNKNOWN) = 7
<1>1. <<"4", "3", "2", "4", "1">> \in Name
  BY DEF Name, Char, Digit
<1>2. BCM \in Name /\ Is4343 \in Name /\ UNKNOWN \in Name
  BY DEF Name, Char, Digit, BCM, Is4343, UNKNOWN
<1> QED
  BY <1>1, <1>2 DEF BCM43241, Name, BCM, UNKNOWN

\* What follows the start of a word is a name.
LEMMA FromName ==
  ASSUME NEW s, NEW w, s \in Name, w \in Name, Contains(s, w)
  PROVE  From(s, w) \in Name
<1>1. PICK i \in Starts(s, w) : From(s, w) = SubSeq(s, i, Len(s))
  BY FromFirst
<1>2. i \in 1..Len(s) + 1
  BY DEF Starts, Name
<1> QED
  BY <1>1, <1>2 DEF Name

\* The first characters of a name are a name.
LEMMA KeptName ==
  ASSUME NEW s, s \in Name, NEW n \in Nat
  PROVE  Kept(s, n) \in Name
<1>1. Len(s) \in Nat
  BY DEF Name
<1> DEFINE m == IF Len(s) < n THEN Len(s) ELSE n
<1>2. m \in 0..Len(s)
  BY <1>1
<1> HIDE DEF m
<1>3. SubSeq(s, 1, m) \in Name
  BY <1>1, <1>2 DEF Name
<1> QED
  BY <1>3 DEF Kept, m

\* What is kept of the controller's name, and what is searched for, are names.
LEMMA ChipNames ==
  ASSUME NEW s, SiteAssumed(s)
  PROVE  ChipName(s) \in Name /\ SearchName(s) \in Name
<1>1. s.local \in Name
  BY DEF SiteAssumed
<1>2. Contains(s.local, BCM) => From(s.local, BCM) \in Name
  BY <1>1, FromName, WordNames
<1>3. Contains(s.local, Is4343) => BCM \o From(s.local, Is4343) \in Name
  BY <1>1, FromName, WordNames DEF Name
<1>4. LOCAL_NAME_BUFFER_LEN - 1 \in Nat /\ LOCAL_NAME_BUFFER_LEN - 2 \in Nat
  BY DEF LOCAL_NAME_BUFFER_LEN
<1>5. ChipName(s) \in Name
  <2>1. CASE Contains(s.local, BCM)
    <3>1. Kept(From(s.local, BCM), LOCAL_NAME_BUFFER_LEN - 1) \in Name
      BY <1>2, <1>4, <2>1, KeptName
    <3> QED
      BY <2>1, <3>1 DEF ChipName, Only4343
  <2>2. CASE Only4343(s)
    <3>1. Kept(BCM \o From(s.local, Is4343), LOCAL_NAME_BUFFER_LEN - 2) \in Name
      BY <1>3, <1>4, <2>2, KeptName DEF Only4343
    <3> QED
      BY <2>2, <3>1 DEF ChipName, Only4343
  <2>3. CASE ~Contains(s.local, BCM) /\ ~Only4343(s)
    BY <2>3, WordNames DEF ChipName
  <2> QED
    BY <2>1, <2>2, <2>3
<1>6. SearchName(s) \in Name
  BY <1>1, <1>2, <1>5 DEF SearchName
<1> QED
  BY <1>5, <1>6

\* The idle thresholds of the build are natural numbers.
LEMMA LpmThresholds ==
  Lpm.LPM_IDLE_THRESHOLD \in Nat /\ Lpm.LPM_IDLE_TIMEOUT_MULTIPLE \in Nat
<1>1. /\ LpmDefaults.LPM_IDLE_THRESHOLD \in Nat
      /\ {"LPM_IDLE_THRESHOLD", "LPM_IDLE_TIMEOUT_MULTIPLE"} \subseteq DOMAIN LpmDefaults
  BY SMT DEF LpmDefaults
<1>2. /\ "LPM_IDLE_THRESHOLD" \notin DOMAIN Overrides
      /\ "LPM_IDLE_TIMEOUT_MULTIPLE" \in DOMAIN Overrides
      /\ Overrides.LPM_IDLE_TIMEOUT_MULTIPLE \in Nat
  BY SMT DEF Overrides
<1> QED
  BY SMT, <1>1, <1>2 DEF Lpm, Built

\* The unit of a name that is not known yet is the longest.
LEMMA LongestUnit ==
  \A chip : IdleTimeout(chip) \in Nat /\ IdleTimeout(chip) <= IdleTimeout(<<>>)
<1> DEFINE t == Lpm.LPM_IDLE_THRESHOLD * Lpm.LPM_IDLE_TIMEOUT_MULTIPLE
<1>1. t \in Nat
  BY LpmThresholds
<1>2. IdleUnit(<<>>) = 300
  <2>1. Starts(<<>>, BCM \o <<"4", "3", "2", "5">>) = {}
    BY DEF Starts, BCM
  <2>2. Starts(<<>>, BCM \o <<"4", "3", "5", "8">>) = {}
    BY DEF Starts, BCM
  <2>3. Starts(<<>>, BCM \o <<"4", "3", "0", "1", "3">>) = {}
    BY DEF Starts, BCM
  <2> QED
    BY <2>1, <2>2, <2>3 DEF IdleUnit, Contains
<1>3. ASSUME NEW chip PROVE IdleUnit(chip) \in {1, 25, 50, 300}
  BY DEF IdleUnit
<1>4. ASSUME NEW chip PROVE IdleTimeout(chip) \in Nat /\ IdleTimeout(chip) <= IdleTimeout(<<>>)
  <2> HIDE DEF t
  <2>1. t * IdleUnit(chip) \in Nat /\ t * IdleUnit(chip) <= t * 300
    BY <1>1, <1>3
  <2> QED
    BY <2>1, <1>2 DEF IdleTimeout, t
<1> QED
  BY <1>4
-----------------------------------------------------------------------------
(***************************************************************************)
(* Types.                                                                  *)
(***************************************************************************)

\* The last place where a name can be cut.
LEMMA LastCutIs ==
  ASSUME NEW s, s \in Name, Cuts(s) # {}
  PROVE  /\ LastCut(s) \in Cuts(s) /\ \A j \in Cuts(s) : j <= LastCut(s)
         /\ LastCut(s) \in 4..Len(s)
<1> DEFINE D == {Len(s) - k : k \in Cuts(s)}
<1>1. Len(s) \in Nat /\ Cuts(s) \subseteq 4..Len(s)
  BY DEF Cuts, Name
<1>2. D \subseteq Nat /\ D # {}
  BY <1>1
<1>3. PICK d \in D : \A e \in D : d <= e
  <2> HIDE DEF D
  <2> QED
    BY <1>2, Least
<1>4. PICK k \in Cuts(s) : d = Len(s) - k
  BY <1>3
<1>5. ASSUME NEW j \in Cuts(s) PROVE j <= k
  <2>1. Len(s) - j \in D
    OBVIOUS
  <2>2. d <= Len(s) - j
    BY <1>3, <2>1
  <2> QED
    BY <1>1, <1>4, <2>2
<1>6. \E c \in Cuts(s) : \A j \in Cuts(s) : j <= c
  BY <1>5
<1> QED
  BY <1>1, <1>6 DEF LastCut

\* A setting keeps its value or gets a word of the chunk.
LEMMA AfterWord ==
  ASSUME NEW c, NEW e, NEW old, c \in Chunk, old \in Word
  PROVE  After(c, e, old) \in Word
<1>1. c.words \in Seq(Word)
  BY DEF Chunk
<1>2. CASE Assigns(c, e)
  <2>1. Len(c.words) > 1
    BY <1>2 DEF Assigns
  <2>2. c.words[2] \in Word
    BY <1>1, <2>1
  <2> QED
    BY <1>2, <2>2 DEF After
<1>3. CASE ~Assigns(c, e)
  BY <1>3 DEF After
<1> QED
  BY <1>2, <1>3

\* A delay is a natural number.
LEMMA DelayNat ==
  ASSUME TypeOK, SiteAssumed(site) PROVE look_up_fw_settlement_delay \in Nat
<1> DEFINE chips == {i \in 1..2 : Contains(local_chip_name, fw_settlement_table[i].chip)}
<1>1. ASSUME chips # {} PROVE (CHOOSE i \in chips : \A j \in chips : i <= j) \in 1..2
  <2>1. \E i \in chips : \A j \in chips : i <= j
    BY <1>1, Least
  <2> QED
    BY <2>1
<1>2. \A i \in 1..2 : fw_settlement_table[i].ms \in Nat
  BY DEF fw_settlement_table
<1>3. Recommended \in Nat
  BY <1>1, <1>2 DEF Recommended
<1> QED
  BY <1>3 DEF look_up_fw_settlement_delay, TypeOK, SiteAssumed

LEMMA InitTypes == Init => TypeOK
<1> SUFFICES ASSUME Init PROVE TypeOK
  OBVIOUS
<1>1. SiteAssumed(site)
  BY SitesAssumption DEF Init
<1>2. <<>> \in Name
  BY DEF Name
<1>3. site \in Sites /\ todo \in Seq(Line)
  BY <1>1 DEF Init, SiteAssumed
<1>4. local_chip_name \in Name /\ target \in Name
  BY <1>1, <1>2, ChipNames DEF Init
<1>5. /\ fw_patch_settlement_delay \in Int /\ entry \in Nat \ {0}
      /\ remaining \in Nat /\ slept \in Nat /\ idle_timeout \in Nat
  <2>1. /\ fw_patch_settlement_delay = -1 /\ entry = 1
        /\ remaining = 0 /\ slept = 0 /\ idle_timeout = 0
    BY Zenon DEF Init
  <2> QED
    BY <2>1
<1>6. pc = "conf" /\ patch = NoPatch
  BY DEF Init
<1>7. {port_name, fw_patchfile_path, fw_patchfile_name} \subseteq Word
  BY Zenon, WordAssumption DEF Init
<1> QED
  BY <1>3, <1>4, <1>5, <1>6, <1>7 DEF TypeOK

LEMMA TypeStep == TypeOK /\ [Next]_vars => TypeOK'
<1> SUFFICES ASSUME TypeOK, [Next]_vars PROVE TypeOK'
  OBVIOUS
<1>0. SiteAssumed(site)
  BY SitesAssumption DEF TypeOK
<1>1. CASE vnd_load_conf
  <2> DEFINE line == Head(todo)
  <2>1. todo \in Seq(Line) /\ todo # <<>>
    BY <1>1 DEF TypeOK, vnd_load_conf
  <2>2. line \in Line /\ Tail(todo) \in Seq(Line)
    BY <2>1
  <2>3. ASSUME Len(line) > 1 PROVE Tail(line) \in Line
    <3> HIDE DEF line
    <3>1. line \in Seq(Chunk)
      BY <2>2 DEF Line
    <3>2. Tail(line) \in Seq(Chunk) /\ Len(Tail(line)) = Len(line) - 1
      BY <2>3, <3>1
    <3>3. Len(Tail(line)) > 0
      BY <2>3, <3>1, <3>2
    <3>4. \A t : t = <<>> => ~(Len(t) > 0)
      OBVIOUS
    <3> QED
      BY Zenon, <3>2, <3>3, <3>4 DEF Line
  <2>4. todo' = IF Len(line) > 1 THEN <<Tail(line)>> \o Tail(todo) ELSE Tail(todo)
    BY <1>1 DEF vnd_load_conf
  <2>5. todo' \in Seq(Line)
    <3> HIDE DEF line
    <3> QED
      BY <2>2, <2>3, <2>4
  <2>6. fw_patch_settlement_delay' \in Int
    <3>1. \A w : atoi(w) \in Int
      BY DEF atoi
    <3>2. \E c : hw_set_patch_settlement_delay(c)
      BY <1>1 DEF vnd_load_conf
    <3> QED
      BY <3>1, <3>2 DEF hw_set_patch_settlement_delay, TypeOK
  <2>7. {port_name, fw_patchfile_path, fw_patchfile_name}' \subseteq Word
    <3> DEFINE c == Head(line)
    <3>1. line \in Seq(Chunk) /\ line # <<>>
      BY <2>2 DEF Line
    <3>2. c \in Chunk
      <4> HIDE DEF line
      <4> QED
        BY <3>1
    <3>3. userial_set_port(c) /\ hw_set_patch_file(c)
      BY <1>1 DEF vnd_load_conf
    <3> HIDE DEF line, c
    <3>4. port_name \in Word /\ fw_patchfile_path \in Word /\ fw_patchfile_name \in Word
      BY DEF TypeOK
    <3>5. port_name' \in Word /\ fw_patchfile_path' \in Word /\ fw_patchfile_name' \in Word
      BY <3>2, <3>3, <3>4, AfterWord DEF userial_set_port, hw_set_patch_file
    <3> QED
      BY <3>5
  <2> QED
    BY <1>1, <2>5, <2>6, <2>7 DEF vnd_load_conf, TypeOK, findVars, waitVars
<1>2. CASE ReadLocalName
  <2>1. local_chip_name' \in Name /\ target' \in Name
    BY <1>0, <1>2, ChipNames DEF ReadLocalName
  <2> QED
    BY <1>2, <2>1 DEF ReadLocalName, TypeOK, confVars, waitVars
<1>3. CASE FindPatch
  <2>1. pc' \in {"found", "scan", "none"} /\ entry' \in {1, entry} /\ UNCHANGED target
    BY Zenon, <1>3 DEF FindPatch
  <2>2. UNCHANGED <<site, todo, local_chip_name, idle_timeout, confVars, waitVars>>
    BY <1>3 DEF FindPatch, Elsewhere
  <2>3. patch' \in {patch} \/ \E f : patch' = <<fw_patchfile_path, f>>
    BY <1>3 DEF FindPatch
  <2>4. patch' # NoPatch => Len(patch') = 2 /\ patch'[1] \in Word
    BY <2>3 DEF TypeOK
  <2> QED
    BY <2>1, <2>2, <2>4 DEF TypeOK, confVars, waitVars
<1>4. CASE ReadEntry
  BY <1>4 DEF ReadEntry, Elsewhere, TypeOK, confVars, waitVars
<1>5. CASE EndOfDir
  BY <1>5 DEF EndOfDir, Elsewhere, TypeOK, confVars, waitVars, findVars
<1>6. CASE Shorten
  <2>1. Cuts(target) # {} => LastCut(target) \in 4..Len(target)
    BY LastCutIs DEF TypeOK
  <2>2. Cuts(target) # {} => SubSeq(target, 1, LastCut(target) - 1) \in Name
    BY <2>1 DEF TypeOK, Name
  <2> QED
    BY <1>6, <2>2 DEF Shorten, Elsewhere, TypeOK, confVars, waitVars
<1>7. CASE Downloaded
  BY <1>7, <1>0, DelayNat DEF Downloaded, TypeOK, confVars, findVars
<1>8. CASE ms_delay
  <2>1. PICK left \in {r \in 0..remaining : r % Grain = 0} :
          /\ slept' = slept + remaining - left /\ remaining' = left
          /\ pc' = IF left = 0 THEN "ready" ELSE pc
    BY <1>8 DEF ms_delay
  <2>2. left \in 0..remaining
    OBVIOUS
  <2>3. slept' \in Nat /\ remaining' \in Nat
    BY <2>1, <2>2 DEF TypeOK
  <2> QED
    BY <1>8, <2>1, <2>3 DEF ms_delay, TypeOK, confVars, findVars
<1>9. CASE hw_lpm_get_idle_timeout
  BY <1>9, LongestUnit DEF hw_lpm_get_idle_timeout, TypeOK, confVars, findVars, waitVars
<1>10. CASE UNCHANGED vars
  BY <1>10 DEF TypeOK, vars, confVars, findVars, waitVars
<1> QED
  BY <1>1, <1>2, <1>3, <1>4, <1>5, <1>6, <1>7, <1>8, <1>9, <1>10
     DEF Next, Step, hw_config_findpatch

\* Type correctness: however the file is cut into chunks, the settings are
\* words of it, and however the search goes, what is left of the chip's name is
\* a name and a patch has a directory.
THEOREM TypeCorrect == Spec => []TypeOK
<1> QED
  BY InitTypes, TypeStep, PTL DEF Spec

-----------------------------------------------------------------------------
(***************************************************************************)
(* Progress.                                                               *)
(***************************************************************************)

\* The file, the search, the download, the delay, and the end.
Phase == CASE pc = "conf"                       -> 4
           [] pc \in {"find", "scan", "shorten"} -> 3
           [] pc = "found"                      -> 2
           [] pc = "settle"                     -> 1
           [] OTHER                             -> 0

\* The three steps of the search for one name.
Turn == CASE pc = "find" -> 2 [] pc = "scan" -> 1 [] OTHER -> 0

\* Less of the file is left, or of its first line.
ReadsOn == /\ pc = "conf" /\ pc' = "conf"
           /\ \/ Len(todo') < Len(todo)
              \/ /\ Len(todo') = Len(todo)
                 /\ Len(Head(todo')) < Len(Head(todo))

\* The name is shorter; or it is the same, and the search for it is further on,
\* in the directory or behind it.
SearchesOn ==
  /\ Phase = 3 /\ Phase' = 3
  /\ \/ Len(target') < Len(target)
     \/ target' = target /\ Turn' < Turn
     \/ /\ target' = target /\ Turn' = Turn
        /\ entry < entry' /\ entry <= Len(Listing)

SleepsOn == pc = "settle" /\ pc' = "settle" /\ remaining' < remaining

Closer == Phase' < Phase \/ ReadsOn \/ SearchesOn \/ SleepsOn

\* nanosleep was interrupted before it slept.
NoSleep == pc = "settle" /\ pc' = "settle" /\ remaining' = remaining

LEMMA StepCloser == TypeOK /\ Step => Closer \/ NoSleep
<1> SUFFICES ASSUME TypeOK, Step PROVE Closer \/ NoSleep
  OBVIOUS
<1>1. CASE vnd_load_conf
  <2> DEFINE line == Head(todo)
             rest == Tail(todo)
  <2>1. pc = "conf" /\ pc' = "conf" /\ todo # <<>> /\ todo \in Seq(Line)
    BY <1>1 DEF vnd_load_conf, TypeOK
  <2>2. /\ line \in Seq(Chunk) /\ line # <<>> /\ rest \in Seq(Line)
        /\ Len(todo) = Len(rest) + 1
    BY <2>1 DEF Line
  <2>3. todo' = IF Len(line) > 1 THEN <<Tail(line)>> \o rest ELSE rest
    BY <1>1 DEF vnd_load_conf
  <2> HIDE DEF line, rest
  <2>4. CASE Len(line) > 1
    <3>1. todo' = <<Tail(line)>> \o rest
      BY <2>3, <2>4
    <3>2. Len(todo') = Len(todo) /\ Head(todo') = Tail(line)
      BY <2>2, <3>1
    <3>3. Len(Tail(line)) < Len(line)
      BY <2>2
    <3> QED
      BY <2>1, <3>2, <3>3 DEF ReadsOn, Closer, line
  <2>5. CASE ~(Len(line) > 1)
    <3>1. Len(todo') < Len(todo)
      BY <2>2, <2>3, <2>5
    <3> QED
      BY <2>1, <3>1 DEF ReadsOn, Closer
  <2> QED
    BY <2>4, <2>5
<1>2. CASE ReadLocalName
  BY <1>2 DEF ReadLocalName, Phase, Closer
<1>3. CASE FindPatch
  <2>1. pc = "find" /\ target' = target /\ pc' \in {"found", "scan", "none"}
    BY <1>3 DEF FindPatch
  <2>2. CASE pc' = "scan"
    BY <2>1, <2>2 DEF Phase, Turn, SearchesOn, Closer
  <2>3. CASE pc' # "scan"
    BY <2>1, <2>3 DEF Phase, Closer
  <2> QED
    BY <2>2, <2>3
<1>4. CASE ReadEntry
  <2>1. entry \in Nat
    BY DEF TypeOK
  <2> QED
    BY <1>4, <2>1 DEF ReadEntry, Phase, Turn, SearchesOn, Closer
<1>5. CASE EndOfDir
  BY <1>5 DEF EndOfDir, findVars, Phase, Turn, SearchesOn, Closer
<1>6. CASE Shorten
  <2>1. CASE Cuts(target) = {}
    BY <1>6, <2>1 DEF Shorten, Phase, Closer
  <2>2. CASE Cuts(target) # {}
    <3>1. LastCut(target) \in 4..Len(target) /\ Len(target) \in Nat
      BY <2>2, LastCutIs DEF TypeOK, Name
    <3>2. target' = SubSeq(target, 1, LastCut(target) - 1) /\ pc' = "find"
      BY <1>6, <2>2 DEF Shorten
    <3>3. Len(target') < Len(target)
      BY <3>1, <3>2 DEF TypeOK, Name
    <3> QED
      BY <1>6, <3>2, <3>3 DEF Shorten, Phase, SearchesOn, Closer
  <2> QED
    BY <2>1, <2>2
<1>7. CASE Downloaded
  BY <1>7 DEF Downloaded, Phase, Closer
<1>8. CASE ms_delay
  <2>1. PICK left \in {r \in 0..remaining : r % Grain = 0} :
          remaining' = left /\ pc' = IF left = 0 THEN "ready" ELSE pc
    BY <1>8 DEF ms_delay
  <2>2. pc = "settle" /\ remaining \in Nat /\ left \in 0..remaining
    BY <1>8, <2>1 DEF ms_delay, TypeOK
  <2>3. CASE left = 0
    BY <2>1, <2>2, <2>3 DEF Phase, Closer
  <2>4. CASE left # 0
    BY <2>1, <2>2, <2>4 DEF SleepsOn, NoSleep, Closer
  <2> QED
    BY <2>3, <2>4
<1> QED
  BY <1>1, <1>2, <1>3, <1>4, <1>5, <1>6, <1>7, <1>8 DEF Step, hw_config_findpatch

\* Reading, searching and waiting make headway at every step, for any file,
\* directory and name: each line is read once, the recursion of
\* hw_config_findpatch (510-534) shortens the name or gives up, and what is
\* left to sleep never grows (343-345).  Only a signal that arrives before
\* nanosleep has slept at all leaves things as they were.
THEOREM StepsAdvance == Spec => [][Step => Closer \/ NoSleep]_vars
<1>1. TypeOK /\ [Next]_vars => [Step => Closer \/ NoSleep]_vars
  BY StepCloser
<1> QED
  BY <1>1, TypeCorrect, PTL DEF Spec
-----------------------------------------------------------------------------
(***************************************************************************)
(* The idle timeout.                                                       *)
(***************************************************************************)

\* The name is what was kept of the controller's, or not yet known; and the
\* timeout is that of one of the two.
EarlyInv ==
  /\ pc # "conf" => local_chip_name = ChipName(site)
  /\ local_chip_name \in {<<>>, ChipName(site)}
  /\ idle_timeout \in {0, IdleTimeout(<<>>), IdleTimeout(ChipName(site))}

LEMMA EarlyStep == TypeOK /\ EarlyInv /\ [Next]_vars => EarlyInv'
<1> SUFFICES ASSUME TypeOK, EarlyInv, [Next]_vars PROVE EarlyInv'
  OBVIOUS
<1>1. CASE ReadLocalName
  BY <1>1 DEF ReadLocalName, EarlyInv
<1>2. CASE hw_lpm_get_idle_timeout
  <2>1. UNCHANGED <<site, pc, local_chip_name>>
    BY <1>2 DEF hw_lpm_get_idle_timeout
  <2>2. idle_timeout' = IdleTimeout(local_chip_name)
    BY <1>2 DEF hw_lpm_get_idle_timeout
  <2> QED
    BY <2>1, <2>2 DEF EarlyInv
<1>3. CASE vnd_load_conf \/ UNCHANGED vars
  <2>1. UNCHANGED <<site, pc, local_chip_name, idle_timeout>>
    BY <1>3 DEF vnd_load_conf, vars
  <2> QED
    BY <2>1 DEF EarlyInv
<1>4. CASE hw_config_findpatch \/ Downloaded \/ ms_delay
  <2>1. pc # "conf" /\ UNCHANGED <<site, local_chip_name, idle_timeout>>
    BY Zenon, <1>4 DEF hw_config_findpatch, FindPatch, ReadEntry, EndOfDir, Shorten,
       Elsewhere, Downloaded, ms_delay
  <2> QED
    BY <2>1 DEF EarlyInv
<1> QED
  BY <1>1, <1>2, <1>3, <1>4 DEF Next, Step

\* A host that keeps an answer it got before the chip's name was known does
\* not let the chip sleep too soon (hardware.c 1239-1246).
THEOREM EarlyCorrect == Spec => []EarlyAnswerSafe
<1>1. Init => EarlyInv
  BY DEF Init, EarlyInv
<1>2. EarlyInv => EarlyAnswerSafe
  <2>1. /\ IdleTimeout(<<>>) \in Nat /\ IdleTimeout(ChipName(site)) \in Nat
        /\ IdleTimeout(ChipName(site)) <= IdleTimeout(<<>>)
    BY LongestUnit
  <2> QED
    BY <2>1 DEF EarlyInv, EarlyAnswerSafe
<1> QED
  BY <1>1, <1>2, EarlyStep, TypeCorrect, PTL DEF Spec

-----------------------------------------------------------------------------
(***************************************************************************)
(* The settlement delay.                                                   *)
(***************************************************************************)

\* Where a word starts, letter by letter.
LEMMA StartsAt ==
  ASSUME NEW s, NEW w, s \in Name, w \in Name, NEW i \in Nat \ {0}
  PROVE  i \in Starts(s, w) <=> /\ i + Len(w) - 1 <= Len(s)
                                /\ \A j \in 1..Len(w) : s[i + j - 1] = w[j]
<1> DEFINE t == SubSeq(s, i, i + Len(w) - 1)
<1>1. Len(s) \in Nat /\ Len(w) \in Nat
  BY DEF Name
<1>2. ASSUME i + Len(w) - 1 <= Len(s)
      PROVE  /\ t \in Name /\ Len(t) = Len(w)
             /\ \A j \in 1..Len(w) : t[j] = s[i + j - 1]
  BY <1>1, <1>2 DEF Name
<1>3. ASSUME i + Len(w) - 1 <= Len(s)
      PROVE  t = w <=> \A j \in 1..Len(w) : s[i + j - 1] = w[j]
  <2>1. ASSUME \A j \in 1..Len(w) : s[i + j - 1] = w[j] PROVE t = w
    <3>1. t \in Name /\ Len(t) = Len(w) /\ \A j \in 1..Len(w) : t[j] = w[j]
      BY <1>2, <1>3, <2>1
    <3> HIDE DEF t
    <3> QED
      BY <3>1 DEF Name
  <2>2. ASSUME t = w PROVE \A j \in 1..Len(w) : s[i + j - 1] = w[j]
    BY <1>2, <1>3, <2>2
  <2> QED
    BY <2>1, <2>2
<1>4. i \in Starts(s, w) <=> i + Len(w) - 1 <= Len(s) /\ t = w
  BY <1>1 DEF Starts
<1> QED
  BY <1>3, <1>4

\* The characters that are kept contain BCM43241 where it is named in time.
LEMMA ChipNameKeeps ==
  ASSUME NEW site0, SiteAssumed(site0), NamedInTime(site0)
  PROVE  Contains(ChipName(site0), BCM43241)
<1> DEFINE s == site0.local
<1>0. s \in Name
  BY DEF SiteAssumed
<1> HIDE DEF s
<1>1. PICK k : k \in Starts(s, BCM43241)
               /\ \A j \in Starts(s, BCM) : k + 8 <= j + 31
  BY WordNames DEF NamedInTime, LOCAL_NAME_BUFFER_LEN, s
<1>2. Len(s) \in Nat /\ k \in Nat \ {0}
  BY <1>1, WordNames DEF Starts, Name
<1>3. k + 7 <= Len(s) /\ \A j \in 1..8 : s[k + j - 1] = BCM43241[j]
  <2>1. /\ k + Len(BCM43241) - 1 <= Len(s)
        /\ \A j \in 1..Len(BCM43241) : s[k + j - 1] = BCM43241[j]
    <3>1. s \in Name /\ BCM43241 \in Name /\ k \in Nat \ {0}
      BY <1>0, <1>2, WordNames
    <3> QED
      BY <1>1, <3>1, StartsAt
  <2> QED
    BY <1>2, <2>1, WordNames
<1>l. k + 7 <= Len(s)
  BY <1>3
<1>4. \A j \in 1..3 : BCM43241[j] = BCM[j]
  BY DEF BCM43241, BCM
<1>5. k \in Starts(s, BCM)
  <2>1. \A j \in 1..3 : s[k + j - 1] = BCM[j]
    BY <1>3, <1>4
  <2>2. k + Len(BCM) - 1 <= Len(s) /\ \A j \in 1..Len(BCM) : s[k + j - 1] = BCM[j]
    BY <1>2, <1>l, <2>1, WordNames
  <2> QED
    BY <1>0, <1>2, <2>2, StartsAt, WordNames
<1>6. Contains(s, BCM)
  BY <1>5 DEF Contains
<1>7. PICK i \in Starts(s, BCM) : i <= k /\ From(s, BCM) = SubSeq(s, i, Len(s))
  BY <1>0, <1>5, <1>6, FromFirst, WordNames
<1>8. i \in Nat \ {0} /\ k + 8 <= i + 31
  BY <1>1, <1>2, <1>7, WordNames DEF Starts
<1> DEFINE f == SubSeq(s, i, Len(s))
           m == IF Len(f) < 31 THEN Len(f) ELSE 31
           t == SubSeq(f, 1, m)
           n == k - i + 1
<1>9. /\ f \in Name /\ Len(f) = Len(s) - i + 1
      /\ \A j \in 1..Len(s) - i + 1 : f[j] = s[i + j - 1]
  <2>1. i <= k
    BY <1>7
  <2> QED
    BY <1>0, <1>2, <1>l, <1>8, <2>1 DEF Name
<1>10. n \in Nat \ {0} /\ n + 7 <= Len(f) /\ n + 7 <= 31
  <2>1. i <= k /\ Len(f) = Len(s) - i + 1
    BY <1>7, <1>9
  <2> QED
    BY <1>2, <1>l, <1>8, <2>1
<1>m. n + 7 <= m /\ m \in 0..Len(f) /\ Len(f) \in Nat
  <2>1. Len(f) \in Nat
    BY <1>9 DEF Name
  <2> HIDE DEF f, n
  <2> QED
    BY <1>10, <2>1
<1>t. t \in Name /\ Len(t) = m /\ \A j \in 1..m : t[j] = f[j]
  <2> HIDE DEF f, m
  <2> QED
    BY <1>9, <1>m DEF Name
<1>11. ASSUME NEW j \in 1..8 PROVE t[n + j - 1] = BCM43241[j]
  <2>1. n + j - 1 \in 1..Len(s) - i + 1 /\ i + (n + j - 1) - 1 = k + j - 1
    <3>1. i <= k
      BY <1>7
    <3> QED
      BY <1>2, <1>l, <1>8, <3>1
  <2>2. f[n + j - 1] = s[i + (n + j - 1) - 1]
    <3> HIDE DEF f, n
    <3> QED
      BY <1>9, <2>1
  <2>3. s[k + j - 1] = BCM43241[j]
    BY <1>3
  <2> HIDE DEF t, n, f, m
  <2>4. n + j - 1 \in 1..m
    BY <1>10, <1>m
  <2> QED
    BY <1>t, <2>1, <2>2, <2>3, <2>4
<1>12. n \in Starts(t, BCM43241)
  <2> HIDE DEF t, n, f, m
  <2>1. /\ n + Len(BCM43241) - 1 <= Len(t)
        /\ \A j \in 1..Len(BCM43241) : t[n + j - 1] = BCM43241[j]
    BY <1>10, <1>11, <1>m, <1>t, WordNames
  <2> QED
    BY <1>10, <1>t, <2>1, StartsAt, WordNames
<1>13. ChipName(site0) = t
  <2>1. Kept(From(s, BCM), 31) = t
    BY <1>7 DEF Kept
  <2>2. LOCAL_NAME_BUFFER_LEN - 1 = 31
    BY DEF LOCAL_NAME_BUFFER_LEN
  <2>3. ChipName(site0) = Kept(From(s, BCM), LOCAL_NAME_BUFFER_LEN - 1)
    BY <1>6 DEF ChipName, Only4343, s
  <2> QED
    BY Zenon, <2>1, <2>2, <2>3
<1> QED
  <2> HIDE DEF t
  <2> QED
    BY <1>12, <1>13 DEF Contains

\* The chip that needs 200 ms is recognised in the remembered name, and what
\* was slept and is still to be slept make up its delay.
Needs200 ==
  NamedInTime(site) /\ site.delay = 0 /\ fw_patch_settlement_delay < 0

SettleInv ==
  /\ pc \notin {"settle", "ready"} => slept = 0
  /\ pc # "conf" /\ NamedInTime(site) => Contains(local_chip_name, BCM43241)
  /\ pc \in {"settle", "ready"} /\ Needs200 => slept + remaining >= 200
  /\ pc = "ready" => remaining = 0

LEMMA SettleStep == TypeOK /\ SettleInv /\ [Next]_vars => SettleInv'
<1> SUFFICES ASSUME TypeOK, SettleInv, [Next]_vars PROVE SettleInv'
  OBVIOUS
<1>0. SiteAssumed(site)
  BY SitesAssumption DEF TypeOK
<1>1. CASE ReadLocalName
  <2>1. /\ pc = "conf" /\ pc' = "find" /\ UNCHANGED <<site, slept>>
    BY <1>1 DEF ReadLocalName, waitVars
  <2>2. ASSUME NamedInTime(site) PROVE Contains(local_chip_name', BCM43241)
    <3>1. local_chip_name' = ChipName(site)
      BY <1>1 DEF ReadLocalName
    <3> QED
      BY <1>0, <2>2, <3>1, ChipNameKeeps
  <2> QED
    BY <2>1, <2>2 DEF SettleInv
<1>2. CASE vnd_load_conf
  <2>1. pc = "conf" /\ pc' = "conf" /\ UNCHANGED slept
    BY <1>2 DEF vnd_load_conf, waitVars
  <2> QED
    BY <2>1 DEF SettleInv
<1>3. CASE hw_config_findpatch
  <2>1. /\ pc \in {"find", "scan", "shorten"}
        /\ pc' \in {"find", "scan", "shorten", "found", "none"}
        /\ UNCHANGED <<site, local_chip_name, slept>>
    BY Zenon, <1>3 DEF hw_config_findpatch, FindPatch, ReadEntry, EndOfDir, Shorten,
       Elsewhere, waitVars
  <2> QED
    BY <2>1 DEF SettleInv
<1>4. CASE Downloaded
  <2>0. UNCHANGED <<site, local_chip_name, slept, fw_patch_settlement_delay>>
    BY <1>4 DEF Downloaded, confVars
  <2>1. /\ pc = "found"
        /\ \/ pc' = "none"
           \/ pc' = "settle" /\ remaining' = look_up_fw_settlement_delay
    BY Zenon, <1>4 DEF Downloaded
  <2>2. ASSUME Needs200 PROVE look_up_fw_settlement_delay = 200
    <3> DEFINE chips == {i \in 1..2 : Contains(local_chip_name, fw_settlement_table[i].chip)}
    <3>1. 1 \in chips
      BY <2>1, <2>2 DEF SettleInv, Needs200, fw_settlement_table
    <3>2. ASSUME NEW i \in chips, \A j \in chips : i <= j PROVE i = 1
      BY <3>1, <3>2
    <3>3. (CHOOSE i \in chips : \A j \in chips : i <= j) = 1
      BY <3>1, <3>2
    <3>4. fw_settlement_table[1].ms = 200
      BY DEF fw_settlement_table
    <3>5. Recommended = 200
      BY <3>1, <3>3, <3>4 DEF Recommended
    <3>6. ~(site.delay > 0) /\ ~(site.delay = 0 /\ site.tuning /\ fw_patch_settlement_delay >= 0)
      BY <2>2 DEF Needs200, TypeOK
    <3> QED
      BY Zenon, <3>5, <3>6 DEF look_up_fw_settlement_delay
  <2>3. Needs200' <=> Needs200
    BY <2>0 DEF Needs200
  <2> QED
    BY <2>0, <2>1, <2>2, <2>3 DEF SettleInv
<1>5. CASE ms_delay
  <2>1. PICK left \in {r \in 0..remaining : r % Grain = 0} :
          /\ slept' = slept + remaining - left /\ remaining' = left
          /\ pc' = IF left = 0 THEN "ready" ELSE pc
    BY <1>5 DEF ms_delay
  <2>2. slept' + remaining' = slept + remaining /\ (pc' = "ready" => remaining' = 0)
    <3>1. pc = "settle"
      BY <1>5 DEF ms_delay
    <3> QED
      BY <2>1, <3>1 DEF TypeOK
  <2>3. pc = "settle" /\ pc' \in {"settle", "ready"} /\ UNCHANGED <<local_chip_name, site>>
    BY Zenon, <1>5 DEF ms_delay
  <2>4. UNCHANGED fw_patch_settlement_delay
    BY <1>5 DEF ms_delay, confVars
  <2> QED
    BY <2>2, <2>3, <2>4 DEF SettleInv, Needs200
<1>6. CASE hw_lpm_get_idle_timeout \/ UNCHANGED vars
  <2>1. UNCHANGED <<site, pc, local_chip_name, slept, remaining, fw_patch_settlement_delay>>
    BY <1>6 DEF hw_lpm_get_idle_timeout, vars, confVars, waitVars
  <2> QED
    BY <2>1 DEF SettleInv, Needs200
<1> QED
  BY <1>1, <1>2, <1>3, <1>4, <1>5, <1>6 DEF Next, Step

\* A BCM43241 that is named in the characters that are kept of the controller's
\* name (hardware.c 678-699) is given 200 ms before the next command, whatever
\* surrounds its name and however often the sleep is interrupted (302-345).
THEOREM SettledCorrect == Spec => []SettledInTime
<1>1. Init => SettleInv
  BY DEF Init, SettleInv
<1>2. TypeOK /\ SettleInv => SettledInTime
  BY DEF SettleInv, Needs200, SettledInTime, TypeOK
<1> QED
  BY <1>1, <1>2, SettleStep, TypeCorrect, PTL DEF Spec

-----------------------------------------------------------------------------
(***************************************************************************)
(* The search.                                                             *)
(***************************************************************************)

\* The name the search starts with, its first n letters, and the lengths it
\* is cut to.
Full    == SearchName(site)
Pre(n)  == SubSeq(Full, 1, n)
Lengths == {Len(Full)} \cup {k - 1 : k \in Cuts(Full)}

LEMMA PrefixIs ==
  ASSUME NEW s, s \in Name, NEW n \in 0..Len(s)
  PROVE  /\ SubSeq(s, 1, n) \in Name /\ Len(SubSeq(s, 1, n)) = n
         /\ \A i \in 1..n : SubSeq(s, 1, n)[i] = s[i]
         /\ Cuts(SubSeq(s, 1, n)) = {k \in Cuts(s) : k <= n}
<1> DEFINE t == SubSeq(s, 1, n)
<1>1. t \in Name /\ Len(t) = n /\ \A i \in 1..n : t[i] = s[i]
  BY DEF Name
<1>2. Len(s) \in Nat /\ n \in Nat /\ n <= Len(s)
  BY DEF Name
<1>3. Cuts(t) = {k \in Cuts(s) : k <= n}
  <2> HIDE DEF t
  <2>1. ASSUME NEW k \in Cuts(t) PROVE k \in Cuts(s) /\ k <= n
    BY <1>1, <1>2 DEF Cuts
  <2>2. ASSUME NEW k \in Cuts(s), k <= n PROVE k \in Cuts(t)
    BY <1>1, <1>2, <2>2 DEF Cuts
  <2> QED
    BY <2>1, <2>2
<1> QED
  BY <1>1, <1>3

\* The whole name is its own prefix, and a prefix of a prefix is a prefix.
LEMMA WholePrefix == ASSUME NEW s, s \in Name PROVE SubSeq(s, 1, Len(s)) = s
  BY DEF Name

LEMMA PrefixOfPrefix ==
  ASSUME NEW s, s \in Name, NEW n \in 0..Len(s), NEW m \in 0..n
  PROVE  SubSeq(SubSeq(s, 1, n), 1, m) = SubSeq(s, 1, m)
<1> DEFINE t == SubSeq(s, 1, n)
           u == SubSeq(t, 1, m)
           v == SubSeq(s, 1, m)
<1>0. Len(s) \in Nat /\ n \in Nat /\ m \in Nat /\ m <= n /\ n <= Len(s)
  BY DEF Name
<1>1. t \in Name /\ Len(t) = n /\ \A i \in 1..n : t[i] = s[i]
  BY PrefixIs
<1>2. v \in Name /\ Len(v) = m /\ \A i \in 1..m : v[i] = s[i]
  BY <1>0, PrefixIs
<1>3. u \in Name /\ Len(u) = m /\ \A i \in 1..m : u[i] = t[i]
  <2> HIDE DEF t
  <2>1. m \in 0..Len(t)
    BY <1>0, <1>1
  <2> QED
    BY <1>1, <2>1, PrefixIs
<1>4. \A i \in 1..m : u[i] = v[i]
  <2> HIDE DEF t, u, v
  <2> QED
    BY <1>0, <1>1, <1>2, <1>3
<1> HIDE DEF t, u, v
<1>5. u = v
  BY <1>2, <1>3, <1>4 DEF Name
<1> QED
  BY <1>5 DEF t, u, v

\* The lengths lie in 0..Len(Full), and the names tried are the prefixes of
\* these lengths.
LEMMA LengthsAre ==
  ASSUME Full \in Name
  PROVE  /\ Lengths \subseteq 0..Len(Full)
         /\ \A n \in Lengths : Pre(n) \in Tried /\ Len(Pre(n)) = n
         /\ \A name \in Tried : \E n \in Lengths : name = Pre(n)
<1>1. Len(Full) \in Nat /\ Cuts(Full) \subseteq 4..Len(Full)
  BY DEF Cuts, Name
<1>2. Lengths \subseteq 0..Len(Full)
  BY <1>1 DEF Lengths
<1>3. Pre(Len(Full)) = Full
  BY WholePrefix DEF Pre
<1>4. Tried = {Full} \cup {Pre(k - 1) : k \in Cuts(Full)}
  BY DEF Tried, Full, Pre
<1>5. ASSUME NEW n \in Lengths PROVE Pre(n) \in Tried /\ Len(Pre(n)) = n
  <2>1. Len(Pre(n)) = n
    BY <1>2, PrefixIs DEF Pre
  <2>2. CASE n = Len(Full)
    BY <1>3, <1>4, <2>1, <2>2
  <2>3. CASE \E k \in Cuts(Full) : n = k - 1
    BY <1>4, <2>1, <2>3
  <2> QED
    BY <2>2, <2>3 DEF Lengths
<1>6. ASSUME NEW name \in Tried PROVE \E n \in Lengths : name = Pre(n)
  <2>1. CASE name = Full
    BY <1>3, <2>1 DEF Lengths
  <2>2. CASE \E k \in Cuts(Full) : name = Pre(k - 1)
    BY <2>2 DEF Lengths
  <2> QED
    BY <1>4, <2>1, <2>2
<1> QED
  BY <1>2, <1>5, <1>6

\* There is something to search: no name from the configuration file, and a
\* directory that can be opened.
Applies == fw_patchfile_name = "" /\ fw_patchfile_path \in DOMAIN site.dirs

\* The search is at length n, and no longer name has a file.
SearchingAt(n) ==
  /\ n \in Lengths /\ target = Pre(n)
  /\ \A m \in Lengths : m > n => Taken(Pre(m)) = {}

\* The outcome.
Found(n) ==
  /\ n \in Lengths /\ patch \in {<<fw_patchfile_path, f>> : f \in Taken(Pre(n))}
  /\ \A m \in Lengths : m > n => Taken(Pre(m)) = {}
NoneFound == patch = NoPatch /\ \A n \in Lengths : Taken(Pre(n)) = {}

SearchInv ==
  /\ pc = "conf" => patch = NoPatch
  /\ pc \in {"find", "scan", "shorten"} =>
       patch = NoPatch /\ (Applies => \E n \in Lengths : SearchingAt(n))
  /\ pc = "scan" => Applies /\ \A i \in 1..(entry - 1) : ~Matches(Listing[i], target)
  /\ pc = "shorten" => Applies /\ Taken(target) = {}
  /\ pc \in {"found", "none", "settle", "ready"} /\ Applies =>
       NoneFound \/ \E n \in Lengths : Found(n)

LEMMA FullName == ASSUME TypeOK PROVE Full \in Name
  BY SitesAssumption, ChipNames DEF TypeOK, Full

\* The inductive invariant says what the property does.
LEMMA SearchSays == TypeOK /\ SearchInv => SearchIsBestFit
<1> SUFFICES ASSUME TypeOK, SearchInv, Applies, pc \in {"found", "none", "settle", "ready"}
             PROVE \/ patch = NoPatch /\ \A name \in Tried : Taken(name) = {}
                   \/ \E name \in Tried :
                        /\ patch \in {<<fw_patchfile_path, f>> : f \in Taken(name)}
                        /\ \A other \in Tried : Taken(other) # {} => Len(other) <= Len(name)
  BY Zenon DEF SearchIsBestFit, Applies
<1>1. Full \in Name
  BY FullName
<1>2. CASE NoneFound
  BY <1>1, <1>2, LengthsAre DEF NoneFound
<1>3. ASSUME NEW n \in Lengths, Found(n)
      PROVE \E name \in Tried :
              /\ patch \in {<<fw_patchfile_path, f>> : f \in Taken(name)}
              /\ \A other \in Tried : Taken(other) # {} => Len(other) <= Len(name)
  <2>1. Pre(n) \in Tried /\ Len(Pre(n)) = n
    BY <1>1, LengthsAre
  <2>2. patch \in {<<fw_patchfile_path, f>> : f \in Taken(Pre(n))}
    BY <1>3 DEF Found
  <2>3. ASSUME NEW other \in Tried, Taken(other) # {} PROVE Len(other) <= n
    <3>1. PICK m \in Lengths : other = Pre(m)
      BY <1>1, LengthsAre
    <3>2. Len(other) = m /\ m \in 0..Len(Full) /\ n \in 0..Len(Full)
      BY <1>1, <3>1, LengthsAre
    <3>3. ~(m > n)
      BY <1>3, <2>3, <3>1 DEF Found
    <3>4. Len(Full) \in Nat
      BY <1>1 DEF Name
    <3> QED
      BY <3>2, <3>3, <3>4
  <2> QED
    BY Zenon, <2>1, <2>2, <2>3
<1> QED
  BY Zenon, <1>2, <1>3 DEF SearchInv

\* What the search is about does not change while the names stay.
LEMMA SearchFrame ==
  ASSUME UNCHANGED <<site, fw_patchfile_path, fw_patchfile_name>>
  PROVE  /\ Full' = Full /\ Lengths' = Lengths /\ (Applies' <=> Applies)
         /\ Listing' = Listing
         /\ \A n : Pre(n)' = Pre(n) /\ Taken(Pre(n))' = Taken(Pre(n))
<1>1. Full' = Full /\ Listing' = Listing
  BY DEF Full, Listing
<1>2. Lengths' = Lengths
  BY <1>1 DEF Lengths, Cuts
<1>3. Applies' <=> Applies
  BY DEF Applies
<1>4. ASSUME NEW n PROVE Pre(n)' = Pre(n)
  BY <1>1 DEF Pre
<1>5. ASSUME NEW n PROVE Taken(Pre(n))' = Taken(Pre(n))
  BY <1>1, <1>4 DEF Taken, Hits, Matches
<1> QED
  BY <1>1, <1>2, <1>3, <1>4, <1>5

\* When no cut is left, no name had a file.
LEMMA NoCutLeft ==
  ASSUME TypeOK, NEW n \in Lengths, SearchingAt(n), Taken(target) = {}, Cuts(target) = {}
  PROVE  \A m \in Lengths : Taken(Pre(m)) = {}
<1>1. Full \in Name /\ Len(Full) \in Nat
  BY FullName DEF Name
<1>2. n \in 0..Len(Full) /\ Lengths \subseteq 0..Len(Full)
  BY <1>1, LengthsAre
<1>3. Cuts(target) = {k \in Cuts(Full) : k <= n}
  BY <1>1, <1>2, PrefixIs DEF SearchingAt, Pre
<1>4. ASSUME NEW m \in Lengths PROVE m >= n
  <2>1. CASE m = Len(Full)
    BY <1>1, <1>2, <2>1
  <2>2. ASSUME NEW k \in Cuts(Full), m = k - 1 PROVE m >= n
    <3>1. ~(k <= n)
      BY <1>3, <2>2
    <3>2. k \in Nat
      BY DEF Cuts, Name
    <3> QED
      BY <1>2, <2>2, <3>1, <3>2
  <2> QED
    BY <2>1, <2>2 DEF Lengths
<1>5. ASSUME NEW m \in Lengths PROVE Taken(Pre(m)) = {}
  <2>1. m = n \/ m > n
    BY <1>2, <1>4
  <2> QED
    BY <2>1 DEF SearchingAt
<1> QED
  BY <1>5

\* The next name tried is the next shorter one.
LEMMA NextCut ==
  ASSUME TypeOK, NEW n \in Lengths, SearchingAt(n), Taken(target) = {}, Cuts(target) # {}
  PROVE  /\ LastCut(target) - 1 \in Lengths
         /\ SubSeq(target, 1, LastCut(target) - 1) = Pre(LastCut(target) - 1)
         /\ \A m \in Lengths : m > LastCut(target) - 1 => Taken(Pre(m)) = {}
<1> DEFINE c == LastCut(target)
<1>1. Full \in Name /\ Len(Full) \in Nat
  BY FullName DEF Name
<1>2. n \in 0..Len(Full) /\ Lengths \subseteq 0..Len(Full)
  BY <1>1, LengthsAre
<1>3. Cuts(target) = {k \in Cuts(Full) : k <= n}
  BY <1>1, <1>2, PrefixIs DEF SearchingAt, Pre
<1>4. c \in Cuts(target) /\ \A j \in Cuts(target) : j <= c
  BY LastCutIs DEF TypeOK
<1>5. c \in Cuts(Full) /\ c <= n /\ c \in Nat \ {0}
  <2>1. c \in Cuts(Full) /\ c <= n
    BY <1>3, <1>4
  <2> QED
    BY <2>1 DEF Cuts, Name
<1> HIDE DEF c
<1>6. c - 1 \in Lengths
  BY <1>5 DEF Lengths
<1>7. SubSeq(target, 1, c - 1) = Pre(c - 1)
  <2>1. c - 1 \in 0..n
    BY <1>2, <1>5
  <2> QED
    BY <1>1, <1>2, <2>1, PrefixOfPrefix DEF SearchingAt, Pre
<1>8. ASSUME NEW m \in Lengths, m > c - 1 PROVE m >= n
  <2>1. CASE m = Len(Full)
    BY <1>1, <1>2, <2>1
  <2>2. ASSUME NEW k \in Cuts(Full), m = k - 1 PROVE m >= n
    <3>1. k \in Nat
      BY DEF Cuts, Name
    <3>2. k > c
      BY <1>5, <1>8, <2>2, <3>1
    <3>3. ~(k <= n)
      <4>1. k \in Cuts(target) => k <= c
        BY <1>4
      <4> QED
        BY <1>3, <1>5, <3>1, <3>2, <4>1
    <3> QED
      BY <1>2, <2>2, <3>1, <3>3
  <2> QED
    BY <2>1, <2>2 DEF Lengths
<1>9. ASSUME NEW m \in Lengths, m > c - 1 PROVE Taken(Pre(m)) = {}
  <2>1. m = n \/ m > n
    BY <1>2, <1>8, <1>9
  <2> QED
    BY <2>1 DEF SearchingAt
<1> QED
  BY <1>6, <1>7, <1>9 DEF c

\* What the first match means for the name.
LEMMA FirstMatch ==
  ASSUME TypeOK, pc = "scan", entry <= Len(Listing), Matches(Listing[entry], target),
         SearchInv
  PROVE  /\ Listing[entry].long => Taken(target) = {}
         /\ ~Listing[entry].long => Listing[entry] \in Taken(target)
<1>1. entry \in Nat \ {0} /\ Len(Listing) \in Nat
  <2>1. fw_patchfile_path \in DOMAIN site.dirs /\ SiteAssumed(site)
    BY SitesAssumption DEF SearchInv, Applies, TypeOK
  <2>2. Listing \in Seq(File)
    BY <2>1 DEF SiteAssumed, Listing
  <2> QED
    BY <2>2 DEF TypeOK
<1>2. entry \in Hits(target)
  BY <1>1 DEF Hits
<1>3. ASSUME NEW j \in Hits(target) PROVE entry <= j
  <2>1. j \in Nat \ {0} /\ Matches(Listing[j], target)
    BY <1>1 DEF Hits
  <2>2. ~(j \in 1..(entry - 1))
    BY <2>1 DEF SearchInv
  <2> QED
    BY <1>1, <2>1, <2>2
<1>4. ASSUME NEW k \in Hits(target), \A j \in Hits(target) : k <= j PROVE k = entry
  <2>1. k <= entry /\ entry <= k /\ k \in Nat
    BY <1>1, <1>2, <1>3, <1>4 DEF Hits
  <2> QED
    BY <1>1, <2>1
<1>5. ASSUME Listing[entry].long PROVE Taken(target) = {}
  BY <1>4, <1>5 DEF Taken
<1>6. ASSUME ~Listing[entry].long PROVE Listing[entry] \in Taken(target)
  BY <1>2, <1>3, <1>6 DEF Taken
<1> QED
  BY <1>5, <1>6

LEMMA SearchStep == TypeOK /\ SearchInv /\ [Next]_vars => SearchInv'
<1> SUFFICES ASSUME TypeOK, SearchInv, [Next]_vars PROVE SearchInv'
  OBVIOUS
<1>0. Full \in Name /\ Full' \in Name
  <2>1. site' \in Sites
    BY TypeStep DEF TypeOK
  <2> QED
    BY <2>1, SitesAssumption, ChipNames, FullName DEF Full
<1>1. CASE vnd_load_conf
  <2>1. pc = "conf" /\ pc' = "conf" /\ UNCHANGED patch
    BY <1>1 DEF vnd_load_conf, findVars
  <2> QED
    BY <2>1 DEF SearchInv
<1>2. CASE ReadLocalName
  <2>1. pc = "conf" /\ pc' = "find" /\ UNCHANGED <<patch, entry>>
    BY <1>2 DEF ReadLocalName
  <2>2. target' = Full'
    BY <1>2 DEF ReadLocalName, Full
  <2>3. SearchingAt(Len(Full))'
    <3>1. Len(Full') \in Lengths' /\ Lengths' \subseteq 0..Len(Full')
      <4>1. Cuts(Full') \subseteq 4..Len(Full') /\ Len(Full') \in Nat
        BY <1>0 DEF Cuts, Name
      <4> QED
        BY <4>1 DEF Lengths
    <3>2. target' = Pre(Len(Full))'
      BY <1>0, <2>2, WholePrefix DEF Pre
    <3>3. ASSUME NEW m \in Lengths' PROVE ~(m > Len(Full'))
      <4>1. Len(Full') \in Nat
        BY <1>0 DEF Name
      <4> QED
        BY <3>1, <4>1
    <3> QED
      BY <3>1, <3>2, <3>3 DEF SearchingAt
  <2>4. (\E n \in Lengths : SearchingAt(n))'
    BY <2>3 DEF SearchingAt
  <2> QED
    BY <2>1, <2>4 DEF SearchInv
<1>3. CASE hw_config_findpatch \/ Downloaded \/ ms_delay \/ hw_lpm_get_idle_timeout
           \/ UNCHANGED vars
  <2>1. UNCHANGED <<site, fw_patchfile_path, fw_patchfile_name>>
    BY Zenon, <1>3 DEF hw_config_findpatch, FindPatch, ReadEntry, EndOfDir, Shorten,
       Elsewhere, Downloaded, ms_delay, hw_lpm_get_idle_timeout, vars, confVars
  <2>2. /\ Lengths' = Lengths /\ (Applies' <=> Applies) /\ Listing' = Listing
        /\ \A n : Pre(n)' = Pre(n) /\ Taken(Pre(n))' = Taken(Pre(n))
    BY <2>1, SearchFrame
  <2>3. ASSUME UNCHANGED target, NEW n, SearchingAt(n) PROVE SearchingAt(n)'
    BY <2>2, <2>3 DEF SearchingAt
  <2>4. ASSUME UNCHANGED target PROVE Taken(target)' = Taken(target)
    BY <2>1, <2>2, <2>4 DEF Taken, Hits, Matches
  <2>5. ASSUME UNCHANGED patch, NoneFound \/ \E n \in Lengths : Found(n)
        PROVE  (NoneFound \/ \E n \in Lengths : Found(n))'
    BY <2>1, <2>2, <2>5 DEF NoneFound, Found
  <2>6. CASE FindPatch
    <3>1. pc = "find" /\ UNCHANGED target
      BY <2>6 DEF FindPatch
    <3>2. \/ ~Applies /\ pc' \in {"found", "none"}
          \/ Applies /\ pc' = "scan" /\ entry' = 1 /\ UNCHANGED patch
      BY Zenon, <2>6 DEF FindPatch, Applies
    <3>3. CASE ~Applies /\ pc' \in {"found", "none"}
      BY <2>2, <3>3 DEF SearchInv
    <3>4. CASE Applies /\ pc' = "scan" /\ entry' = 1 /\ UNCHANGED patch
      <4>1. PICK n \in Lengths : SearchingAt(n)
        BY <3>1, <3>4 DEF SearchInv
      <4>2. SearchingAt(n)' /\ n \in Lengths'
        BY <2>2, <2>3, <3>1, <4>1
      <4>3. patch' = NoPatch
        BY <3>1, <3>4 DEF SearchInv
      <4>4. 1..(entry' - 1) = {}
        BY <3>4
      <4> QED
        BY <2>2, <3>4, <4>2, <4>3, <4>4 DEF SearchInv
    <3> QED
      BY <3>2, <3>3, <3>4
  <2>7. CASE ReadEntry
    <3>1. pc = "scan" /\ entry <= Len(Listing) /\ UNCHANGED target /\ Applies
      BY <2>7 DEF ReadEntry, SearchInv
    <3>2. PICK n \in Lengths : SearchingAt(n)
      BY <3>1 DEF SearchInv
    <3>3. SearchingAt(n)' /\ n \in Lengths' /\ patch = NoPatch
      BY <2>2, <2>3, <3>1, <3>2 DEF SearchInv
    <3>4. CASE ~Matches(Listing[entry], target) /\ pc' = "scan" /\ entry' = entry + 1
               /\ UNCHANGED patch
      <4>1. ASSUME NEW i \in 1..(entry' - 1) PROVE ~Matches(Listing[i], target)
        <5>1. i \in 1..(entry - 1) \/ i = entry
          BY <3>4 DEF TypeOK
        <5> QED
          BY <3>1, <3>4, <5>1 DEF SearchInv
      <4>2. \A i \in 1..(entry' - 1) : ~Matches(Listing'[i], target')
        BY <2>2, <3>1, <4>1
      <4> QED
        BY <2>2, <3>1, <3>3, <3>4, <4>2 DEF SearchInv, Matches
    <3>5. CASE Matches(Listing[entry], target) /\ Listing[entry].long /\ pc' = "shorten"
               /\ UNCHANGED patch
      <4>1. Taken(target) = {}
        BY <3>1, <3>5, FirstMatch
      <4>2. Taken(target)' = {}
        BY <2>4, <3>1, <4>1
      <4> QED
        BY <2>2, <3>1, <3>3, <3>5, <4>2 DEF SearchInv
    <3>6. CASE Matches(Listing[entry], target) /\ ~Listing[entry].long /\ pc' = "found"
               /\ patch' = <<fw_patchfile_path, Listing[entry]>>
      <4>1. Listing[entry] \in Taken(Pre(n))
        BY <3>1, <3>2, <3>6, FirstMatch DEF SearchingAt
      <4>2. Found(n)'
        BY <2>1, <2>2, <3>2, <3>6, <4>1 DEF Found, SearchingAt
      <4> QED
        BY <3>3, <3>6, <4>2 DEF SearchInv
    <3> QED
      BY Zenon, <2>7, <3>1, <3>4, <3>5, <3>6 DEF ReadEntry
  <2>8. CASE EndOfDir
    <3>1. /\ pc = "scan" /\ pc' = "shorten" /\ entry > Len(Listing)
          /\ UNCHANGED <<target, patch>>
      BY <2>8 DEF EndOfDir, findVars
    <3>2. Applies
      BY <3>1 DEF SearchInv
    <3>3. PICK n \in Lengths : SearchingAt(n)
      BY <3>1, <3>2 DEF SearchInv
    <3>4. SearchingAt(n)' /\ n \in Lengths' /\ patch' = NoPatch
      BY <2>2, <2>3, <3>1, <3>3 DEF SearchInv
    <3>5. Hits(target) = {}
      <4>1. Len(Listing) \in Nat
        <5>1. SiteAssumed(site)
          BY SitesAssumption DEF TypeOK
        <5>2. Listing \in Seq(File)
          BY <3>2, <5>1 DEF SiteAssumed, Listing, Applies
        <5> QED
          BY <5>2
      <4>2. ASSUME NEW i \in 1..Len(Listing) PROVE i \in 1..(entry - 1)
        BY <3>1, <4>1 DEF TypeOK
      <4> QED
        BY <3>1, <4>2 DEF Hits, SearchInv
    <3>6. Taken(target)' = {}
      <4>1. Taken(target) = {}
        BY <3>5 DEF Taken
      <4> QED
        BY <2>4, <3>1, <4>1
    <3> QED
      BY <2>2, <3>1, <3>2, <3>4, <3>6 DEF SearchInv
  <2>9. CASE Shorten
    <3>1. pc = "shorten" /\ UNCHANGED patch /\ Applies /\ Taken(target) = {}
      BY <2>9 DEF Shorten, SearchInv
    <3>2. PICK n \in Lengths : SearchingAt(n)
      BY <3>1 DEF SearchInv
    <3>3. patch' = NoPatch /\ patch = NoPatch
      BY <3>1 DEF SearchInv
    <3>4. CASE Cuts(target) = {}
      <4>1. pc' = "none"
        BY <2>9, <3>4 DEF Shorten
      <4>2. NoneFound
        BY <3>1, <3>2, <3>3, <3>4, NoCutLeft DEF NoneFound
      <4> QED
        BY <2>5, <3>1, <4>1, <4>2 DEF SearchInv
    <3>5. CASE Cuts(target) # {}
      <4> DEFINE c == LastCut(target) - 1
      <4>1. pc' = "find" /\ target' = SubSeq(target, 1, c)
        BY <2>9, <3>5 DEF Shorten
      <4>2. /\ c \in Lengths /\ SubSeq(target, 1, c) = Pre(c)
            /\ \A m \in Lengths : m > c => Taken(Pre(m)) = {}
        BY <3>1, <3>2, <3>5, NextCut
      <4> HIDE DEF c
      <4>3. \E m \in Lengths' : m \in Lengths' /\ target' = Pre(m)'
                /\ \A k \in Lengths' : k > m => Taken(Pre(k))' = {}
        BY <2>2, <4>1, <4>2
      <4>4. (\E m \in Lengths : SearchingAt(m))'
        BY <4>3 DEF SearchingAt
      <4> QED
        BY <3>3, <4>1, <4>4 DEF SearchInv
    <3> QED
      BY <3>4, <3>5
  <2>10. CASE Downloaded \/ ms_delay
    <3>1. /\ pc \in {"found", "settle"} /\ pc' \in {"none", "settle", "ready"}
          /\ UNCHANGED patch
      BY Zenon, <2>10 DEF Downloaded, ms_delay, findVars
    <3> QED
      BY <2>2, <2>5, <3>1 DEF SearchInv
  <2>11. CASE hw_lpm_get_idle_timeout \/ UNCHANGED vars
    <3>1. UNCHANGED <<pc, target, entry, patch>>
      BY <2>11 DEF hw_lpm_get_idle_timeout, vars, findVars
    <3>2. ASSUME \E n \in Lengths : SearchingAt(n) PROVE (\E n \in Lengths : SearchingAt(n))'
      BY <2>2, <2>3, <3>1, <3>2
    <3>3. ASSUME \A i \in 1..(entry - 1) : ~Matches(Listing[i], target)
          PROVE  (\A i \in 1..(entry - 1) : ~Matches(Listing[i], target))'
      BY <2>2, <3>1, <3>3 DEF Matches
    <3> QED
      BY <2>2, <2>4, <2>5, <3>1, <3>2, <3>3 DEF SearchInv
  <2> QED
    BY <1>3, <2>6, <2>7, <2>8, <2>9, <2>10, <2>11 DEF hw_config_findpatch
<1> QED
  BY <1>1, <1>2, <1>3 DEF Next, Step

\* The search ends with the file for the longest name that has one, whatever
\* is in the directory and in whatever order (hardware.c 465-534).
THEOREM SearchCorrect == Spec => []SearchIsBestFit
<1>1. Init => SearchInv
  BY DEF Init, SearchInv
<1> QED
  BY <1>1, SearchSays, SearchStep, TypeCorrect, PTL DEF Spec

-----------------------------------------------------------------------------
(***************************************************************************)
(* The configuration file.                                                 *)
(***************************************************************************)

\* Written over the first r lines.
LinesBy(r, e) == {i \in 1..r : Assigns(site.conf[i][1], e)}
LastBy(r, e) == CHOOSE i \in LinesBy(r, e) : \A j \in LinesBy(r, e) : j <= i
WrittenBy(r, e, default) ==
  IF LinesBy(r, e) = {} THEN default ELSE site.conf[LastBy(r, e)][1].words[2]

\* One more line does to an entry what After does.
LEMMA WrittenNext ==
  ASSUME NEW r \in Nat, NEW e, NEW default
  PROVE  WrittenBy(r + 1, e, default)
           = After(site.conf[r + 1][1], e, WrittenBy(r, e, default))
<1>1. CASE Assigns(site.conf[r + 1][1], e)
  <2>1. r + 1 \in LinesBy(r + 1, e) /\ \A j \in LinesBy(r + 1, e) : j <= r + 1
    BY <1>1 DEF LinesBy
  <2>2. ASSUME NEW i \in LinesBy(r + 1, e), \A j \in LinesBy(r + 1, e) : j <= i
        PROVE  i = r + 1
    <3>1. i \in 1..r + 1 /\ r + 1 <= i
      BY <2>1, <2>2 DEF LinesBy
    <3> QED
      BY <3>1
  <2>3. LastBy(r + 1, e) = r + 1
    BY <2>1, <2>2 DEF LastBy
  <2> QED
    BY <1>1, <2>1, <2>3 DEF WrittenBy, After
<1>2. CASE ~Assigns(site.conf[r + 1][1], e)
  <2>1. LinesBy(r + 1, e) = LinesBy(r, e)
    <3>1. ASSUME NEW i \in LinesBy(r + 1, e) PROVE i \in LinesBy(r, e)
      <4>1. i \in 1..r + 1 /\ i # r + 1
        BY <1>2 DEF LinesBy
      <4>2. i \in 1..r
        BY <4>1
      <4> QED
        BY <4>2 DEF LinesBy
    <3>2. LinesBy(r, e) \subseteq LinesBy(r + 1, e)
      BY DEF LinesBy
    <3> QED
      BY <3>1, <3>2
  <2>2. WrittenBy(r + 1, e, default) = WrittenBy(r, e, default)
    <3>1. LastBy(r + 1, e) = LastBy(r, e)
      BY Zenon, <2>1 DEF LastBy
    <3> QED
      BY Zenon, <2>1, <3>1 DEF WrittenBy
  <2> QED
    BY <1>2, <2>2 DEF After
<1> QED
  BY <1>1, <1>2

\* The first r lines are read.
ReadSoFar(r) ==
  /\ r \in 0..Len(site.conf) /\ todo = SubSeq(site.conf, r + 1, Len(site.conf))
  /\ port_name = WrittenBy(r, "UartPort", General.BLUETOOTH_UART_DEVICE_PORT)
  /\ fw_patchfile_path = WrittenBy(r, "FwPatchFilePath", General.FW_PATCHFILE_LOCATION)
  /\ fw_patchfile_name = WrittenBy(r, "FwPatchFileName", "")
  /\ fw_patch_settlement_delay = atoi(WrittenBy(r, "FwPatchSettlementDelay", "-1"))

ShortLines == \A i \in 1..Len(site.conf) : Len(site.conf[i]) = 1

ReadInv ==
  ShortLines => IF pc = "conf" THEN \E r \in Nat : ReadSoFar(r) ELSE ReadLineByLine

LEMMA ReadInit == Init => ReadInv
<1> SUFFICES ASSUME Init PROVE ReadSoFar(0)
  BY DEF ReadInv, Init
<1>1. site.conf \in Seq(Line)
  BY SitesAssumption DEF Init, SiteAssumed
<1>2. 0 \in 0..Len(site.conf) /\ SubSeq(site.conf, 0 + 1, Len(site.conf)) = site.conf
  BY <1>1
<1>3. \A e : LinesBy(0, e) = {}
  BY DEF LinesBy
<1>4. \A e, d : WrittenBy(0, e, d) = d
  BY <1>3 DEF WrittenBy
<1>5. atoi("-1") = -1
  BY DEF atoi
<1>6. /\ todo = site.conf /\ port_name = General.BLUETOOTH_UART_DEVICE_PORT
      /\ fw_patchfile_path = General.FW_PATCHFILE_LOCATION
      /\ fw_patchfile_name = "" /\ fw_patch_settlement_delay = -1
  BY Zenon DEF Init
<1> QED
  BY <1>2, <1>4, <1>5, <1>6 DEF ReadSoFar

LEMMA ReadStep == TypeOK /\ ReadInv /\ [Next]_vars => ReadInv'
<1> SUFFICES ASSUME TypeOK, ReadInv, [Next]_vars, ShortLines'
             PROVE  IF pc' = "conf" THEN \E r \in Nat : ReadSoFar(r)' ELSE ReadLineByLine'
  BY DEF ReadInv
<1>1. UNCHANGED site
  BY Zenon DEF Next, Step, vnd_load_conf, ReadLocalName, hw_config_findpatch, FindPatch,
     ReadEntry, EndOfDir, Shorten, Elsewhere, Downloaded, ms_delay,
     hw_lpm_get_idle_timeout, vars
<1>2. ShortLines
  BY <1>1 DEF ShortLines
<1>3. site.conf \in Seq(Line)
  BY SitesAssumption DEF TypeOK, SiteAssumed
<1>4. CASE vnd_load_conf
  <2>1. pc = "conf" /\ pc' = "conf" /\ todo # <<>>
    BY <1>4 DEF vnd_load_conf
  <2>2. PICK r \in Nat : ReadSoFar(r)
    BY <1>2, <2>1 DEF ReadInv
  <2> DEFINE line == Head(todo)
             c    == Head(line)
  <2>3. r \in 0..Len(site.conf) /\ todo = SubSeq(site.conf, r + 1, Len(site.conf))
    BY <2>2 DEF ReadSoFar
  <2>4. r + 1 \in 1..Len(site.conf) /\ r + 1 \in 0..Len(site.conf)
    BY <1>3, <2>1, <2>3
  <2>5. line = site.conf[r + 1] /\ Tail(todo) = SubSeq(site.conf, r + 2, Len(site.conf))
    BY <1>3, <2>3, <2>4
  <2>6. Len(line) = 1 /\ c = site.conf[r + 1][1]
    <3>1. Len(site.conf[r + 1]) = 1 /\ site.conf[r + 1] \in Line
      BY <1>2, <1>3, <2>4 DEF ShortLines
    <3>2. site.conf[r + 1] \in Seq(Chunk)
      BY <3>1 DEF Line
    <3> QED
      BY <2>5, <3>1, <3>2
  <2>7. /\ todo' = IF Len(line) > 1 THEN <<Tail(line)>> \o Tail(todo) ELSE Tail(todo)
        /\ port_name' = After(c, "UartPort", port_name)
        /\ fw_patchfile_path' = After(c, "FwPatchFilePath", fw_patchfile_path)
        /\ fw_patchfile_name' = After(c, "FwPatchFileName", fw_patchfile_name)
        /\ fw_patch_settlement_delay' = IF Assigns(c, "FwPatchSettlementDelay")
                                        THEN atoi(c.words[2]) ELSE fw_patch_settlement_delay
    BY <1>4 DEF vnd_load_conf, userial_set_port, hw_set_patch_file,
       hw_set_patch_settlement_delay
  <2> HIDE DEF line, c
  <2>8. todo' = SubSeq(site.conf, (r + 1) + 1, Len(site.conf))
    <3>1. ~(Len(line) > 1) /\ (r + 1) + 1 = r + 2
      BY <2>6
    <3> QED
      BY <2>5, <2>7, <3>1
  <2>9. \A e, d : WrittenBy(r + 1, e, d) = After(c, e, WrittenBy(r, e, d))
    BY <2>6, WrittenNext
  <2>10. /\ port_name' = WrittenBy(r + 1, "UartPort", General.BLUETOOTH_UART_DEVICE_PORT)
         /\ fw_patchfile_path'
              = WrittenBy(r + 1, "FwPatchFilePath", General.FW_PATCHFILE_LOCATION)
         /\ fw_patchfile_name' = WrittenBy(r + 1, "FwPatchFileName", "")
    BY <2>2, <2>7, <2>9 DEF ReadSoFar
  <2>11. fw_patch_settlement_delay'
           = atoi(WrittenBy(r + 1, "FwPatchSettlementDelay", "-1"))
    BY <2>2, <2>7, <2>9 DEF ReadSoFar, After
  <2>12. \A n, e, d : WrittenBy(n, e, d)' = WrittenBy(n, e, d)
    BY <1>1 DEF WrittenBy, LastBy, LinesBy, Assigns, Supported
  <2>13. ReadSoFar(r + 1)'
    BY <1>1, <2>4, <2>8, <2>10, <2>11, <2>12 DEF ReadSoFar
  <2> QED
    BY <2>1, <2>13
<1>5. CASE ReadLocalName
  <2>1. pc = "conf" /\ pc' = "find" /\ todo = <<>> /\ UNCHANGED confVars
    BY <1>5 DEF ReadLocalName
  <2>2. PICK r \in Nat : ReadSoFar(r)
    BY <1>2, <2>1 DEF ReadInv
  <2>3. r = Len(site.conf)
    <3>1. r \in 0..Len(site.conf) /\ SubSeq(site.conf, r + 1, Len(site.conf)) = <<>>
      BY <2>1, <2>2 DEF ReadSoFar
    <3>2. Len(site.conf) \in Nat
      BY <1>3
    <3>3. Len(SubSeq(site.conf, r + 1, Len(site.conf))) = 0
      <4>1. \A t : t = <<>> => Len(t) = 0
        OBVIOUS
      <4> QED
        BY Zenon, <3>1, <4>1
    <3>4. r + 1 <= Len(site.conf) =>
            Len(SubSeq(site.conf, r + 1, Len(site.conf))) = Len(site.conf) - r
      BY <1>3, <3>1, <3>2
    <3> QED
      BY <3>1, <3>2, <3>3, <3>4
  <2>4. \A e, d : WrittenBy(r, e, d) = Written(e, d)
    BY <2>3 DEF WrittenBy, LastBy, LinesBy, Written
  <2>5. /\ port_name = Written("UartPort", General.BLUETOOTH_UART_DEVICE_PORT)
        /\ fw_patchfile_path = Written("FwPatchFilePath", General.FW_PATCHFILE_LOCATION)
        /\ fw_patchfile_name = Written("FwPatchFileName", "")
        /\ fw_patch_settlement_delay = atoi(Written("FwPatchSettlementDelay", "-1"))
    BY <2>2, <2>4 DEF ReadSoFar
  <2>6. \A e, d : Written(e, d)' = Written(e, d)
    BY <1>1 DEF Written, Assigns, Supported
  <2> QED
    BY <2>1, <2>5, <2>6 DEF ReadLineByLine, confVars
<1>6. CASE hw_config_findpatch \/ Downloaded \/ ms_delay
  <2>1. pc # "conf" /\ pc' # "conf" /\ UNCHANGED confVars
    BY Zenon, <1>6 DEF hw_config_findpatch, FindPatch, ReadEntry, EndOfDir, Shorten,
       Elsewhere, Downloaded, ms_delay
  <2>2. \A e, d : Written(e, d)' = Written(e, d)
    BY <1>1 DEF Written, Assigns, Supported
  <2> QED
    BY <1>2, <2>1, <2>2 DEF ReadInv, ReadLineByLine, confVars
<1>7. CASE hw_lpm_get_idle_timeout \/ UNCHANGED vars
  <2>1. UNCHANGED <<pc, todo, confVars>>
    BY <1>7 DEF hw_lpm_get_idle_timeout, vars
  <2>2. \A e, d : Written(e, d)' = Written(e, d)
    BY <1>1 DEF Written, Assigns, Supported
  <2>3. \A n, e, d : WrittenBy(n, e, d)' = WrittenBy(n, e, d)
    BY <1>1 DEF WrittenBy, LastBy, LinesBy, Assigns, Supported
  <2>4. ASSUME NEW r \in Nat, ReadSoFar(r) PROVE ReadSoFar(r)'
    BY <1>1, <2>1, <2>3, <2>4 DEF ReadSoFar, confVars
  <2>5. ASSUME ReadLineByLine PROVE ReadLineByLine'
    BY <2>1, <2>2, <2>5 DEF ReadLineByLine, confVars
  <2> QED
    BY <1>2, <2>1, <2>4, <2>5 DEF ReadInv
<1> QED
  BY <1>4, <1>5, <1>6, <1>7 DEF Next, Step

\* A file whose lines fit the buffer means to the library what it means to its
\* reader: the last assignment to a setting counts (conf.c 95-176).
THEOREM ReadCorrect == Spec => []ShortLinesRead
<1>1. ReadInv => ShortLinesRead
  BY DEF ReadInv, ShortLines, ShortLinesRead, ReadLineByLine
<1> QED
  BY <1>1, ReadInit, ReadStep, TypeCorrect, PTL DEF Spec
=============================================================================
