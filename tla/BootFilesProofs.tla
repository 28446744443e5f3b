---------------------------- MODULE BootFilesProofs ----------------------------
(***************************************************************************)
(* The files side of UefiMain, proved for every own path, volume, ini      *)
(* file, boot manager and size of a GUID: what its path functions compute, *)
(* the inductive invariant of BootFiles, the properties of its run, and    *)
(* that it implements Chainload.                                           *)
(***************************************************************************)
EXTENDS BootFiles, TLAPS, WellFoundedInduction

-----------------------------------------------------------------------------
(* The path functions.                                                     *)

(* A set of natural numbers that is not empty has a least member. *)
LEMMA Least ==
  ASSUME NEW S \in SUBSET Nat, S # {}
  PROVE  \E n \in S : \A m \in S : n <= m
<1>1. IsWellFoundedOn(OpToRel(<, Nat), Nat)
  BY NatLessThanWellFounded
<1>2. PICK n \in S : \A m \in S : ~(<<m, n>> \in OpToRel(<, Nat))
  BY <1>1, WFMin
<1>3. \A m \in S : ~(m < n)
  BY <1>2 DEF OpToRel
<1> QED BY <1>3

(* What the loops look for at index i and below. *)
Found(path, c, i, f) ==
  /\ f \in 0 .. i
  /\ Char(path, f) = c \/ f = 0
  /\ \A j \in f + 1 .. i : Char(path, j) # c

(* There is exactly one such index, and one step of the loop keeps to it. *)
LEMMA FoundOnce ==
  ASSUME NEW path, NEW c, NEW i \in Nat, NEW f, NEW g,
         Found(path, c, i, f), Found(path, c, i, g)
  PROVE  f = g
<1>1. f \in 0 .. i /\ g \in 0 .. i
  BY DEF Found
<1>2. ~(f < g)
  BY <1>1 DEF Found
<1>3. ~(g < f)
  BY <1>1 DEF Found
<1> QED BY <1>1, <1>2, <1>3

(* An index where the character is not leaves the search to the one below. *)
LEMMA FoundDown ==
  ASSUME NEW path, NEW c, NEW i \in Nat \ {0}, Char(path, i) # c,
         NEW f, Found(path, c, i - 1, f)
  PROVE  Found(path, c, i, f)
<1>1. f \in 0 .. i
  BY DEF Found
<1>2. \A j \in f + 1 .. i : j = i \/ j \in f + 1 .. i - 1
  BY <1>1
<1> QED BY <1>1, <1>2 DEF Found

(* An index where the character is, or index 0, ends it. *)
LEMMA FoundHere ==
  ASSUME NEW path, NEW c, NEW i \in Nat, Char(path, i) = c \/ i = 0
  PROVE  Found(path, c, i, i)
BY DEF Found

(* It always ends. *)
LEMMA FoundSomewhere ==
  ASSUME NEW path, NEW c
  PROVE  \A i \in Nat : \E f : Found(path, c, i, f)
<1> DEFINE S == {i \in Nat : ~\E f : Found(path, c, i, f)}
<1> SUFFICES ASSUME S # {} PROVE FALSE
  OBVIOUS
<1>1. PICK i \in S : \A m \in S : i <= m
  BY Least
<1>2. Char(path, i) # c /\ i # 0
  BY <1>1, FoundHere
<1>3. i - 1 \in Nat /\ i - 1 \notin S
  BY <1>1, <1>2
<1>4. PICK f : Found(path, c, i - 1, f)
  BY <1>3
<1>5. Found(path, c, i, f)
  BY <1>1, <1>2, <1>4, FoundDown
<1> QED BY <1>1, <1>5

(* The loop finds it. *)
LEMMA LastIndexOfFinds ==
  ASSUME NEW Letters, NEW path \in Seq(Letters), path # <<>>, NEW c
  PROVE  Found(path, c, Len(path) - 1, LastIndexOf(path, c))
<1> DEFINE D == 0 .. Len(path) - 1
           Loop(h) == [i \in D |-> IF Char(path, i) = c \/ i = 0 THEN i ELSE h[i - 1]]
           G == [i \in D |-> CHOOSE f : Found(path, c, i, f)]
<1>1. Len(path) \in Nat \ {0}
  OBVIOUS
<1>2. \A i \in D : Found(path, c, i, G[i])
  BY <1>1, FoundSomewhere
<1>3. G = Loop(G)
  <2>1. ASSUME NEW i \in D PROVE G[i] = Loop(G)[i]
    <3>1. CASE Char(path, i) = c \/ i = 0
      <4>1. Found(path, c, i, i)
        BY <1>1, <3>1, FoundHere
      <4>2. G[i] = i
        BY <1>1, <1>2, <4>1, FoundOnce
      <4> QED BY <3>1, <4>2
    <3>2. CASE ~(Char(path, i) = c \/ i = 0)
      <4>1. i \in Nat \ {0} /\ i - 1 \in D
        BY <1>1, <3>2
      <4>2. Found(path, c, i - 1, G[i - 1])
        BY <1>2, <4>1
      <4>3. Found(path, c, i, G[i - 1])
        BY <3>2, <4>1, <4>2, FoundDown
      <4>4. G[i] = G[i - 1]
        BY <1>2, <4>1, <4>3, FoundOnce
      <4> QED BY <3>2, <4>4
    <3> QED BY <3>1, <3>2
  <2> QED BY <2>1
<1>4. ASSUME NEW h, h = Loop(h)
      PROVE  \A i \in D : Found(path, c, i, h[i])
  <2> DEFINE S == {i \in D : ~Found(path, c, i, h[i])}
  <2> SUFFICES ASSUME S # {} PROVE FALSE
    OBVIOUS
  <2>0. S \in SUBSET Nat
    BY <1>1
  <2>1. PICK i \in S : \A m \in S : i <= m
    BY <2>0, Least
  <2>2. h[i] = IF Char(path, i) = c \/ i = 0 THEN i ELSE h[i - 1]
    <3>1. Loop(h)[i] = IF Char(path, i) = c \/ i = 0 THEN i ELSE h[i - 1]
      OBVIOUS
    <3> HIDE DEF Loop
    <3>2. h[i] = Loop(h)[i]
      BY <1>4
    <3> QED BY <3>1, <3>2
  <2>3. Char(path, i) # c /\ i # 0
    BY <1>1, <2>2, FoundHere
  <2>4. i \in Nat \ {0} /\ i - 1 \in D /\ i - 1 \notin S
    BY <1>1, <2>1, <2>3
  <2>5. Found(path, c, i - 1, h[i - 1])
    BY <2>4
  <2>6. Found(path, c, i, h[i])
    BY <2>2, <2>3, <2>4, <2>5, FoundDown
  <2> QED BY <2>6
<1> DEFINE Down == CHOOSE h : h = Loop(h)
<1>5. Down = Loop(Down)
  BY <1>3
<1>6. LastIndexOf(path, c) = Down[Len(path) - 1]
  BY DEF LastIndexOf
<1> HIDE DEF Down, Loop
<1>7. \A i \in D : Found(path, c, i, Down[i])
  BY <1>4, <1>5
<1> QED BY <1>1, <1>6, <1>7

(* The last place of a character, which the definitions speak of. *)
LEMMA LastPlaceIs ==
  ASSUME NEW Letters, NEW path \in Seq(Letters), NEW c
  PROVE  /\ LastPlace(path, c) \in 0 .. Len(path)
         /\ LastPlace(path, c) # 0 => LastPlace(path, c) \in Places(path, c)
         /\ \A j \in Places(path, c) : j <= LastPlace(path, c)
<1> DEFINE S == Places(path, c) \cup {0}
           T == {n \in Nat : \E x \in S : n = Len(path) - x}
<1>1. Len(path) \in Nat /\ S \subseteq 0 .. Len(path)
  BY DEF Places
<1>2. T \in SUBSET Nat /\ Len(path) \in T
  <2>1. 0 \in S /\ Len(path) = Len(path) - 0
    BY <1>1
  <2> QED BY <1>1, <2>1
<1>3. PICK n \in T : \A m \in T : n <= m
  BY <1>2, Least
<1>4. PICK q \in S : n = Len(path) - q
  BY <1>3
<1>5. \A j \in S : j <= q
  <2> TAKE j \in S
  <2>1. Len(path) - j \in T
    BY <1>1
  <2>2. n <= Len(path) - j
    BY <1>3, <2>1
  <2> QED BY <1>1, <1>4, <2>2
<1>6. LastPlace(path, c) \in S /\ \A j \in S : j <= LastPlace(path, c)
  <2>1. LastPlace(path, c) = CHOOSE x \in S : \A j \in S : j <= x
    BY DEF LastPlace
  <2> HIDE DEF S
  <2> QED BY <1>4, <1>5, <2>1
<1> QED BY <1>1, <1>6

(* Counted from 0 and from 1, the loop and the definition agree. *)
LEMMA SamePlace ==
  ASSUME NEW Letters, NEW path \in Seq(Letters), path # <<>>, NEW c
  PROVE  /\ Places(path, c) # {} => LastIndexOf(path, c) + 1 = LastPlace(path, c)
         /\ Places(path, c) = {} =>
              /\ LastIndexOf(path, c) = 0 /\ Char(path, 0) # c /\ LastPlace(path, c) = 0
         /\ LastIndexOf(path, c) \in Nat
<1> DEFINE f == LastIndexOf(path, c)
           n == Len(path)
           p == LastPlace(path, c)
<1>1. n \in Nat \ {0}
  OBVIOUS
<1>2. Found(path, c, n - 1, f)
  BY LastIndexOfFinds
<1>3. /\ p \in 0 .. n
      /\ p # 0 => p \in Places(path, c)
      /\ \A j \in Places(path, c) : j <= p
  BY LastPlaceIs
<1> HIDE DEF f, p
<1>4. f \in 0 .. n - 1 /\ (Char(path, f) = c \/ f = 0)
      /\ \A j \in f + 1 .. n - 1 : Char(path, j) # c
  BY <1>2 DEF Found
<1>5. CASE Places(path, c) # {}
  <2>1. p \in 1 .. n /\ path[p] = c
    BY <1>1, <1>3, <1>5 DEF Places
  <2>2. Char(path, p - 1) = c /\ p - 1 \in 0 .. n - 1
    BY <1>1, <2>1 DEF Char
  <2>3. p - 1 <= f
    BY <1>1, <1>4, <2>2
  <2>4. Char(path, f) = c
    BY <1>4, <2>2, <2>3
  <2>5. f + 1 \in Places(path, c)
    BY <1>1, <1>4, <2>4 DEF Places, Char
  <2>6. f + 1 <= p
    BY <1>3, <2>5
  <2> QED BY <1>4, <1>5, <2>1, <2>3, <2>6 DEF f, p
<1>6. CASE Places(path, c) = {}
  <2>1. \A j \in 0 .. n - 1 : Char(path, j) # c
    BY <1>1, <1>6 DEF Places, Char
  <2>2. f = 0 /\ p = 0
    BY <1>1, <1>3, <1>4, <1>6, <2>1
  <2> QED BY <1>1, <1>6, <2>1, <2>2 DEF f, p
<1> QED BY <1>5, <1>6

(* GetFilenameInSameDirectory makes a path exactly when there is a         *)
(* directory to make it in, and the path is in that directory.             *)
THEOREM SameDirectory ==
  ASSUME NEW Letters, NEW path \in Seq(Letters), path # <<>>, NEW new \in Seq(Letters)
  PROVE  GetFilenameInSameDirectory(path, new) =
           IF HasDirectory(path) THEN Directory(path) \o new ELSE Invalid
<1>1. CASE HasDirectory(path)
  <2>1. LastIndexOf(path, Slash) + 1 = LastPlace(path, Slash)
        /\ LastIndexOf(path, Slash) \in Nat
    BY <1>1, SamePlace DEF HasDirectory
  <2>2. LastPlace(path, Slash) \in DOMAIN path /\ path[LastPlace(path, Slash)] = Slash
    BY <2>1, LastPlaceIs DEF Places
  <2>3. Char(path, LastIndexOf(path, Slash)) = Slash
    BY <2>1, <2>2 DEF Char
  <2> QED BY <1>1, <2>1, <2>3 DEF GetFilenameInSameDirectory, GetEndingSlashIndex,
             Renamed, Directory
<1>2. CASE ~HasDirectory(path)
  BY <1>2, SamePlace DEF HasDirectory, GetFilenameInSameDirectory, GetEndingSlashIndex
<1> QED BY <1>1, <1>2

(* Of any path that is not empty, ChangeExtension keeps everything up to   *)
(* the last dot, wherever that is, and refuses if there is none or if the  *)
(* dot comes first.  It does not look for the file name: where the only    *)
(* dot is in a directory's name, what is kept ends there.                  *)
THEOREM OtherExtension ==
  ASSUME NEW Letters, NEW path \in Seq(Letters), path # <<>>, NEW new \in Seq(Letters)
  PROVE  ChangeExtension(path, new) =
           IF LastPlace(path, Dot) > 1 THEN Stem(path) \o new ELSE Invalid
<1>1. LastPlace(path, Dot) \in Nat
      /\ (LastPlace(path, Dot) # 0 => LastPlace(path, Dot) \in Places(path, Dot))
  BY LastPlaceIs
<1>2. CASE LastPlace(path, Dot) > 1
  <2>1. Places(path, Dot) # {}
    BY <1>1, <1>2
  <2>2. LastIndexOf(path, Dot) + 1 = LastPlace(path, Dot) /\ LastIndexOf(path, Dot) \in Nat
    BY <2>1, SamePlace
  <2>3. LastIndexOf(path, Dot) # 0
    BY <1>1, <1>2, <2>2
  <2> QED BY <1>2, <2>2, <2>3 DEF ChangeExtension, Renamed, Stem
<1>3. CASE ~(LastPlace(path, Dot) > 1)
  <2>1. LastIndexOf(path, Dot) \in Nat
    BY SamePlace
  <2>2. LastIndexOf(path, Dot) = 0
    <3>1. CASE Places(path, Dot) = {}
      BY <3>1, SamePlace
    <3>2. CASE Places(path, Dot) # {}
      <4>1. LastIndexOf(path, Dot) + 1 = LastPlace(path, Dot)
        BY <3>2, SamePlace
      <4> QED BY <1>1, <1>3, <2>1, <4>1
    <3> QED BY <3>1, <3>2
  <2> QED BY <1>3, <2>2 DEF ChangeExtension
<1> QED BY <1>2, <1>3

(* An extension is never the first character: there is a directory before  *)
(* it.                                                                     *)
LEMMA OwnExtension ==
  ASSUME NEW Letters, NEW path \in Seq(Letters), HasExtension(path)
  PROVE  LastPlace(path, Dot) > 1
<1>1. LastPlace(path, Slash) \in Nat /\ LastPlace(path, Dot) \in Nat
  BY LastPlaceIs
<1>2. LastPlace(path, Slash) >= 1
  <2>1. PICK j \in Places(path, Slash) : TRUE
    BY DEF HasExtension, HasDirectory
  <2>2. j >= 1 /\ j \in Nat /\ j <= LastPlace(path, Slash)
    BY <2>1, LastPlaceIs DEF Places
  <2> QED BY <1>1, <2>2
<1> QED BY <1>1, <1>2 DEF HasExtension

-----------------------------------------------------------------------------
(* The names.                                                              *)

(* A path made by appending a name ends with that name. *)
LEMMA Ending ==
  ASSUME NEW Letters, NEW front \in Seq(Letters), NEW last \in Letters
  PROVE  /\ front \o <<last>> # <<>>
         /\ (front \o <<last>>)[Len(front \o <<last>>)] = last
<1> DEFINE whole == front \o <<last>>
<1>1. Len(<<last>>) = 1 /\ <<last>>[1] = last /\ <<last>> \in Seq(Letters)
  OBVIOUS
<1>2. Len(whole) = Len(front) + 1 /\ Len(front) \in Nat
  BY <1>1
<1>3. whole[Len(front) + 1] = last
  BY <1>1
<1>4. whole # <<>>
  BY <1>2, Len(<<>>) = 0
<1> QED BY <1>2, <1>3, <1>4

(* Names are letters to a path that they end. *)
L == STRING \cup Names

(* The own path, its directory and its stem are paths. *)
LEMMA PathTyped ==
  ASSUME case \in Cases
  PROVE  /\ case.path \in Seq(L) /\ case.path # <<>>
         /\ Directory(case.path) \in Seq(L) /\ Stem(case.path) \in Seq(L)
<1>0. case.path \in Seq(STRING) /\ case.path # <<>>
  BY CasesAssumption
<1>1. case.path \in Seq(L) /\ case.path # <<>>
  BY <1>0 DEF L
<1>2. \A n \in 0 .. Len(case.path) : SubSeq(case.path, 1, n) \in Seq(L)
  BY <1>1
<1> QED BY <1>1, <1>2, LastPlaceIs DEF Directory, Stem

(* Names beside the program are names, and none of them is the boot        *)
(* manager.                                                                *)
LEMMA BesideTyped ==
  /\ Beside \subseteq L /\ Beside \subseteq Names
  /\ "boot" \in L /\ "boot" \notin Beside /\ "boot" \in Names
BY DEF L, Beside, Names

(* A file beside the program is the one its name says. *)
LEMMA OwnDirectoryIs ==
  ASSUME case \in Cases, NEW r \in Beside
  PROVE  /\ HasDirectory(case.path) => OwnDirectory(r) # Invalid /\ NameOf(OwnDirectory(r)) = r
         /\ ~HasDirectory(case.path) => OwnDirectory(r) = Invalid
<1> DEFINE here == Directory(case.path) \o <<r>>
<1>1. r \in L /\ <<r>> \in Seq(L)
  BY BesideTyped
<1>2. OwnDirectory(r) = IF HasDirectory(case.path) THEN here ELSE Invalid
  BY <1>1, PathTyped, SameDirectory DEF OwnDirectory
<1>3. here # <<>> /\ here[Len(here)] = r
  BY <1>1, PathTyped, Ending
<1>4. NameOf(here) = r
  BY <1>3 DEF NameOf
<1> QED BY <1>2, <1>3, <1>4 DEF Invalid

(* The boot manager's path leads to the boot manager, not to a file beside *)
(* it.                                                                     *)
LEMMA BootManagerIs ==
  ASSUME case \in Cases, HasExtension(case.path)
  PROVE  BootManager # Invalid /\ NameOf(BootManager) = "boot"
<1> DEFINE there == Stem(case.path) \o <<"boot">>
<1>0. <<"boot">> \in Seq(L)
  BY BesideTyped
<1>1. BootManager = there
  BY <1>0, PathTyped, OwnExtension, OtherExtension DEF BootManager
<1>2. there # <<>> /\ there[Len(there)] = "boot"
  BY BesideTyped, PathTyped, Ending
<1>3. \A r \in Beside : there # Directory(case.path) \o <<r>>
  <2> TAKE r \in Beside
  <2> DEFINE here == Directory(case.path) \o <<r>>
  <2>1. here[Len(here)] = r
    BY BesideTyped, PathTyped, Ending
  <2> HIDE DEF here, there
  <2>2. here # there
    BY <1>2, <2>1, BesideTyped
  <2> QED BY <2>2 DEF here
<1>4. NameOf(there) = "boot"
  BY <1>3 DEF NameOf
<1> QED BY <1>1, <1>2, <1>4 DEF Invalid

(* Every path has a name in the model. *)
LEMMA NameOfTyped ==
  ASSUME case \in Cases, NEW path
  PROVE  NameOf(path) \in Names
<1>1. CASE \E r \in Beside : path = Directory(case.path) \o <<r>>
  <2>1. PICK r \in Beside : path = Directory(case.path) \o <<r>>
    BY <1>1
  <2>2. path[Len(path)] = r
    BY <2>1, BesideTyped, PathTyped, Ending
  <2> QED BY <1>1, <2>1, <2>2, BesideTyped DEF NameOf
<1>2. CASE ~\E r \in Beside : path = Directory(case.path) \o <<r>>
  BY <1>2 DEF NameOf, Names
<1> QED BY <1>1, <1>2

-----------------------------------------------------------------------------
(* The inductive invariant.                                                *)

Files == case.files
HasDir == HasDirectory(case.path)
HasExt == HasExtension(case.path)
IniAnswers == case.parses /\ Files["ini"] = "file"

ProgramTyped ==
  /\ pc \in {"setup", "config", "ini", "reading", "parse", "marker", "marked", "log",
             "clearing", "creating", "keys", "exit", "looking", "check", "scan",
             "refuse", "start", "after", "cleanup", "booted", "returned"}
  /\ {known, root, logHandle, devicePath} \subseteq BOOLEAN
  /\ strings \in 0 .. 2
  /\ settings \subseteq Settings /\ k \in 1 .. Len(Markers) + 1
  /\ handle \in {"unset", "image", "other"}
  /\ image \in {"none", "loaded", "distrusted", "unloaded", "started", "exited"}
  /\ looked \in Images /\ address \in Nat
FilesTyped == F!TypeOK
Volume ==
  /\ case \in Cases
  /\ \A n \in Names \ {"log"} : volume[n] = Files[n]
  /\ looked = case.boot \/ handle = "other"
Typed == FilesTyped /\ ProgramTyped /\ Volume

(* Which routine runs for which file, where in UefiMain. *)
Probing == {"probe", "info", "informed", "uninformed"}
Asking(point, for, allowed) ==
  pc = point => routine = for /\ at \in {"idle", "open"} \cup allowed

Calling ==
  /\ Asking("ini", "FileExists", {}) /\ Asking("marked", "FileExists", {})
  /\ Asking("looking", "FileExists", {})
  /\ Asking("reading", "FileRead", Probing \cup {"read", "exit", "exit_unopened"})
  /\ Asking("clearing", "FileDelete", Probing) /\ Asking("creating", "OpenLog", Probing)
  /\ pc \in {"ini", "reading"} => HasDir /\ name = "ini"
  /\ pc = "parse" => HasDir
  /\ pc = "marked" => HasDir /\ k \in 1 .. 3 /\ name = Markers[k]
  /\ pc \in {"clearing", "creating"} => HasDir /\ name = "log"
  /\ pc \in {"looking", "check", "scan", "start", "booted"} => (HasExt => name = "boot")
  /\ pc \in {"looking", "check", "scan", "start", "booted"} => name \in Names
  /\ at # "idle" =>
       pc \in {"ini", "marked", "looking", "reading", "clearing", "creating"}

(* What the answer tells of the volume. *)
Answered ==
  /\ pc \in {"ini", "marked"} /\ at = "idle" =>
       IF answer THEN Files[name] # "absent" ELSE faulted \/ Files[name] = "absent"
  /\ pc = "reading" =>
       /\ Files["ini"] # "absent"
       /\ answer => at \in {"exit", "idle"}
       /\ at \in {"exit", "exit_unopened", "idle"} => answer \/ faulted \/ ~IniAnswers
  /\ pc = "marker" => faulted \/ ~HasDir \/ ~IniAnswers
  /\ pc = "marked" => faulted \/ ~IniAnswers
  /\ pc = "creating" /\ at = "idle" => faulted

(* What is held. *)
Opened == at \in Probing \cup {"read", "exit"}
LogUsed == "logfile" \in settings /\ logHandle /\ handles["log"] > 0 /\ volume["log"] = "file"
LogBad == faulted \/ volume["log"] = "directory"
Before == {"setup", "config", "ini", "reading", "parse", "marker", "marked", "log",
           "clearing", "creating"}
After == {"keys", "exit", "looking", "check", "scan", "refuse", "start", "after",
          "cleanup", "booted"}

Handles ==
  /\ \A n \in Names \ {"log", "ini"} : handles[n] = 0
  /\ handles["ini"] = IF pc = "reading" /\ Opened THEN 1 ELSE 0
  /\ pc \in Before \ {"clearing", "creating"} => handles["log"] = 0
  /\ pc = "clearing" =>
       /\ at = "open" => handles["log"] = 0
       /\ at \in Probing => handles["log"] = 1
       /\ at = "idle" => handles["log"] = 0 \/ (handles["log"] = 1 /\ LogBad)
  /\ pc = "creating" =>
       /\ IF at \in Probing THEN handles["log"] = 1 \/ (handles["log"] > 1 /\ LogBad)
                             ELSE handles["log"] = 0 \/ LogBad
       /\ at \in Probing => volume["log"] # "absent"
       /\ at = "uninformed" => faulted
  /\ pc = "clearing" /\ at = "uninformed" => faulted
  /\ pc \in After =>
       /\ "logfile" \in settings => LogUsed /\ (handles["log"] = 1 \/ LogBad)
       /\ "logfile" \notin settings => handles["log"] = 0 \/ LogBad
  /\ pc = "returned" => handles["log"] = 0 \/ LogBad

Memory ==
  /\ pc \in Before => ~logHandle
  /\ IF logHandle THEN infos \in {0, 1}
     ELSE infos = IF at \in {"info", "informed"} THEN 1 ELSE 0
  /\ pc \in {"setup", "config", "ini"} => contents = "unset" /\ buffers = 0
  /\ pc = "reading" =>
       /\ at \in Probing \cup {"open", "exit_unopened"} => contents = "unset" /\ buffers = 0
       /\ at = "read" \/ answer => contents = "buffer" /\ buffers = 1
       /\ at = "exit" => \/ contents = "buffer" /\ buffers = 1
                         \/ contents # "buffer" /\ buffers = 0
       /\ at = "idle" /\ ~answer => buffers = 0
       /\ at = "uninformed" => faulted
       /\ at \in {"exit", "exit_unopened"} /\ contents = "unset" => faulted
  /\ pc = "parse" => contents = "buffer" /\ buffers = 1
  /\ pc \notin {"setup", "config", "ini", "reading", "parse"} =>
       \/ buffers = 0
       \/ buffers = 1 /\ contents = "buffer" /\ (faulted \/ ~IniAnswers)

Strings ==
  /\ pc = "setup" => ~known /\ ~root
  /\ pc \notin {"setup", "exit", "cleanup", "returned"} => known
  /\ pc = "exit" /\ ~known => faulted
  /\ pc # "returned" =>
       strings = (IF known THEN 1 ELSE 0)
               + (IF pc \in {"ini", "reading", "marked", "clearing", "creating", "looking",
                             "check", "scan", "refuse", "start", "after", "booted"}
                    THEN 1 ELSE 0)
  /\ pc = "returned" => strings = 0 /\ ~root

(* Launch is reached, and its device path made, only with a path.          *)
Lost == pc = "looking" \/ devicePath => known /\ BootManager # Invalid

(* The settings so far. *)
MarkedUpTo(on, n) ==
  {m \in Settings : \E j \in 1 .. n - 1 : m = Markers[j] /\ on[m] # "absent"}
FromMarkers(n) ==
  /\ settings \subseteq MarkedUpTo(Files, n)
  /\ ~HasDir => settings = {}
  /\ faulted \/ ~HasDir \/ settings = MarkedUpTo(Files, n)
FromIni == HasDir /\ IniAnswers
Chosen ==
  /\ pc \in {"setup", "config", "ini", "reading", "parse"} => settings = {} /\ k = 1
  /\ pc \in {"marker", "marked"} => k \in 1 .. 3 /\ FromMarkers(k)
  /\ pc = "log" =>
       \/ FromIni /\ settings = case.asked
       \/ k = 4 /\ FromMarkers(4) /\ (faulted \/ ~HasDir \/ ~IniAnswers)
  /\ pc \in {"clearing", "creating"} =>
       FromIni /\ settings = case.asked \ {"logfile"} /\ "logfile" \in case.asked
  /\ pc = "keys" => SettingsFromOneSource

(* The image. *)
Early == Before \cup {"keys", "exit", "looking"}
Image ==
  /\ pc \in Early => handle = "unset" /\ image = "none"
  /\ pc \in {"check", "scan", "start", "refuse"} =>
       \/ handle \in {"unset", "other"} /\ image = "none"
       \/ handle = "image" /\ image \in {"loaded", "distrusted"}
  /\ pc \in {"scan", "start", "booted"} => handle # "unset" /\ looked.loader
  /\ pc \in {"after", "cleanup", "returned"} => image \notin {"loaded", "started"}
  /\ pc = "booted" => image = "started" /\ handle = "image"

(* What the scan has passed. *)
Aligned(g) == g % Word = 0
Marks(m) == {g \in m.guids : Aligned(g) /\ g + GuidSize < m.size}
Passed ==
  /\ pc \in Early \cup {"check"} => address = ImageBase
  /\ address >= ImageBase /\ Aligned(address - ImageBase)
  /\ pc = "scan" => \A g \in Marks(looked) : g >= address - ImageBase
  /\ pc \in {"start", "booted"} => address - ImageBase \in Marks(looked)

(* Nothing failed, and the boot manager is where it should be. *)
Wanted == ~faulted /\ HasExt /\ Files["boot"] = "file" /\ Genuine(case.boot)
Hopeful ==
  Wanted =>
    /\ pc \notin {"refuse", "after", "cleanup", "returned"}
    /\ pc \in {"check", "scan", "start"} => handle = "image" /\ image = "loaded"

Strays ==
  /\ stray /\ ~faulted => handle = "other" /\ image = "none"
  /\ handle = "other" => stray /\ pc \notin Early

IInv ==
  /\ Typed /\ Calling /\ Answered /\ Handles /\ Memory /\ Strings /\ Lost
  /\ Chosen /\ Image /\ Passed /\ Hopeful /\ Strays

-----------------------------------------------------------------------------
(* The steps.                                                              *)

(* The ranges that the invariant gives the variables. *)
LEMMA Types ==
  ASSUME IInv
  PROVE  /\ faulted \in BOOLEAN /\ stray \in BOOLEAN /\ answer \in BOOLEAN
         /\ volume \in [Names -> F!Kinds] /\ Files \in [Names -> F!Kinds]
         /\ handles \in [Names -> Nat] /\ infos \in Nat /\ buffers \in Nat
         /\ {"ini", "log", "boot"} \subseteq Names
         /\ case \in Cases /\ case.boot \in Images /\ looked \in Images
         /\ case.asked \subseteq Settings /\ case.parses \in BOOLEAN
         /\ address \in Nat /\ name \in Names \cup {"none"}
         /\ strings \in Nat /\ settings \subseteq Settings
BY CasesAssumption DEF IInv, Typed, FilesTyped, ProgramTyped, Volume, F!TypeOK, Files, Names, Beside

(* There are three marker files, and each is for a setting. *)
LEMMA MarkersAre ==
  /\ Len(Markers) = 3 /\ \A j \in 1 .. 3 : Markers[j] \in Settings \cap Names
  /\ {"verbose", "logfile"} \subseteq Settings
BY DEF Markers, Settings, Names, Beside

(* What a mark is. *)
LEMMA MarksAre ==
  ASSUME NEW m \in Images
  PROVE  \A g \in Marks(m) : g \in m.guids /\ g \in Nat /\ Aligned(g)
BY ImagesAssumption DEF Marks

(* A genuine image has a mark. *)
LEMMA GenuineIs ==
  ASSUME NEW m \in Images, Genuine(m)
  PROVE  m.loader /\ \E g \in Nat : g \in Marks(m) /\ g + GuidSize < m.size /\ m.size # 0
BY ImagesAssumption, SizesAssumption DEF Genuine, Marks, Aligned

(* The scan goes from one place to the next and leaves none out. *)
LEMMA Multiple ==
  ASSUME NEW g \in Nat, Aligned(g)
  PROVE  \E p \in Nat : g = Word * p
<1>1. Word \in Nat \ {0} /\ g % Word = 0
  BY SizesAssumption DEF Aligned
<1>2. g \div Word \in Nat
  BY <1>1
<1>3. g = Word * (g \div Word)
  BY <1>1
<1> QED BY <1>2, <1>3

(* Multiples of the word are aligned. *)
LEMMA MultipleIs ==
  ASSUME NEW p \in Nat
  PROVE  Word * p \in Nat /\ Aligned(Word * p)
<1>1. Word \in Nat \ {0}
  BY SizesAssumption
<1>2. (Word * p) % Word = 0
  BY <1>1
<1> QED BY <1>1, <1>2 DEF Aligned

LEMMA NextPlace ==
  ASSUME NEW x \in Nat, Aligned(x)
  PROVE  /\ Aligned(x + Word)
         /\ \A g \in Nat : Aligned(g) /\ g >= x /\ g # x => g >= x + Word
<1>1. Word \in Nat \ {0}
  BY SizesAssumption
<1>2. PICK q \in Nat : x = Word * q
  BY Multiple
<1>3. x + Word = Word * (q + 1) /\ q + 1 \in Nat
  BY <1>1, <1>2
<1>4. Aligned(x + Word)
  BY <1>3, MultipleIs
<1>5. ASSUME NEW g \in Nat, Aligned(g), g >= x, g # x
      PROVE  g >= x + Word
  <2>1. PICK p \in Nat : g = Word * p
    BY <1>5, Multiple
  <2>2. Word * p > Word * q
    BY <1>2, <1>5, <2>1
  <2>3. p > q
    BY <1>1, <2>2
  <2>4. p >= q + 1 /\ q + 1 \in Nat
    BY <2>3
  <2>5. Word * p >= Word * (q + 1)
    BY <1>1, <2>4
  <2> QED BY <1>3, <2>1, <2>5
<1> QED BY <1>4, <1>5

(* What else the parts of the invariant say together. *)
LEMMA Along ==
  ASSUME IInv
  PROVE  /\ volume["ini"] = Files["ini"] /\ volume["boot"] = Files["boot"]
         /\ \A j \in 1 .. 3 : volume[Markers[j]] = Files[Markers[j]]
         /\ pc = "setup" => settings = {}
         /\ pc \in {"marker", "marked"} => k \in 1 .. 3
         /\ pc \in {"clearing", "creating"} => "logfile" \notin settings
         /\ pc = "reading" => volume["ini"] # "absent"
         /\ at \in {"exit", "exit_unopened"} /\ contents = "unset" => faulted
         /\ Opened => handles[name] > 0
         /\ at \in {"info", "informed"} => infos = 1
<1>1. \A n \in Names \ {"log"} : volume[n] = Files[n]
  BY DEF IInv, Typed, Volume
<1>2. {"ini", "boot"} \subseteq Names \ {"log"} /\ \A j \in 1 .. 3 : Markers[j] \in Names \ {"log"}
  BY DEF Names, Beside, Markers
<1>3. pc = "reading" => Files["ini"] # "absent"
  BY DEF IInv, Answered
<1>4. /\ pc = "setup" => settings = {}
      /\ pc \in {"marker", "marked"} => k \in 1 .. 3
      /\ pc \in {"clearing", "creating"} => "logfile" \notin settings
  BY DEF IInv, Chosen
<1>5. at \in {"exit", "exit_unopened"} /\ contents = "unset" => faulted
  BY DEF IInv, Memory, Calling, Asking, Probing
<1>6. Opened => handles[name] > 0
  <2>1. Opened => pc \in {"reading", "clearing", "creating"}
    BY DEF IInv, Calling, Asking, Opened, Probing
  <2>2. pc = "reading" => name = "ini"
    BY DEF IInv, Calling
  <2>3. pc \in {"clearing", "creating"} => name = "log" /\ (Opened => at \in Probing)
    BY DEF IInv, Calling, Asking, Opened, Probing
  <2>4. handles["ini"] = IF pc = "reading" /\ Opened THEN 1 ELSE 0
    BY DEF IInv, Handles
  <2>5. pc \in {"clearing", "creating"} /\ at \in Probing =>
          handles["log"] = 1 \/ handles["log"] > 1
    BY DEF IInv, Handles
  <2> QED BY <2>1, <2>2, <2>3, <2>4, <2>5, Types
<1>7. at \in {"info", "informed"} => infos = 1
  BY DEF IInv, Memory, Calling, Asking, Probing, Before
<1> QED BY <1>1, <1>2, <1>3, <1>4, <1>5, <1>6, <1>7

(* A step of a routine leaves UefiMain alone, and the volume but for the   *)
(* log.                                                                    *)
LEMMA InARoutine ==
  ASSUME IInv, FileStep
  PROVE  /\ at # "idle" /\ UNCHANGED <<case, pc, program, launching, routine, name>>
         /\ faulted => faulted'
         /\ pc \in {"ini", "marked", "looking", "reading", "clearing", "creating"}
<1>0. faulted \in BOOLEAN
  BY DEF IInv, Typed, FilesTyped, ProgramTyped, Volume, F!TypeOK
<1>1. at # "idle" /\ (faulted => faulted') /\ UNCHANGED <<routine, name>>
  BY <1>0 DEF FileStep, F!Step, F!OpenFails, F!FileFound, F!OpenWorks, F!InfoUnavailable,
         F!InfoAllocated, F!InfoFails, F!InfoWorks, F!DeleteUninformed, F!DeleteDirectory,
         F!DeleteFile, F!ReadUninformed, F!BufferUnavailable, F!BufferAllocated, F!ReadFails,
         F!ReadWorks, F!ReadExit, F!Goto, F!Return, F!Fault
<1> QED BY <1>1 DEF FileStep, IInv, Calling

(* What has failed stays failed, and the circumstances do not change. *)
LEMMA FaultsStay ==
  ASSUME IInv, Next
  PROVE  (faulted => faulted') /\ case' = case
<1>0. faulted \in BOOLEAN
  BY DEF IInv, Typed, FilesTyped, ProgramTyped, Volume, F!TypeOK
<1> USE <1>0 DEF At, Go
<1>1. CASE FileStep
  BY <1>1, InARoutine
<1>2. CASE SetupFails \/ Setup
  BY <1>2 DEF SetupFails, Setup
<1>3. CASE LookForIni \/ IniMissing \/ ReadIni \/ IniRead \/ IniUnparsable \/ IniParsed
  BY <1>3 DEF LookForIni, CallOn, NoPath, IniMissing, Freed, ReadIni, CallAgain, IniRead,
              IniUnparsable, IniParsed, IniParsedThen
<1>4. CASE LookForMarker \/ MarkerLookedFor
  BY <1>4 DEF LookForMarker, MarkerLookedFor, MarkerSeen, CallOn, NoPath
<1>5. CASE NoLog \/ ClearLog \/ CreateLog \/ LogNotOpened \/ LogOpened \/ Work
  BY <1>5 DEF NoLog, ClearLog, CallOn, NoPath, CreateLog, CallAgain, LogNotOpened, LogOpened,
              LogOpenedAs, Work
<1>6. CASE LookForBootManager \/ NothingToLaunch
  BY <1>6 DEF LookForBootManager, CallOn, NoPath, NothingToLaunch
<1>7. CASE ImageNotLoaded \/ ImageDistrusted \/ ImageLoaded
  BY <1>7 DEF ImageNotLoaded, ImageDistrusted, ImageLoaded, Loading
<1>8. CASE HandleRefused \/ HandleAstray \/ NotALoader \/ StartScan \/ ScanMiss \/ ScanHit
           \/ ScanEnds \/ Refuse \/ Boots \/ StartFails
  BY <1>8 DEF HandleRefused, HandleAstray, NotALoader, StartScan, Scan, ScanMiss, ScanOn,
              ScanHit, ScanEnds, Refuse, Boots, StartFails, StartFailsThen
<1>9. CASE LaunchReturns \/ CleanUp
  BY <1>9 DEF LaunchReturns, CleanUp, CleanUpClosing
<1> QED BY <1>1, <1>2, <1>3, <1>4, <1>5, <1>6, <1>7, <1>8, <1>9 DEF Next

(* A path is allocated for each call, and freed after it. *)
LEMMA StringsKept ==
  ASSUME IInv, Next
  PROVE  Strings'
<1> USE DEF IInv, Strings, At, Go, files, program, launching
<1>1. CASE FileStep
  BY <1>1, InARoutine
<1>2. CASE SetupFails \/ Setup
  BY <1>2 DEF SetupFails, Setup
<1>3. CASE LookForIni \/ IniMissing \/ ReadIni \/ IniRead \/ IniUnparsable \/ IniParsed
  BY <1>3 DEF LookForIni, CallOn, NoPath, IniMissing, Freed, ReadIni, CallAgain, IniRead,
              IniUnparsable, IniParsed, IniParsedThen
<1>4. CASE LookForMarker \/ MarkerLookedFor
  BY <1>4 DEF LookForMarker, MarkerLookedFor, MarkerSeen, AfterMarker, CallOn, NoPath, Freed
<1>5. CASE NoLog \/ ClearLog \/ CreateLog \/ LogNotOpened \/ LogOpened \/ Work
  BY <1>5 DEF NoLog, ClearLog, CallOn, NoPath, CreateLog, CallAgain, LogNotOpened, LogOpened,
              LogOpenedAs, Freed, Work
<1>6. CASE LookForBootManager \/ NothingToLaunch
  BY <1>6 DEF LookForBootManager, CallOn, NoPath, NothingToLaunch
<1>7. CASE ImageNotLoaded \/ ImageDistrusted \/ ImageLoaded
  BY <1>7 DEF ImageNotLoaded, ImageDistrusted, ImageLoaded, Loading
<1>8. CASE HandleRefused \/ HandleAstray \/ NotALoader \/ StartScan \/ ScanMiss \/ ScanHit
           \/ ScanEnds \/ Refuse \/ Boots \/ StartFails
  BY <1>8 DEF HandleRefused, HandleAstray, NotALoader, StartScan, Scan, ScanMiss, ScanOn,
              ScanHit, ScanEnds, Refuse, Boots, StartFails, StartFailsThen
<1>9. CASE LaunchReturns \/ CleanUp
  BY <1>9 DEF LaunchReturns, Freed, CleanUp, CleanUpClosing
<1> QED BY <1>1, <1>2, <1>3, <1>4, <1>5, <1>6, <1>7, <1>8, <1>9 DEF Next

(* Launch is called with the boot manager's path. *)
LEMMA LostKept ==
  ASSUME IInv, Next
  PROVE  Lost'
<1> USE DEF IInv, Lost, BootManager, At, Go, files, program, launching
<1>1. CASE FileStep
  BY <1>1, InARoutine
<1>2. CASE SetupFails \/ Setup
  BY <1>2 DEF SetupFails, Setup
<1>3. CASE LookForIni \/ IniMissing \/ ReadIni \/ IniRead \/ IniUnparsable \/ IniParsed
  BY <1>3 DEF LookForIni, CallOn, NoPath, IniMissing, Freed, ReadIni, CallAgain, IniRead,
              IniUnparsable, IniParsed, IniParsedThen
<1>4. CASE LookForMarker \/ MarkerLookedFor
  BY <1>4 DEF LookForMarker, MarkerLookedFor, MarkerSeen, AfterMarker, CallOn, NoPath, Freed
<1>5. CASE NoLog \/ ClearLog \/ CreateLog \/ LogNotOpened \/ LogOpened \/ Work
  BY <1>5 DEF NoLog, ClearLog, CallOn, NoPath, CreateLog, CallAgain, LogNotOpened, LogOpened,
              LogOpenedAs, Freed, Work
<1>6. CASE LookForBootManager \/ NothingToLaunch
  BY <1>6 DEF LookForBootManager, CallOn, NoPath, NothingToLaunch
<1>7. CASE ImageNotLoaded \/ ImageDistrusted \/ ImageLoaded
  BY <1>7 DEF ImageNotLoaded, ImageDistrusted, ImageLoaded, Loading
<1>8. CASE HandleRefused \/ HandleAstray \/ NotALoader \/ StartScan \/ ScanMiss \/ ScanHit
           \/ ScanEnds \/ Refuse \/ Boots \/ StartFails
  BY <1>8 DEF HandleRefused, HandleAstray, NotALoader, StartScan, Scan, ScanMiss, ScanOn,
              ScanHit, ScanEnds, Refuse, Boots, StartFails, StartFailsThen
<1>9. CASE LaunchReturns \/ CleanUp
  BY <1>9 DEF LaunchReturns, Freed, CleanUp, CleanUpClosing
<1> QED BY <1>1, <1>2, <1>3, <1>4, <1>5, <1>6, <1>7, <1>8, <1>9 DEF Next

(* The paths UefiMain makes. *)
LEMMA PathsAre ==
  ASSUME IInv
  PROVE  /\ \A r \in {"ini", "log"} :
              /\ HasDir => NameOf(OwnDirectory(r)) = r
              /\ (OwnDirectory(r) # Invalid) = HasDir
         /\ \A j \in 1 .. 3 :
              /\ HasDir => NameOf(OwnDirectory(Markers[j])) = Markers[j]
              /\ (OwnDirectory(Markers[j]) # Invalid) = HasDir
         /\ HasExt => BootManager # Invalid /\ NameOf(BootManager) = "boot"
         /\ NameOf(BootManager) \in Names
         /\ Len(Markers) = 3
<1>1. case \in Cases
  BY DEF IInv, Typed, Volume
<1>2. \A j \in 1 .. 3 : Markers[j] \in Beside
  BY DEF Markers, Beside
<1>3. {"ini", "log"} \subseteq Beside /\ Len(Markers) = 3
  BY DEF Beside, Markers
<1>4. \A r \in Beside :
        /\ HasDir => OwnDirectory(r) # Invalid /\ NameOf(OwnDirectory(r)) = r
        /\ ~HasDir => OwnDirectory(r) = Invalid
  BY <1>1, OwnDirectoryIs DEF HasDir
<1>5. HasExt => BootManager # Invalid /\ NameOf(BootManager) = "boot"
  BY <1>1, BootManagerIs DEF HasExt
<1>6. NameOf(BootManager) \in Names
  BY <1>1, NameOfTyped
<1> HIDE DEF HasDir, HasExt
<1>7. HasDir \in BOOLEAN /\ \A r : (OwnDirectory(r) # Invalid) \in BOOLEAN
  BY DEF HasDir, HasDirectory
<1>8. \A r \in Beside :
        /\ HasDir => NameOf(OwnDirectory(r)) = r
        /\ (OwnDirectory(r) # Invalid) = HasDir
  BY <1>4, <1>7
<1> QED BY <1>2, <1>3, <1>5, <1>6, <1>8

(* Each call is for one file, and the answer is awaited. *)
LEMMA CallingKept ==
  ASSUME IInv, Next
  PROVE  Calling'
<1> USE DEF IInv, Calling, Asking, Probing, At, Go, files, program, launching, HasDir, HasExt
<1>1. CASE FileStep
  <2>1. UNCHANGED <<case, pc, program, launching, routine, name>> /\ at # "idle"
    BY <1>1, InARoutine
  <2>2. CASE F!OpenFails \/ F!FileFound \/ F!OpenWorks \/ F!InfoUnavailable
          \/ F!InfoAllocated \/ F!InfoFails \/ F!InfoWorks \/ F!DeleteUninformed
          \/ F!DeleteDirectory \/ F!DeleteFile \/ F!ReadUninformed \/ F!BufferUnavailable
          \/ F!BufferAllocated \/ F!ReadFails \/ F!ReadWorks \/ F!ReadExit
    BY <2>1, <2>2 DEF F!OpenFails, F!FileFound, F!OpenWorks, F!Goto, F!Return,
        F!InfoUnavailable, F!InfoAllocated, F!InfoFails, F!InfoWorks, F!DeleteUninformed,
        F!DeleteDirectory, F!DeleteFile, F!ReadUninformed, F!BufferUnavailable,
        F!BufferAllocated, F!ReadFails, F!ReadWorks, F!ReadExit
  <2> QED BY <1>1, <2>2 DEF FileStep, F!Step
<1>2. CASE SetupFails \/ Setup \/ ImageNotLoaded \/ ImageDistrusted \/ ImageLoaded
        \/ HandleRefused \/ HandleAstray \/ NotALoader \/ StartScan \/ ScanMiss \/ ScanHit
        \/ ScanEnds \/ Refuse \/ Boots \/ StartFails \/ LaunchReturns \/ CleanUp
  BY <1>2 DEF SetupFails, Setup, ImageNotLoaded, ImageDistrusted, ImageLoaded, Loading,
      HandleRefused, HandleAstray, NotALoader, StartScan, Scan, ScanMiss, ScanOn, ScanHit,
      ScanEnds, Refuse, Boots, StartFails, StartFailsThen, LaunchReturns, CleanUp,
      CleanUpClosing
<1>3. CASE LookForIni \/ IniMissing \/ ReadIni \/ IniRead \/ IniUnparsable \/ IniParsed
  BY <1>3, PathsAre DEF LookForIni, CallOn, NoPath, IniMissing, Freed, ReadIni, CallAgain,
       IniRead, IniUnparsable, IniParsed, IniParsedThen, F!Begin
<1>4. CASE LookForMarker \/ MarkerLookedFor
  BY <1>4, PathsAre DEF LookForMarker, MarkerLookedFor, MarkerSeen, AfterMarker, CallOn, NoPath,
       F!Begin, Chosen
<1>5. CASE NoLog \/ ClearLog \/ CreateLog \/ LogNotOpened \/ LogOpened \/ Work
  BY <1>5, PathsAre DEF NoLog, ClearLog, CallOn, NoPath, CreateLog, CallAgain, LogNotOpened,
       LogOpened, LogOpenedAs, Work, F!Begin
<1>6. CASE LookForBootManager \/ NothingToLaunch
  BY <1>6, PathsAre DEF LookForBootManager, CallOn, NoPath, NothingToLaunch, F!Begin
<1> QED BY <1>1, <1>2, <1>3, <1>4, <1>5, <1>6 DEF Next

(* The markers that were found grow by one marker at a time. *)
LEMMA MarkedAre ==
  ASSUME NEW on
  PROVE  /\ MarkedUpTo(on, 1) = {} /\ "logfile" \notin MarkedUpTo(on, 4)
         /\ \A n \in 1 .. 3 :
              /\ Markers[n] \notin MarkedUpTo(on, n)
              /\ MarkedUpTo(on, n + 1) = MarkedUpTo(on, n)
                                        \cup IF on[Markers[n]] # "absent" THEN {Markers[n]} ELSE {}
         /\ MarkedUpTo(on, 4) = {Markers[j] : j \in {i \in 1 .. 3 : on[Markers[i]] # "absent"}}
<1>1. /\ \A n \in 1 .. 3 : Markers[n] \in Settings /\ Markers[n] # "logfile"
      /\ Markers[1] # Markers[2] /\ Markers[1] # Markers[3] /\ Markers[2] # Markers[3]
  BY DEF Markers, Settings
<1>2. MarkedUpTo(on, 1) = {} /\ "logfile" \notin MarkedUpTo(on, 4)
  BY <1>1 DEF MarkedUpTo
<1>3. \A n \in 1 .. 3 : Markers[n] \notin MarkedUpTo(on, n)
  BY <1>1 DEF MarkedUpTo
<1>4. ASSUME NEW n \in 1 .. 3
      PROVE  MarkedUpTo(on, n + 1) = MarkedUpTo(on, n)
               \cup IF on[Markers[n]] # "absent" THEN {Markers[n]} ELSE {}
  BY <1>1 DEF MarkedUpTo
<1>5. MarkedUpTo(on, 4) = {Markers[j] : j \in {i \in 1 .. 3 : on[Markers[i]] # "absent"}}
  BY <1>1 DEF MarkedUpTo
<1> QED BY <1>2, <1>3, <1>4, <1>5

(* What the markers say, and what the volume asks for. *)
LEMMA AskedIs ==
  ASSUME IInv
  PROVE  /\ Marked = MarkedUpTo(Files, 4)
         /\ Parsable = IniAnswers
         /\ ~HasDir => Asked = {}
         /\ HasDir /\ ~IniAnswers => Asked = Marked
         /\ FromIni => Asked = IF volume["log"] = "directory" THEN case.asked \ {"logfile"}
                                                            ELSE case.asked
<1>1. DOMAIN Markers = 1 .. 3
  BY DEF Markers
<1>2. Marked = MarkedUpTo(Files, 4)
  BY <1>1, Along, MarkedAre DEF Marked
<1>3. Parsable = IniAnswers
  BY Along DEF Parsable, IniAnswers
<1> QED BY <1>2, <1>3 DEF Asked, HasDir, FromIni

-----------------------------------------------------------------------------
(* Each part of the invariant is kept by every step.                       *)

(* UefiMain's variables stay in their ranges. *)
LEMMA ProgramTypedKept ==
  ASSUME IInv, Next
  PROVE  ProgramTyped'
<1>0. strings' \in 0 .. 2
  <2>1. strings' = 0 \/ strings' = 1 \/ strings' = 2
    BY StringsKept DEF Strings
  <2> QED BY <2>1
<1>1. CASE FileStep
  BY <1>1, InARoutine DEF IInv, Typed, ProgramTyped, program, launching
<1>2. CASE ~FileStep
  <2> USE DEF IInv, Typed, ProgramTyped, At, Go, files, program, launching, Next, SetupFails,
      Setup, LookForIni, CallOn, NoPath, IniMissing, Freed, ReadIni, CallAgain, F!Begin,
      IniRead, IniUnparsable, IniParsed, IniParsedThen, Parsable, LookForMarker, AfterMarker,
      MarkerLookedFor, MarkerSeen, NoLog, ClearLog, Work, CreateLog, LogNotOpened, LogOpened,
      LogOpenedAs, LookForBootManager, NothingToLaunch, ImageNotLoaded, ImageDistrusted,
      ImageLoaded, Loading, F!Present, HandleRefused, HandleAstray, NotALoader, StartScan,
      Scan, ScanMiss, ScanOn, GuidAt, ScanHit, ScanEnds, ScanLimit, Refuse, Boots, StartFails,
      StartFailsThen, LaunchReturns, CleanUp, CleanUpClosing
  <2>1. pc' \in {"setup", "config", "ini", "reading", "parse", "marker", "marked", "log",
                "clearing", "creating", "keys", "exit", "looking", "check", "scan",
                "refuse", "start", "after", "cleanup", "booted", "returned"}
    BY <1>2
  <2>2. known' \in BOOLEAN /\ root' \in BOOLEAN /\ logHandle' \in BOOLEAN
    BY <1>2
  <2>9. devicePath' \in BOOLEAN
    BY <1>2
  <2>3. settings' \subseteq Settings
    BY <1>2, Types, Along, MarkersAre
  <2>4. k' \in 1 .. Len(Markers) + 1
    BY <1>2, Along, MarkersAre
  <2>5. handle' \in {"unset", "image", "other"}
    BY <1>2
  <2>6. image' \in {"none", "loaded", "distrusted", "unloaded", "started", "exited"}
    BY <1>2
  <2>7. looked' \in Images
    BY <1>2
  <2>8. address' \in Nat
    BY <1>2, SizesAssumption
  <2> QED BY <2>1, <2>2, <2>3, <2>4, <2>5, <2>6, <2>7, <2>8, <2>9, <1>0
<1> QED BY <1>1, <1>2

(* Filesystem's variables stay in their ranges; what is counted never      *)
(* falls below 0.                                                          *)
LEMMA FilesTypedKept ==
  ASSUME IInv, Next
  PROVE  FilesTyped'
<1> USE DEF IInv, Typed, FilesTyped, F!TypeOK, files, program, launching
<1>1. CASE FileStep
  <2> USE DEF FileStep, F!Step, F!OpenFails, F!Goto, F!Return, F!Present, F!resources,
      F!FileFound, F!OpenWorks, F!Held, F!InfoUnavailable, F!InfoAllocated, F!InfoFails,
      F!InfoWorks, F!Fault, F!DeleteUninformed, F!DeleteDirectory, F!DeleteFile,
      F!ReadUninformed, F!BufferUnavailable, F!BufferAllocated, F!ReadFails, F!ReadWorks,
      F!ReadExit, F!FreeContents
  <2>1. volume' \in [Names -> F!Kinds]
    BY <1>1, InARoutine DEF F!Kinds
  <2>2. handles' \in [Names -> Nat]
    BY <1>1, InARoutine, Along DEF Opened, Probing
  <2>3. infos' \in Nat
    BY <1>1, InARoutine, Along
  <2>4. buffers' \in Nat
    BY <1>1, InARoutine DEF Memory, Calling, Asking, Probing
  <2>5. contents' \in {"unset", "NULL", "buffer"}
    BY <1>1, InARoutine
  <2>6. routine' \in F!Routines \cup {"none"}
    BY <1>1, InARoutine
  <2>7. name' \in Names \cup {"none"}
    BY <1>1, InARoutine
  <2>8. at' \in {"idle", "open", "probe", "info", "informed", "uninformed", "read",
                "exit", "exit_unopened"}
    BY <1>1, InARoutine
  <2>9. answer' \in BOOLEAN /\ stray' \in BOOLEAN /\ faulted' \in BOOLEAN
    BY <1>1, InARoutine
  <2> QED BY <2>1, <2>2, <2>3, <2>4, <2>5, <2>6, <2>7, <2>8, <2>9
<1>2. CASE ~FileStep
  <2> USE DEF At, Go, Next, SetupFails, Setup, LookForIni, CallOn, NoPath, IniMissing, Freed,
      ReadIni, CallAgain, F!Begin, IniRead, IniUnparsable, IniParsed, IniParsedThen, Parsable,
      LookForMarker, AfterMarker, MarkerLookedFor, MarkerSeen, NoLog, ClearLog, Work,
      CreateLog, LogNotOpened, LogOpened, LogOpenedAs, LookForBootManager, NothingToLaunch,
      ImageNotLoaded, ImageDistrusted, ImageLoaded, Loading, F!Present, HandleRefused,
      HandleAstray, NotALoader, StartScan, Scan, ScanMiss, ScanOn, GuidAt, ScanHit, ScanEnds,
      ScanLimit, Refuse, Boots, StartFails, StartFailsThen, LaunchReturns, CleanUp,
      CleanUpClosing
  <2>1. volume' \in [Names -> F!Kinds]
    BY <1>2
  <2>2. handles' \in [Names -> Nat]
    BY <1>2 DEF Handles, LogUsed, After, Calling
  <2>3. infos' \in Nat
    BY <1>2
  <2>4. buffers' \in Nat
    BY <1>2 DEF Memory
  <2>5. contents' \in {"unset", "NULL", "buffer"}
    BY <1>2
  <2>6. routine' \in F!Routines \cup {"none"}
    BY <1>2 DEF F!Routines
  <2>7. name' \in Names \cup {"none"}
    <3>1. CASE LookForIni \/ ClearLog
      BY <3>1, Types, PathsAre
    <3>2. CASE LookForMarker
      <4>1. k \in 1 .. 3 /\ (name' = name \/ (name' = NameOf(OwnDirectory(Markers[k])) /\ HasDir))
        BY <3>2, PathsAre, Along
      <4> QED BY <4>1, PathsAre, MarkersAre
    <3>3. CASE LookForBootManager
      BY <3>3, PathsAre
    <3>4. CASE ~(LookForIni \/ ClearLog \/ LookForMarker \/ LookForBootManager)
      <4>1. name' = name
        BY <1>2, <3>4
      <4> QED BY <4>1
    <3> QED BY <3>1, <3>2, <3>3, <3>4
  <2>8. at' \in {"idle", "open", "probe", "info", "informed", "uninformed", "read",
                "exit", "exit_unopened"}
    BY <1>2
  <2>9. answer' \in BOOLEAN /\ stray' \in BOOLEAN /\ faulted' \in BOOLEAN
    BY <1>2
  <2> QED BY <2>1, <2>2, <2>3, <2>4, <2>5, <2>6, <2>7, <2>8, <2>9
<1> QED BY <1>1, <1>2

(* Only the log is ever written, and only a stray handle leads elsewhere. *)
LEMMA VolumeKept ==
  ASSUME IInv, Next
  PROVE  Volume'
<1> USE DEF IInv, Typed, Volume, Calling, Asking, Files, At, Go, files, program, launching
<1>1. CASE FileStep
  <2>1. /\ UNCHANGED <<case, pc, program, launching, routine, name>> /\ at # "idle"
        /\ (faulted => faulted')
    BY <1>1, InARoutine
  <2>2. CASE F!OpenFails \/ F!InfoUnavailable \/ F!InfoAllocated \/ F!InfoFails
          \/ F!InfoWorks \/ F!ReadUninformed \/ F!BufferUnavailable \/ F!BufferAllocated
          \/ F!ReadFails \/ F!ReadWorks \/ F!ReadExit
    BY <2>1, <2>2 DEF F!OpenFails, F!Goto, F!Return, F!Present, F!resources, F!InfoUnavailable,
        F!InfoAllocated, F!InfoFails, F!InfoWorks, F!Fault, F!ReadUninformed,
        F!BufferUnavailable, F!BufferAllocated, F!ReadFails, F!ReadWorks, F!ReadExit, F!Held,
        F!FreeContents
  <2>3. CASE F!FileFound \/ F!OpenWorks
    BY <2>1, <2>3, Types DEF F!FileFound, F!OpenWorks, F!Goto, F!Return, F!Present,
        F!Held, F!resources
  <2>4. CASE F!DeleteUninformed \/ F!DeleteDirectory \/ F!DeleteFile
    BY <2>1, <2>4, Types DEF F!DeleteUninformed, F!DeleteDirectory, F!DeleteFile,
        F!Return, F!Held, F!Fault, F!resources
  <2> QED BY <1>1, <2>2, <2>3, <2>4 DEF FileStep, F!Step
<1>2. CASE SetupFails \/ Setup \/ LookForIni \/ IniMissing \/ ReadIni \/ IniRead
        \/ IniUnparsable \/ IniParsed \/ LookForMarker \/ MarkerLookedFor \/ NoLog
        \/ ClearLog \/ Work
  BY <1>2 DEF SetupFails, Setup, LookForIni, CallOn, NoPath, IniMissing, Freed, ReadIni,
      CallAgain, F!Begin, IniRead, IniUnparsable, IniParsed, IniParsedThen, Parsable,
      LookForMarker, AfterMarker, MarkerLookedFor, MarkerSeen, NoLog, ClearLog, Work
<1>3. CASE CreateLog \/ LogNotOpened \/ LogOpened \/ LookForBootManager \/ NothingToLaunch
        \/ ImageNotLoaded \/ ImageDistrusted \/ ImageLoaded
  BY <1>3 DEF CreateLog, CallAgain, LogNotOpened, Freed, F!Begin, LogOpened, LogOpenedAs,
      LookForBootManager, CallOn, NoPath, NothingToLaunch, ImageNotLoaded, ImageDistrusted,
      ImageLoaded, Loading, F!Present, Image, Early, Before
<1>4. CASE HandleRefused \/ HandleAstray \/ NotALoader \/ StartScan \/ ScanMiss \/ ScanHit
        \/ ScanEnds \/ Refuse \/ Boots \/ StartFails \/ LaunchReturns \/ CleanUp
  BY <1>4 DEF HandleRefused, HandleAstray, NotALoader, StartScan, Scan, ScanMiss, ScanOn,
      GuidAt, ScanHit, ScanEnds, ScanLimit, Refuse, Boots, StartFails, StartFailsThen,
      LaunchReturns, Freed, CleanUp, CleanUpClosing
<1> QED BY <1>1, <1>2, <1>3, <1>4 DEF Next

(* An answer tells the truth about the volume, or something failed. *)
LEMMA AnsweredKept ==
  ASSUME IInv, Next
  PROVE  Answered'
<1> USE DEF IInv, Answered, Calling, Asking, Memory, Probing, HasDir, IniAnswers, Files, At,
    Go, files, program, launching
<1>1. CASE FileStep
  <2>1. /\ UNCHANGED <<case, pc, program, launching, routine, name>> /\ at # "idle"
        /\ (faulted => faulted')
    BY <1>1, InARoutine
  <2>2. CASE F!OpenFails
    BY <2>1, <2>2, Along DEF F!OpenFails, F!Goto, F!Return, F!Present,
        F!resources
  <2>3. CASE F!FileFound \/ F!OpenWorks
    BY <2>1, <2>3, Along DEF F!FileFound, F!OpenWorks, F!Goto, F!Return,
        F!Present, F!Held, F!resources
  <2>4. CASE F!InfoUnavailable \/ F!InfoAllocated \/ F!InfoFails \/ F!InfoWorks
          \/ F!DeleteUninformed \/ F!DeleteDirectory \/ F!DeleteFile \/ F!ReadUninformed
          \/ F!BufferUnavailable \/ F!BufferAllocated
    BY <2>1, <2>4 DEF F!InfoUnavailable, F!InfoAllocated, F!InfoFails, F!InfoWorks, F!Goto,
        F!Fault, F!resources, F!DeleteUninformed, F!DeleteDirectory, F!DeleteFile, F!Return,
        F!Held, F!ReadUninformed, F!BufferUnavailable, F!BufferAllocated
  <2>5. CASE F!ReadFails \/ F!ReadWorks \/ F!ReadExit
    BY <2>1, <2>5, Along DEF F!ReadFails, F!ReadWorks, F!ReadExit, F!Goto,
        F!Return, F!Held, F!FreeContents, F!resources
  <2> QED BY <1>1, <2>2, <2>3, <2>4, <2>5 DEF FileStep, F!Step
<1>2. CASE SetupFails \/ Setup \/ MarkerLookedFor \/ NoLog \/ ClearLog \/ Work \/ CreateLog
        \/ LogNotOpened \/ LogOpened \/ LookForBootManager \/ NothingToLaunch
  BY <1>2 DEF SetupFails, Setup, MarkerLookedFor, MarkerSeen, AfterMarker, Freed, NoLog,
      ClearLog, CallOn, NoPath, Work, F!Begin, CreateLog, CallAgain, LogNotOpened, LogOpened,
      LogOpenedAs, LookForBootManager, NothingToLaunch
<1>3. CASE LookForIni \/ IniMissing \/ ReadIni
  BY <1>3, PathsAre DEF LookForIni, CallOn, NoPath, IniMissing,
      Freed, ReadIni, CallAgain, F!Begin
<1>4. CASE IniRead \/ IniUnparsable \/ IniParsed
  BY <1>4, Along DEF IniRead, Freed, IniUnparsable, IniParsed,
      IniParsedThen, Parsable
<1>5. CASE LookForMarker
  BY <1>5, PathsAre, Along DEF LookForMarker, AfterMarker, CallOn, NoPath,
      F!Begin
<1>6. CASE ImageNotLoaded \/ ImageDistrusted \/ ImageLoaded \/ HandleRefused \/ HandleAstray
        \/ NotALoader \/ StartScan \/ ScanMiss \/ ScanHit \/ ScanEnds \/ Refuse \/ Boots
        \/ StartFails
  BY <1>6 DEF ImageNotLoaded, ImageDistrusted, ImageLoaded, Loading, F!Present, HandleRefused,
      HandleAstray, NotALoader, StartScan, Scan, ScanMiss, ScanOn, GuidAt, ScanHit, ScanEnds,
      ScanLimit, Refuse, Boots, StartFails, StartFailsThen
<1>7. CASE LaunchReturns \/ CleanUp
  BY <1>7 DEF LaunchReturns, Freed, CleanUp, CleanUpClosing
<1> QED BY <1>1, <1>2, <1>3, <1>4, <1>5, <1>6, <1>7 DEF Next

(* Only the log is open beyond a call, and it is open if logging is on. *)
LEMMA HandlesKept ==
  ASSUME IInv, Next
  PROVE  Handles'
<1> USE DEF IInv, Handles, Calling, Asking, Opened, LogUsed, LogBad, Before, After, Probing,
    Files, At, Go, files, program, launching
<1>1. CASE FileStep
  <2>1. /\ UNCHANGED <<case, pc, program, launching, routine, name>> /\ at # "idle"
        /\ (faulted => faulted')
    BY <1>1, InARoutine
  <2>2. CASE F!OpenFails \/ F!InfoUnavailable \/ F!InfoAllocated \/ F!InfoFails
          \/ F!InfoWorks \/ F!ReadUninformed \/ F!BufferUnavailable \/ F!BufferAllocated
    BY <2>1, <2>2 DEF F!OpenFails, F!Goto, F!Return, F!Present, F!resources, F!InfoUnavailable,
        F!InfoAllocated, F!InfoFails, F!InfoWorks, F!Fault, F!ReadUninformed,
        F!BufferUnavailable, F!BufferAllocated
  <2>3. CASE F!FileFound \/ F!OpenWorks
    BY <2>1, <2>3, Types DEF F!FileFound, F!OpenWorks, F!Goto, F!Return,
        F!Present, F!Held, F!resources, F!Kinds
  <2>4. CASE F!DeleteUninformed \/ F!DeleteDirectory \/ F!DeleteFile
    BY <2>1, <2>4, Types DEF F!DeleteUninformed, F!DeleteDirectory,
        F!DeleteFile, F!Return, F!Held, F!Fault, F!resources
  <2>5. CASE F!ReadFails \/ F!ReadWorks \/ F!ReadExit
    BY <2>1, <2>5, Types DEF F!ReadFails, F!ReadWorks, F!ReadExit, F!Goto,
        F!Return, F!Held, F!FreeContents, F!resources
  <2> QED BY <1>1, <2>2, <2>3, <2>4, <2>5 DEF FileStep, F!Step
<1>2. CASE SetupFails \/ Setup
  BY <1>2, Along DEF SetupFails, Setup
<1>3. CASE LookForIni \/ IniMissing \/ ReadIni \/ IniRead \/ IniUnparsable \/ IniParsed
        \/ LookForMarker \/ MarkerLookedFor \/ NoLog \/ ClearLog \/ Work
        \/ LookForBootManager \/ NothingToLaunch
  BY <1>3 DEF LookForIni, CallOn, NoPath, IniMissing, Freed, ReadIni, CallAgain, F!Begin,
      IniRead, IniUnparsable, IniParsed, IniParsedThen, Parsable, LookForMarker, AfterMarker,
      MarkerLookedFor, MarkerSeen, NoLog, ClearLog, Work, LookForBootManager, NothingToLaunch
<1>4. CASE CreateLog \/ LogNotOpened
  BY <1>4, Along DEF CreateLog, CallAgain, LogNotOpened, Freed, F!Begin
<1>5. CASE LogOpened
  BY <1>5, Types, Along DEF LogOpened, LogOpenedAs, Freed, F!Kinds
<1>6. CASE ImageNotLoaded \/ ImageDistrusted \/ ImageLoaded \/ HandleRefused \/ HandleAstray
        \/ NotALoader \/ StartScan \/ ScanMiss \/ ScanHit \/ ScanEnds \/ Refuse \/ Boots
        \/ StartFails
  BY <1>6 DEF ImageNotLoaded, ImageDistrusted, ImageLoaded, Loading, F!Present, HandleRefused,
      HandleAstray, NotALoader, StartScan, Scan, ScanMiss, ScanOn, GuidAt, ScanHit, ScanEnds,
      ScanLimit, Refuse, Boots, StartFails, StartFailsThen
<1>7. CASE LaunchReturns \/ CleanUp
  BY <1>7, Types DEF LaunchReturns, Freed, CleanUp, CleanUpClosing
<1> QED BY <1>1, <1>2, <1>3, <1>4, <1>5, <1>6, <1>7 DEF Next

(* Only the contents of the ini file and the information on the log are    *)
(* kept.                                                                   *)
LEMMA MemoryKept ==
  ASSUME IInv, Next
  PROVE  Memory'
<1> USE DEF IInv, Memory, Calling, Asking, Before, Probing, Files, IniAnswers, At, Go, files,
    program, launching
<1>1. CASE FileStep
  <2>1. /\ UNCHANGED <<case, pc, program, launching, routine, name>> /\ at # "idle"
        /\ (faulted => faulted')
    BY <1>1, InARoutine
  <2>2. CASE F!OpenFails
    BY <2>1, <2>2, Along DEF F!OpenFails, F!Goto, F!Return, F!Present,
        F!resources
  <2>3. CASE F!FileFound \/ F!OpenWorks \/ F!InfoUnavailable \/ F!InfoAllocated
          \/ F!InfoFails \/ F!InfoWorks
    BY <2>1, <2>3 DEF F!FileFound, F!OpenWorks, F!Goto, F!Return, F!Present, F!Held,
        F!resources, F!InfoUnavailable, F!InfoAllocated, F!InfoFails, F!InfoWorks, F!Fault
  <2>4. CASE F!DeleteUninformed \/ F!DeleteDirectory \/ F!DeleteFile \/ F!ReadUninformed
          \/ F!BufferUnavailable \/ F!BufferAllocated
    BY <2>1, <2>4 DEF F!DeleteUninformed, F!DeleteDirectory, F!DeleteFile, F!Return, F!Held,
        F!Fault, F!resources, F!ReadUninformed, F!BufferUnavailable, F!BufferAllocated, F!Goto
  <2>5. CASE F!ReadFails \/ F!ReadWorks \/ F!ReadExit
    BY <2>1, <2>5 DEF F!ReadFails, F!ReadWorks, F!ReadExit, F!Goto, F!Return, F!Held,
        F!FreeContents, F!resources
  <2> QED BY <1>1, <2>2, <2>3, <2>4, <2>5 DEF FileStep, F!Step
<1>2. CASE SetupFails \/ Setup \/ LookForIni \/ IniMissing \/ ReadIni
  BY <1>2 DEF SetupFails, Setup, LookForIni, CallOn, NoPath, IniMissing, Freed, ReadIni,
      CallAgain, F!Begin
<1>3. CASE IniRead \/ IniUnparsable \/ IniParsed
  BY <1>3, Types, Along DEF IniRead, Freed, IniUnparsable, IniParsed,
      IniParsedThen, Parsable
<1>4. CASE MarkerLookedFor \/ CreateLog \/ LogNotOpened \/ LogOpened
  BY <1>4 DEF MarkerLookedFor, MarkerSeen, AfterMarker, Freed, CreateLog, CallAgain,
      LogNotOpened, F!Begin, LogOpened, LogOpenedAs
<1>5. CASE NoLog \/ ClearLog \/ Work
  BY <1>5, Types DEF NoLog, ClearLog, CallOn, NoPath, Work, F!Begin
<1>6. CASE LookForBootManager \/ NothingToLaunch
  BY <1>6, Types DEF LookForBootManager, CallOn, NoPath,
      NothingToLaunch, F!Begin
<1>7. CASE ImageNotLoaded \/ ImageDistrusted \/ ImageLoaded
  BY <1>7, Types DEF ImageNotLoaded, ImageDistrusted, ImageLoaded, Loading,
      F!Present
<1>8. CASE HandleRefused \/ HandleAstray \/ NotALoader \/ StartScan \/ ScanMiss \/ ScanHit
        \/ ScanEnds
  BY <1>8 DEF HandleRefused, HandleAstray, NotALoader, StartScan, Scan, ScanMiss, ScanOn,
      GuidAt, ScanHit, ScanEnds, ScanLimit
<1>9. CASE Refuse \/ Boots \/ StartFails \/ LaunchReturns \/ CleanUp
  BY <1>9 DEF Refuse, Boots, StartFails, StartFailsThen, LaunchReturns, Freed, CleanUp,
      CleanUpClosing
<1>10. CASE LookForMarker
  BY <1>10 DEF LookForMarker, CallOn, NoPath, AfterMarker, F!Begin
<1> QED BY <1>1, <1>2, <1>3, <1>4, <1>5, <1>6, <1>7, <1>8, <1>9, <1>10 DEF Next

(* The handle and the image go together until Launch is over. *)
LEMMA ImageKept ==
  ASSUME IInv, Next
  PROVE  Image'
<1> USE DEF IInv, Image, Early, Before, At, Go, files, program, launching
<1>1. CASE FileStep
  BY <1>1, InARoutine
<1>2. CASE SetupFails \/ Setup \/ LookForIni \/ IniMissing \/ ReadIni \/ IniRead
        \/ IniUnparsable \/ IniParsed \/ LookForMarker \/ MarkerLookedFor \/ NoLog
        \/ ClearLog \/ Work
  BY <1>2 DEF SetupFails, Setup, LookForIni, CallOn, NoPath, IniMissing, Freed, ReadIni,
      CallAgain, F!Begin, IniRead, IniUnparsable, IniParsed, IniParsedThen, Parsable,
      LookForMarker, AfterMarker, MarkerLookedFor, MarkerSeen, NoLog, ClearLog, Work
<1>3. CASE CreateLog \/ LogNotOpened \/ LogOpened \/ LookForBootManager \/ NothingToLaunch
        \/ ImageNotLoaded \/ ImageDistrusted \/ ImageLoaded \/ HandleRefused \/ HandleAstray
        \/ NotALoader \/ StartScan
  BY <1>3 DEF CreateLog, CallAgain, LogNotOpened, Freed, F!Begin, LogOpened, LogOpenedAs,
      LookForBootManager, CallOn, NoPath, NothingToLaunch, ImageNotLoaded, ImageDistrusted,
      ImageLoaded, Loading, F!Present, HandleRefused, HandleAstray, NotALoader, StartScan, Scan
<1>4. CASE ScanMiss \/ ScanHit \/ ScanEnds \/ Refuse \/ Boots \/ StartFails \/ LaunchReturns
        \/ CleanUp
  BY <1>4 DEF ScanMiss, ScanOn, GuidAt, ScanHit, ScanEnds, ScanLimit, Refuse, Boots,
      StartFails, StartFailsThen, LaunchReturns, Freed, CleanUp, CleanUpClosing
<1> QED BY <1>1, <1>2, <1>3, <1>4 DEF Next

(* The scan leaves no mark behind. *)
LEMMA PassedKept ==
  ASSUME IInv, Next
  PROVE  Passed'
<1> USE DEF IInv, Image, Passed, Early, Before, At, Go, files, program, launching
<1>1. CASE FileStep
  BY <1>1, InARoutine
<1>2. CASE SetupFails \/ Setup \/ LookForIni \/ IniMissing \/ ReadIni \/ IniRead
        \/ IniUnparsable \/ IniParsed \/ LookForMarker \/ MarkerLookedFor \/ NoLog
        \/ ClearLog \/ Work
  BY <1>2 DEF SetupFails, Setup, LookForIni, CallOn, NoPath, IniMissing, Freed, ReadIni,
      CallAgain, F!Begin, IniRead, IniUnparsable, IniParsed, IniParsedThen, Parsable,
      LookForMarker, AfterMarker, MarkerLookedFor, MarkerSeen, NoLog, ClearLog, Work
<1>3. CASE CreateLog \/ LogNotOpened \/ LogOpened \/ LookForBootManager \/ NothingToLaunch
        \/ ImageNotLoaded \/ ImageDistrusted \/ ImageLoaded \/ Refuse \/ Boots \/ StartFails
  BY <1>3 DEF CreateLog, CallAgain, LogNotOpened, Freed, F!Begin, LogOpened, LogOpenedAs,
      LookForBootManager, CallOn, NoPath, NothingToLaunch, ImageNotLoaded, ImageDistrusted,
      ImageLoaded, Loading, F!Present, Refuse, Boots, StartFails, StartFailsThen
<1>4. CASE HandleRefused \/ HandleAstray \/ NotALoader \/ StartScan
  <2>1. HandleAstray => Passed'
    BY FaultsStay DEF HandleAstray
  <2>2. StartScan => Passed'
    BY FaultsStay, Types, MarksAre DEF StartScan, Scan
  <2>3. HandleRefused \/ NotALoader => Passed'
    BY FaultsStay DEF HandleRefused, NotALoader
  <2> QED BY <1>4, <2>1, <2>2, <2>3
<1>5. CASE ScanMiss
  <2> DEFINE x == address - ImageBase
  <2>1. x \in Nat /\ Aligned(x) /\ Word \in Nat /\ address' = address + Word
    BY <1>5, Types, SizesAssumption DEF ScanMiss, ScanOn
  <2>2. address' - ImageBase = x + Word /\ address' >= ImageBase
    BY <2>1, Types, SizesAssumption
  <2>3. x \notin looked.guids /\ looked' = looked /\ pc' = "scan" /\ pc = "scan"
    BY <1>5 DEF ScanMiss, ScanOn, GuidAt
  <2>4. \A g \in Marks(looked) : g \in Nat /\ Aligned(g) /\ g >= x /\ g # x
    BY <2>3, Types, MarksAre
  <2> HIDE DEF x
  <2>5. \A g \in Marks(looked) : g >= x + Word
    BY <2>1, <2>4, NextPlace
  <2>6. Aligned(x + Word)
    BY <2>1, NextPlace
  <2> QED BY <2>2, <2>3, <2>5, <2>6
<1>6. CASE ScanHit \/ ScanEnds
  <2>1. ScanEnds => Passed'
    BY FaultsStay DEF ScanEnds
  <2>2. ScanHit => address - ImageBase \in Marks(looked)
    BY FaultsStay, Types, ImagesAssumption, SizesAssumption DEF ScanHit, GuidAt, ScanLimit, Marks
  <2>3. ScanHit => Passed'
    BY <2>2 DEF ScanHit
  <2> QED BY <1>6, <2>1, <2>3
<1>7. CASE LaunchReturns \/ CleanUp
  BY <1>7 DEF LaunchReturns, Freed, CleanUp, CleanUpClosing
<1> QED BY <1>1, <1>2, <1>3, <1>4, <1>5, <1>6, <1>7 DEF Next

(* Only a failure, or no image at all, lets what was never set be used. *)
LEMMA StraysKept ==
  ASSUME IInv, Next
  PROVE  Strays'
<1> USE DEF IInv, Strays, Image, Early, Before, At, Go, files, program, launching
<1>1. CASE FileStep
  <2>1. /\ UNCHANGED <<case, pc, program, launching, routine, name>> /\ at # "idle"
        /\ (faulted => faulted')
    BY <1>1, InARoutine
  <2>2. CASE F!OpenFails \/ F!FileFound \/ F!OpenWorks \/ F!InfoUnavailable
          \/ F!InfoAllocated \/ F!InfoFails \/ F!InfoWorks \/ F!DeleteUninformed
          \/ F!DeleteDirectory \/ F!DeleteFile \/ F!ReadUninformed \/ F!BufferUnavailable
          \/ F!BufferAllocated
    BY <2>1, <2>2 DEF F!OpenFails, F!Goto, F!Return, F!Present, F!resources, F!FileFound,
        F!OpenWorks, F!Held, F!InfoUnavailable, F!InfoAllocated, F!InfoFails, F!InfoWorks,
        F!Fault, F!DeleteUninformed, F!DeleteDirectory, F!DeleteFile, F!ReadUninformed,
        F!BufferUnavailable, F!BufferAllocated
  <2>3. CASE F!ReadFails \/ F!ReadWorks \/ F!ReadExit
    BY <2>1, <2>3, Types, Along DEF F!ReadFails, F!ReadWorks, F!ReadExit, F!Goto,
        F!Return, F!Held, F!FreeContents, F!resources
  <2> QED BY <1>1, <2>2, <2>3 DEF FileStep, F!Step
<1>2. CASE SetupFails \/ Setup \/ MarkerLookedFor \/ CreateLog \/ LogNotOpened \/ LogOpened
        \/ HandleRefused \/ HandleAstray \/ NotALoader \/ StartScan \/ ScanMiss
  BY <1>2 DEF SetupFails, Setup, MarkerLookedFor, MarkerSeen, AfterMarker, Freed, CreateLog,
      CallAgain, LogNotOpened, F!Begin, LogOpened, LogOpenedAs, HandleRefused, HandleAstray,
      NotALoader, StartScan, Scan, ScanMiss, ScanOn, GuidAt
<1>3. CASE LookForIni \/ IniMissing \/ ReadIni
  BY <1>3, Types DEF LookForIni, CallOn, NoPath, IniMissing,
      Freed, ReadIni, CallAgain, F!Begin
<1>4. CASE IniRead \/ IniUnparsable \/ IniParsed
  BY <1>4, Types DEF IniRead, Freed, IniUnparsable, IniParsed,
      IniParsedThen, Parsable
<1>5. CASE LookForMarker
  BY <1>5, Types DEF LookForMarker, AfterMarker, CallOn, NoPath,
      F!Begin
<1>6. CASE NoLog \/ ClearLog \/ Work
  BY <1>6, Types DEF NoLog, ClearLog, CallOn, NoPath, Work,
      F!Begin
<1>7. CASE LookForBootManager \/ NothingToLaunch
  BY <1>7, Types DEF LookForBootManager, CallOn, NoPath,
      NothingToLaunch, F!Begin
<1>8. CASE ImageNotLoaded \/ ImageDistrusted \/ ImageLoaded
  BY <1>8, Types DEF ImageNotLoaded, ImageDistrusted, ImageLoaded, Loading,
      F!Present
<1>9. CASE ScanHit \/ ScanEnds \/ Refuse \/ Boots \/ StartFails \/ LaunchReturns \/ CleanUp
  BY <1>9 DEF ScanHit, ScanEnds, ScanLimit, GuidAt, Refuse, Boots, StartFails, StartFailsThen,
      LaunchReturns, Freed, CleanUp, CleanUpClosing
<1> QED BY <1>1, <1>2, <1>3, <1>4, <1>5, <1>6, <1>7, <1>8, <1>9 DEF Next

(* Without a failure a genuine boot manager is not turned away. *)
LEMMA HopefulKept ==
  ASSUME IInv, Next
  PROVE  Hopeful'
<1>0. Wanted' => Wanted /\ ~faulted'
  BY FaultsStay DEF Wanted, HasExt, Files
<1> USE DEF IInv, Hopeful, Image, Strays, At, Go, files, program, launching
<1>1. CASE FileStep
  BY <1>0, <1>1, InARoutine
<1>2. CASE SetupFails \/ Setup
  BY <1>2, <1>0 DEF SetupFails, Setup
<1>3. CASE LookForIni \/ IniMissing \/ ReadIni
  BY <1>3, <1>0 DEF LookForIni, CallOn, NoPath, IniMissing, Freed,
      ReadIni, CallAgain, F!Begin
<1>4. CASE IniRead \/ IniUnparsable \/ IniParsed
  BY <1>4, <1>0 DEF IniRead, Freed, IniUnparsable, IniParsed, IniParsedThen,
      Parsable
<1>5. CASE LookForMarker
  BY <1>5, <1>0 DEF LookForMarker, AfterMarker, CallOn, NoPath, F!Begin
<1>6. CASE MarkerLookedFor
  BY <1>6, <1>0 DEF MarkerLookedFor, MarkerSeen, AfterMarker, Freed
<1>7. CASE NoLog \/ ClearLog \/ Work
  BY <1>7, <1>0 DEF NoLog, ClearLog, CallOn, NoPath, Work, F!Begin
<1>8. CASE CreateLog \/ LogNotOpened
  BY <1>8, <1>0 DEF CreateLog, CallAgain, LogNotOpened, Freed, F!Begin
<1>9. CASE LogOpened
  BY <1>9, <1>0 DEF LogOpened, LogOpenedAs, Freed
<1>10. CASE LookForBootManager \/ NothingToLaunch
  BY <1>10, <1>0, PathsAre DEF LookForBootManager, CallOn, NoPath, NothingToLaunch,
      F!Begin, Strings, Wanted
<1>11. CASE ImageNotLoaded \/ ImageDistrusted \/ ImageLoaded
  <2>1. Wanted => volume[name] = "file"
    BY <1>11, Along DEF Wanted, Calling, Loading, ImageNotLoaded, ImageDistrusted, ImageLoaded
  <2> QED BY <1>0, <1>11, <2>1
          DEF ImageNotLoaded, ImageDistrusted, ImageLoaded, Loading
<1>12. CASE HandleRefused \/ HandleAstray \/ NotALoader \/ StartScan
  <2>1. Wanted /\ pc = "check" => looked = case.boot /\ handle = "image"
    BY DEF Typed, Volume
  <2>2. Wanted => case.boot.loader /\ case.boot.size # 0
    BY Types, GenuineIs DEF Wanted
  <2> QED BY <1>0, <1>12, <2>1, <2>2
          DEF HandleRefused, HandleAstray, NotALoader, StartScan, Scan
<1>13. CASE ScanMiss
  BY <1>13, <1>0 DEF ScanMiss, ScanOn, GuidAt
<1>14. CASE ScanHit \/ ScanEnds
  <2>1. ScanHit => Hopeful'
    BY <1>0 DEF ScanHit
  <2>2. ScanEnds => ~Wanted
    <3> SUFFICES ASSUME ScanEnds, Wanted PROVE FALSE
      OBVIOUS
    <3>1. looked = case.boot
      BY DEF ScanEnds, Typed, Volume
    <3>2. PICK g \in Nat : g \in Marks(looked) /\ g + GuidSize < looked.size
      BY <3>1, Types, GenuineIs DEF Wanted
    <3>3. g >= address - ImageBase
      BY <3>2 DEF ScanEnds, Passed
    <3>4. address >= ImageBase + looked.size - GuidSize
      BY DEF ScanEnds, ScanLimit
    <3>5. looked.size \in Nat
      BY Types, ImagesAssumption
    <3> QED BY <3>2, <3>3, <3>4, <3>5, Types, SizesAssumption
  <2> QED BY <1>0, <1>14, <2>1, <2>2 DEF ScanEnds
<1>15. CASE Refuse \/ Boots \/ StartFails
  BY <1>15, <1>0 DEF Refuse, Boots, StartFails, StartFailsThen
<1>16. CASE LaunchReturns \/ CleanUp
  BY <1>16, <1>0 DEF LaunchReturns, Freed, CleanUp, CleanUpClosing
<1> QED BY <1>1, <1>2, <1>3, <1>4, <1>5, <1>6, <1>7, <1>8, <1>9, <1>10, <1>11, <1>12, <1>13,
    <1>14, <1>15, <1>16 DEF Next

(* The settings come from the ini file or from the markers. *)
LEMMA ChosenKept ==
  ASSUME IInv, Next
  PROVE  Chosen'
<1>0. MarkedUpTo(case.files, 1) = {}
  BY MarkedAre
<1> USE DEF IInv, Chosen, FromMarkers, FromIni, IniAnswers, Files, HasDir, At, Go, files,
    program, launching
<1>1. CASE FileStep
  BY <1>1, InARoutine
<1>2. CASE SetupFails \/ Setup \/ LookForBootManager \/ NothingToLaunch \/ ImageNotLoaded
        \/ ImageDistrusted \/ ImageLoaded \/ HandleRefused \/ HandleAstray \/ NotALoader
        \/ StartScan \/ ScanMiss
  BY <1>2 DEF SetupFails, Setup, LookForBootManager, CallOn, NoPath, NothingToLaunch, F!Begin,
      ImageNotLoaded, ImageDistrusted, ImageLoaded, Loading, F!Present, HandleRefused,
      HandleAstray, NotALoader, StartScan, Scan, ScanMiss, ScanOn, GuidAt
<1>3. CASE LookForIni \/ IniMissing \/ ReadIni
  BY <1>3, FaultsStay, <1>0 DEF LookForIni, CallOn, NoPath, IniMissing, Freed,
      ReadIni, CallAgain, F!Begin
<1>4. CASE IniRead \/ IniUnparsable \/ IniParsed
  <2>1. IniRead => Chosen'
    BY <1>0 DEF IniRead
  <2>2. IniUnparsable => Chosen'
    BY <1>0 DEF IniUnparsable
  <2>3. IniParsed => Chosen'
    BY AskedIs DEF IniParsed, IniParsedThen, Calling
  <2> QED BY <1>4, <2>1, <2>2, <2>3
<1>5. CASE LookForMarker
  <2>1. k \in 1 .. 3 /\ pc' \in {"marker", "marked", "log"} /\ settings' = settings
    BY <1>5 DEF LookForMarker, CallOn, NoPath, AfterMarker
  <2>2. CASE pc' = "marked"
    BY <1>5, <2>1, <2>2 DEF LookForMarker, CallOn, NoPath, AfterMarker
  <2>3. CASE pc' # "marked"
    <3>1. k' = k + 1 /\ (~HasDir \/ faulted') /\ pc' = IF k = 3 THEN "log" ELSE "marker"
      BY <1>5, <2>1, <2>3, PathsAre DEF LookForMarker, CallOn, NoPath, AfterMarker
    <3>2. MarkedUpTo(Files, k) \subseteq MarkedUpTo(Files, k + 1)
      BY <2>1, MarkedAre
    <3>3. FromMarkers(k)
      BY <1>5 DEF LookForMarker
    <3> QED BY <2>1, <3>1, <3>2, <3>3, FaultsStay
  <2> QED BY <2>2, <2>3
<1>6. CASE MarkerLookedFor
  <2>1. k \in 1 .. 3 /\ FromMarkers(k) /\ HasDir /\ name = Markers[k]
    BY <1>6 DEF MarkerLookedFor, MarkerSeen, Calling
  <2>2. /\ k' = k + 1 /\ pc' = IF k = 3 THEN "log" ELSE "marker"
        /\ settings' = IF answer THEN settings \cup {Markers[k]} ELSE settings \ {Markers[k]}
        /\ faulted' = faulted /\ case' = case
    BY <1>6, MarkersAre DEF MarkerLookedFor, MarkerSeen, AfterMarker
  <2>3. IF answer THEN Files[Markers[k]] # "absent"
                  ELSE faulted \/ Files[Markers[k]] = "absent"
    BY <1>6, <2>1 DEF MarkerLookedFor, MarkerSeen, Answered
  <2>4. /\ Markers[k] \notin MarkedUpTo(Files, k)
        /\ MarkedUpTo(Files, k + 1) = MarkedUpTo(Files, k)
             \cup IF Files[Markers[k]] # "absent" THEN {Markers[k]} ELSE {}
    BY <2>1, MarkedAre
  <2>5. settings' \subseteq MarkedUpTo(Files, k + 1)
    BY <2>1, <2>2, <2>3, <2>4
  <2>6. faulted \/ settings' = MarkedUpTo(Files, k + 1)
    BY <2>1, <2>2, <2>3, <2>4
  <2>7. faulted \/ ~IniAnswers
    BY <1>6 DEF MarkerLookedFor, MarkerSeen, Answered
  <2> QED BY <2>1, <2>2, <2>5, <2>6, <2>7
<1>7. CASE NoLog \/ ClearLog \/ Work
  <2>1. NoLog => Chosen'
    <3> SUFFICES ASSUME NoLog PROVE SettingsFromOneSource'
      BY FaultsStay DEF NoLog
    <3>1. "logfile" \notin settings /\ settings' = settings /\ faulted' = faulted
          /\ Asked' = Asked /\ Marked' = Marked /\ Parsable' = Parsable
          /\ case' = case
      BY DEF NoLog, Asked, Marked, Parsable
    <3>2. CASE FromIni /\ settings = case.asked
      BY <3>1, <3>2, AskedIs DEF SettingsFromOneSource
    <3>3. CASE FromMarkers(4) /\ (faulted \/ ~HasDir \/ ~IniAnswers)
      <4>1. settings \subseteq Marked
        BY <3>3, AskedIs
      <4>2. settings = Asked \/ faulted
        BY <3>3, AskedIs
      <4> QED BY <3>1, <4>1, <4>2 DEF SettingsFromOneSource
    <3> QED BY <3>2, <3>3 DEF NoLog
  <2>2. ClearLog => Chosen'
    <3> SUFFICES ASSUME ClearLog PROVE Chosen'
      OBVIOUS
    <3>1. FromIni /\ settings = case.asked /\ "logfile" \in settings
      BY MarkedAre DEF ClearLog
    <3>2. settings' = case.asked \ {"logfile"} /\ case' = case /\ volume' = volume
      BY <3>1 DEF ClearLog, CallOn, NoPath
    <3>3. \/ pc' = "clearing"
          \/ pc' = "keys" /\ faulted'
      BY <3>1, PathsAre DEF ClearLog, CallOn, NoPath
    <3>4. Parsable'
      BY <3>1, <3>2, AskedIs DEF Parsable
    <3>5. CASE pc' = "clearing"
      BY <3>1, <3>2, <3>5
    <3>6. CASE pc' = "keys" /\ faulted'
      BY <3>2, <3>4, <3>6 DEF SettingsFromOneSource
    <3> QED BY <3>3, <3>5, <3>6
  <2>3. Work => Chosen'
    BY FaultsStay DEF Work
  <2> QED BY <1>7, <2>1, <2>2, <2>3
<1>8. CASE CreateLog \/ LogNotOpened
  <2>1. CreateLog => Chosen'
    BY FaultsStay DEF CreateLog, CallAgain
  <2>2. LogNotOpened => Chosen'
    <3> SUFFICES ASSUME LogNotOpened PROVE Chosen'
      OBVIOUS
    <3>1. FromIni /\ settings = case.asked \ {"logfile"}
      BY DEF LogNotOpened
    <3>2. faulted' /\ pc' = "keys" /\ settings' = settings /\ case' = case /\ volume' = volume
      BY DEF LogNotOpened, Answered
    <3>3. Parsable'
      BY <3>1, <3>2, AskedIs DEF Parsable
    <3> QED BY <3>1, <3>2, <3>3 DEF SettingsFromOneSource
  <2> QED BY <1>8, <2>1, <2>2
<1>9. CASE LogOpened
  <2>1. FromIni /\ settings = case.asked \ {"logfile"} /\ "logfile" \in case.asked
    BY <1>9 DEF LogOpened, LogOpenedAs
  <2>2. /\ pc' = "keys" /\ case' = case /\ volume' = volume /\ faulted' = faulted
        /\ settings' = IF at = "informed" /\ volume["log"] = "file"
                         THEN settings \cup {"logfile"} ELSE settings
    BY <1>9 DEF LogOpened, LogOpenedAs
  <2>3. Parsable' /\ Asked' = Asked
    BY <2>1, <2>2, AskedIs DEF Parsable, Asked, Marked
  <2>4. Asked = IF volume["log"] = "directory" THEN case.asked \ {"logfile"} ELSE case.asked
    BY <2>1, AskedIs
  <2>5. at = "uninformed" => faulted
    BY <1>9 DEF LogOpened, LogOpenedAs, Handles
  <2>6. volume["log"] = "file" \/ volume["log"] = "directory"
    <3>1. volume["log"] # "absent"
      BY <1>9 DEF LogOpened, LogOpenedAs, Handles, Probing
    <3> QED BY <3>1, Types DEF F!Kinds
  <2>7. settings' = Asked \/ faulted
    BY <1>9, <2>1, <2>2, <2>4, <2>5, <2>6 DEF LogOpened, LogOpenedAs
  <2>8. settings' \ {"logfile"} = case.asked \ {"logfile"}
    BY <2>1, <2>2
  <2> QED BY <2>2, <2>3, <2>7, <2>8 DEF SettingsFromOneSource
<1>10. CASE ScanHit \/ ScanEnds \/ Refuse \/ Boots \/ StartFails \/ LaunchReturns \/ CleanUp
  BY <1>10 DEF ScanHit, ScanEnds, ScanLimit, GuidAt, Refuse, Boots, StartFails, StartFailsThen,
      LaunchReturns, Freed, CleanUp, CleanUpClosing
<1> QED BY <1>1, <1>2, <1>3, <1>4, <1>5, <1>6, <1>7, <1>8, <1>9, <1>10 DEF Next

-----------------------------------------------------------------------------
(* The invariant.                                                          *)

(* It holds at the start, for every own path and every volume. *)
LEMMA Initially ==
  ASSUME Init
  PROVE  IInv
<1> USE DEF Init
<1>1. case \in Cases /\ case.boot \in Images /\ case.files \in [Names -> F!Kinds]
  BY CasesAssumption
<1>2. FilesTyped
  BY <1>1 DEF FilesTyped, F!TypeOK
<1>3. ProgramTyped
  <2>1. strings \in 0 .. 2 /\ k \in 1 .. Len(Markers) + 1
    BY MarkersAre
  <2> QED BY <1>1, <2>1, SizesAssumption DEF ProgramTyped
<1>4. Volume
  BY <1>1 DEF Volume, Files
<1>5. Calling /\ Answered
  BY DEF Calling, Asking, Answered
<1>6. Handles
  BY DEF Handles, Opened, Names, Beside, Probing, After
<1>7. Memory /\ Strings /\ Lost
  BY DEF Memory, Before, Strings, Lost
<1>8. Chosen /\ Image /\ Hopeful /\ Strays
  BY DEF Chosen, Image, Hopeful, Strays, Early, Before
<1>9. Passed
  <2>1. address - ImageBase = Word * 0 /\ address >= ImageBase
    BY SizesAssumption
  <2> QED BY <2>1, MultipleIs DEF Passed
<1> QED BY <1>2, <1>3, <1>4, <1>5, <1>6, <1>7, <1>8, <1>9 DEF IInv, Typed

(* Every step of UefiMain and of the routines it calls keeps it. *)
LEMMA Kept ==
  ASSUME IInv, [Next]_vars
  PROVE  IInv'
<1>1. CASE Next
  BY <1>1, FilesTypedKept, ProgramTypedKept, VolumeKept, CallingKept, AnsweredKept, HandlesKept,
     MemoryKept, StringsKept, LostKept, ChosenKept, ImageKept, PassedKept, HopefulKept, StraysKept
     DEF IInv, Typed
<1>2. CASE UNCHANGED vars
  <2> USE <1>2 DEF vars, files, program, launching
  <2>1. Typed'
    BY DEF IInv, Typed, FilesTyped, F!TypeOK, ProgramTyped, Volume, Files
  <2>2. Calling' /\ Answered' /\ Strings'
    BY DEF IInv, Calling, Asking, Answered, Strings, Files, HasDir, HasExt, IniAnswers
  <2>3. Handles' /\ Memory'
    BY DEF IInv, Handles, Opened, LogUsed, LogBad, Memory, Files, IniAnswers
  <2>4. Chosen'
    BY DEF IInv, Chosen, FromMarkers, FromIni, Files, HasDir, IniAnswers,
           SettingsFromOneSource, Asked, Marked, Parsable
  <2>5. Image' /\ Passed' /\ Strays'
    BY DEF IInv, Image, Passed, Strays
  <2>6. Hopeful'
    BY DEF IInv, Hopeful, Wanted, Files, HasExt
  <2>7. Lost'
    BY DEF IInv, Lost, BootManager
  <2> QED BY <2>1, <2>2, <2>3, <2>4, <2>5, <2>6, <2>7 DEF IInv
<1> QED BY <1>1, <1>2

(* Wherever UefiMain stands between its calls, and wherever a routine      *)
(* stands in the middle of one, the parts of IInv hold together.           *)
THEOREM Inductive == Spec => []IInv
BY Initially, Kept, PTL DEF Spec

(* Every variable stays in its range; with the paths, no more than two of  *)
(* them are ever allocated.                                                *)
THEOREM TypeCorrect == Spec => []TypeOK
<1>1. IInv => TypeOK
  BY DEF IInv, Typed, FilesTyped, ProgramTyped, TypeOK
<1> QED BY <1>1, Inductive, PTL

(* The settings come from the ini file or from the markers, never from     *)
(* both, and without a failure they are what the volume asks for.          *)
THEOREM OneSource == Spec => []SettingsFromOneSource
<1>1. IInv => SettingsFromOneSource
  BY DEF IInv, Chosen, SettingsFromOneSource
<1> QED BY <1>1, Inductive, PTL

(* Between two calls the routines of Filesystem.c hold nothing but the log *)
(* and the contents that UefiMain still needs or can never free again.     *)
THEOREM NothingLeft == Spec => []NothingLeftBetweenCalls
<1>1. IInv => NothingLeftBetweenCalls
  <2> SUFFICES ASSUME IInv, at = "idle"
               PROVE  NothingLeftBetweenCalls
    BY DEF NothingLeftBetweenCalls
  <2>1. \A n \in Names \ {"log"} : handles[n] = 0
    BY DEF IInv, Handles, Opened, Probing
  <2>2. infos > 0 => infos = 1 /\ logHandle
    BY DEF IInv, Memory
  <2>3. buffers > 0 =>
          /\ buffers = 1 /\ contents = "buffer"
          /\ pc \in {"reading", "parse"} \/ faulted \/ ~Parsable
    BY AskedIs DEF IInv, Memory
  <2> QED BY <2>1, <2>2, <2>3 DEF NothingLeftBetweenCalls
<1> QED BY <1>1, Inductive, PTL

(* As long as logging is on, mLogFileHandle is an open file.               *)
THEOREM LogCanBeWritten == Spec => []LogIsAnOpenFile
<1>1. IInv => LogIsAnOpenFile
  BY DEF IInv, Handles, After, LogUsed, LogIsAnOpenFile, Logging
<1> QED BY <1>1, Inductive, PTL

(* A start that returns to the firmware has freed the paths of UefiMain    *)
(* and ReadConfig, closed the volume and unloaded an image it refused, and *)
(* closed the log unless something failed or the log is a directory.  It   *)
(* does not claim that nothing is lost: Launch never frees its device      *)
(* path, and only a start that had no boot manager to look for has none.   *)
THEOREM CleanReturn == Spec => []ReturnsClean
<1>1. IInv => ReturnsClean
  BY DEF IInv, Strings, Lost, Handles, LogBad, Image, ReturnsClean
<1> QED BY <1>1, Inductive, PTL

(* Only a boot manager that was loaded without error, is a loader and      *)
(* bears the GUID is started.                                              *)
THEOREM OnlyVerifiedBoots == Spec => []BootedIsVerified
<1>1. IInv => BootedIsVerified
  <2> SUFFICES ASSUME IInv, pc = "booted"
               PROVE  BootedIsVerified
    BY DEF BootedIsVerified
  <2>1. image = "started" /\ handle = "image" /\ looked = case.boot /\ looked.loader
    BY DEF IInv, Image, Typed, Volume
  <2>2. address - ImageBase \in Marks(looked)
    BY DEF IInv, Passed
  <2>3. Genuine(case.boot)
    BY <2>1, <2>2 DEF Genuine, Marks, Aligned
  <2>4. HasExtension(case.path) => name = "boot"
    BY DEF IInv, Calling, HasExt
  <2> QED BY <2>1, <2>3, <2>4 DEF BootedIsVerified
<1> QED BY <1>1, Inductive, PTL

(* When nothing fails, a genuine boot manager in its place is started and  *)
(* the start does not return.                                              *)
THEOREM GenuineBoots == Spec => []OrdinaryStartBoots
<1>1. IInv => OrdinaryStartBoots
  BY Along DEF IInv, Hopeful, Wanted, HasExt, OrdinaryStartBoots
<1> QED BY <1>1, Inductive, PTL

(* FileContents and FileImageHandle are used unset only after a failure,   *)
(* or when there was no image to load.                                     *)
THEOREM UnsetRarelyUsed == Spec => []UnsetOnlyWithoutImage
<1>1. IInv => UnsetOnlyWithoutImage
  BY DEF IInv, Strays, UnsetOnlyWithoutImage
<1> QED BY <1>1, Inductive, PTL

(* CheckBootMgrGuid never compares a place that the image does not hold.   *)
THEOREM ScanInside == Spec => ScanStaysInside
<1>1. ASSUME IInv, Next, ~ScanMiss
      PROVE  address' = address
  BY <1>1 DEF At, Go, launching, Next, FileStep, SetupFails, Setup, LookForIni, CallOn, NoPath,
    IniMissing, ReadIni, CallAgain, IniRead, IniUnparsable, IniParsed, IniParsedThen, Parsable,
    LookForMarker, MarkerLookedFor, MarkerSeen, NoLog, ClearLog, Work, CreateLog, LogNotOpened,
    LogOpened, LogOpenedAs, LookForBootManager, NothingToLaunch, ImageNotLoaded,
    ImageDistrusted, ImageLoaded, Loading, HandleRefused, HandleAstray, NotALoader, StartScan,
    Scan, ScanOn, ScanHit, ScanEnds, Refuse, Boots, StartFails, StartFailsThen, LaunchReturns,
    CleanUp, CleanUpClosing
<1>2. ASSUME IInv, ScanMiss
      PROVE  address + GuidSize <= ImageBase + looked.size
  <2>1. address < ImageBase + looked.size - GuidSize
    BY <1>2 DEF ScanMiss, ScanOn, ScanLimit
  <2>2. looked.size \in Nat /\ address \in Nat
    BY <1>2, Types, ImagesAssumption
  <2> QED BY <2>1, <2>2, SizesAssumption
<1>3. IInv /\ [Next]_vars =>
        [address' # address => address + GuidSize <= ImageBase + looked.size]_vars
  BY <1>1, <1>2
<1> QED BY <1>3, Inductive, PTL DEF Spec, ScanStaysInside

-----------------------------------------------------------------------------
(* The promise about the boot manager.                                     *)

(* The stage that each point of UefiMain belongs to, before a step and     *)
(* after it.                                                               *)
LEMMA StageAt ==
  /\ pc = "exit" => Stage = "leaving"
  /\ pc \in {"looking", "check", "scan"} => Stage = "launching"
  /\ pc = "start" => Stage = "accepted"
  /\ pc = "booted" => Stage = "booted"
  /\ pc \in {"refuse", "after", "cleanup", "returned"} => Stage = "over"
  /\ pc = "keys" => Stage = "installing"
  /\ pc \in Before => Stage = "starting"
BY DEF Stage, Before

LEMMA PrimedStageAt ==
  /\ pc' = "exit" => Stage' = "leaving"
  /\ pc' \in {"looking", "check", "scan"} => Stage' = "launching"
  /\ pc' = "start" => Stage' = "accepted"
  /\ pc' = "booted" => Stage' = "booted"
  /\ pc' \in {"refuse", "after", "cleanup", "returned"} => Stage' = "over"
  /\ pc' = "keys" => Stage' = "installing"
  /\ pc' \in Before => Stage' = "starting"
BY DEF Stage, Before

(* Where a step may take UefiMain. *)
LEMMA Onward ==
  ASSUME IInv, Next
  PROVE  \/ pc' = pc /\ known' = known
         \/ pc \in Before /\ pc' \in Before
         \/ pc = "setup" /\ pc' = "exit" /\ known' = known
         \/ pc \in Before /\ pc' = "keys" /\ known' = known /\ known
         \/ pc = "keys" /\ pc' = "exit" /\ known' = known
         \/ pc = "exit" /\ pc' \in {"looking", "cleanup"} /\ known' = known
         \/ pc \in {"looking", "check", "scan"} /\ known' = known /\ known
            /\ pc' \in {"check", "scan", "refuse", "start"}
         \/ pc = "start" /\ pc' \in {"booted", "after"} /\ known' = known
         \/ pc \in {"refuse", "after", "cleanup"} /\ known' = known
            /\ pc' \in {"after", "cleanup", "returned"}
<1> USE DEF IInv, Strings, Before, At, Go, program
<1>1. CASE FileStep
  BY <1>1 DEF FileStep
<1>2. CASE SetupFails \/ Setup
  BY <1>2 DEF SetupFails, Setup
<1>3. CASE LookForIni \/ IniMissing \/ ReadIni
  BY <1>3 DEF LookForIni, CallOn, NoPath, IniMissing, ReadIni, CallAgain
<1>4. CASE IniRead \/ IniUnparsable \/ IniParsed
  BY <1>4 DEF IniRead, IniUnparsable, IniParsed, IniParsedThen
<1>5. CASE LookForMarker
  BY <1>5, Along DEF LookForMarker, AfterMarker, CallOn, NoPath
<1>6. CASE MarkerLookedFor
  BY <1>6, Along, MarkersAre DEF MarkerLookedFor, MarkerSeen, AfterMarker
<1>7. CASE NoLog \/ ClearLog \/ Work
  BY <1>7 DEF NoLog, ClearLog, CallOn, NoPath, Work
<1>8. CASE CreateLog \/ LogNotOpened
  BY <1>8 DEF CreateLog, CallAgain, LogNotOpened
<1>9. CASE LogOpened
  BY <1>9 DEF LogOpened, LogOpenedAs
<1>10. CASE LookForBootManager \/ NothingToLaunch
  BY <1>10 DEF LookForBootManager, CallOn, NoPath, NothingToLaunch
<1>11. CASE ImageNotLoaded \/ ImageDistrusted \/ ImageLoaded
  BY <1>11 DEF ImageNotLoaded, ImageDistrusted, ImageLoaded, Loading
<1>12. CASE HandleRefused \/ HandleAstray \/ NotALoader \/ StartScan
  BY <1>12 DEF HandleRefused, HandleAstray, NotALoader, StartScan, Scan
<1>13. CASE ScanMiss
  BY <1>13 DEF ScanMiss, ScanOn
<1>14. CASE ScanHit \/ ScanEnds
  BY <1>14 DEF ScanHit, ScanEnds
<1>15. CASE Refuse \/ Boots \/ StartFails
  BY <1>15 DEF Refuse, Boots, StartFails, StartFailsThen
<1>16. CASE LaunchReturns \/ CleanUp
  BY <1>16 DEF LaunchReturns, CleanUp, CleanUpClosing
<1> QED BY <1>1, <1>2, <1>3, <1>4, <1>5, <1>6, <1>7, <1>8, <1>9, <1>10,
          <1>11, <1>12, <1>13, <1>14, <1>15, <1>16 DEF Next

(* The files side of UefiMain keeps Chainload's promise: one look for the  *)
(* boot manager after the installation, at most one start, and that only   *)
(* by a program that knows its own path.                                   *)
THEOREM PromiseIsKept == Spec => KeepsPromise
<1>1. Init => Promise!Init
  BY StageAt DEF Init, Promise!Init, Before
<1>2. IInv /\ IInv' /\ [Next]_vars => [Promise!Next]_(Promise!vars)
  <2> SUFFICES ASSUME IInv, IInv', [Next]_vars
               PROVE  [Promise!Next]_(Promise!vars)
    OBVIOUS
  <2> USE DEF Promise!vars, Promise!Next, Promise!Prepare, Promise!Install,
              Promise!LookForBootManager, Promise!Accept, Promise!Boot, Promise!Return
  <2>1. known \in BOOLEAN /\ known' \in BOOLEAN
    BY DEF IInv, Typed, ProgramTyped
  <2>2. pc = "setup" => ~known
    BY DEF IInv, Strings
  <2>3. CASE UNCHANGED vars
    BY <2>3 DEF vars, program, Stage
  <2>4. CASE Next
    <3>1. CASE pc' = pc /\ known' = known
      BY <3>1 DEF Stage
    <3>2. CASE pc \in Before /\ pc' \in Before
      BY <3>2, StageAt, PrimedStageAt
    <3>3. CASE \/ pc = "setup" /\ pc' = "exit" /\ known' = known
               \/ pc \in Before /\ pc' = "keys" /\ known' = known /\ known
      BY <2>1, <2>2, <3>3, StageAt, PrimedStageAt DEF Before
    <3>4. CASE \/ pc = "keys" /\ pc' = "exit" /\ known' = known
               \/ pc = "exit" /\ pc' \in {"looking", "cleanup"} /\ known' = known
      BY <3>4, StageAt, PrimedStageAt
    <3>5. CASE /\ pc \in {"looking", "check", "scan"} /\ known' = known /\ known
               /\ pc' \in {"check", "scan", "refuse", "start"}
      BY <3>5, StageAt, PrimedStageAt
    <3>6. CASE \/ pc = "start" /\ pc' \in {"booted", "after"} /\ known' = known
               \/ /\ pc \in {"refuse", "after", "cleanup"} /\ known' = known
                  /\ pc' \in {"after", "cleanup", "returned"}
      BY <3>6, StageAt, PrimedStageAt
    <3> QED BY <2>4, <3>1, <3>2, <3>3, <3>4, <3>5, <3>6, Onward
  <2> QED BY <2>3, <2>4
<1> QED BY <1>1, <1>2, Inductive, PTL DEF Spec, KeepsPromise, Promise!Behaviour
=================================================================================
