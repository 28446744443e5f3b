---------------------------- MODULE MC_BootFiles ----------------------------
(***************************************************************************)
(* Cases for model checking BootFiles: every own path of up to four        *)
(* characters on one volume, and one path on volumes that differ in what   *)
(* there is under each name, what the ini file says, and what lies where   *)
(* the boot manager should.                                                *)
(***************************************************************************)
EXTENDS BootFiles

Windows == [loader |-> TRUE, size |-> 8, guids |-> {2}]
AtTheEnd == [loader |-> TRUE, size |-> 8, guids |-> {3, 4, 6}]
Driver == [loader |-> FALSE, size |-> 8, guids |-> {2}]
Tiny == [loader |-> TRUE, size |-> 2, guids |-> {}]
Empty == [loader |-> TRUE, size |-> 0, guids |-> {}]
MCImages == {Windows, AtTheEnd, Driver, Tiny, Empty}

Volume(ini, marker, log, boot) ==
  [n \in Names |->
     CASE n = "ini" -> ini
       [] n \in {"skiperrors", "force_fakevesa"} -> marker
       [] n = "log" -> log
       [] n = "boot" -> boot
       [] OTHER -> "absent"]

Case(path, volume_, asked, parses, boot) ==
  [path |-> path, files |-> volume_, asked |-> asked, parses |-> parses, boot |-> boot]

OwnPath == <<Slash, "x", Dot, "x">>
ShortPaths == UNION {[1 .. n -> {Slash, Dot, "x"}] : n \in 1 .. 4}

ManyPaths ==
  {Case(p, [Volume("file", "absent", "absent", "file") EXCEPT !["elsewhere"] = "file"],
        {"verbose"}, TRUE, Windows) : p \in ShortPaths}

ManyVolumes ==
  {Case(OwnPath, Volume(ini, marker, log, "file"), asked, parses, m) :
     ini \in F!Kinds, marker \in {"absent", "file"}, log \in F!Kinds,
     asked \in {{"logfile", "verbose"}, {"force_fakevesa"}}, parses \in BOOLEAN,
     m \in {Windows, Driver}}

ManyImages ==
  {Case(OwnPath, Volume("absent", "absent", "absent", kind), {}, FALSE, m) :
     kind \in F!Kinds, m \in MCImages}

MCCases == ManyPaths \cup ManyVolumes \cup ManyImages
===============================================================================
