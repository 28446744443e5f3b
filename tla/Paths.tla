-------------------------------- MODULE Paths --------------------------------
(***************************************************************************)
(* The path functions of Filesystem.c.  A path is a sequence of            *)
(* characters; of these only the backslash and the dot are told apart, and *)
(* a name the program appends is a single element.                         *)
(***************************************************************************)
EXTENDS Integers, Sequences

Slash == "\\"
Dot == "."
Invalid == <<>>  \* EFI_INVALID_PARAMETER: no path is made

(* Counted from 0, as in C. *)
Char(path, i) == path[i + 1]

(* The loops that look for a character from the end of a path downwards    *)
(* and stop at index 0 whatever is there.                                  *)
LastIndexOf(path, c) ==
  LET Down[i \in 0 .. Len(path) - 1] ==
        IF Char(path, i) = c \/ i = 0 THEN i ELSE Down[i - 1]
  IN  Down[Len(path) - 1]

(* GetEndingSlashIndex as its only caller in use calls it. *)
GetEndingSlashIndex(path) == LastIndexOf(path, Slash)

(* The first n characters, then something new. *)
Renamed(path, n, new) == SubSeq(path, 1, n) \o new

(* Everything up to and with the last dot is kept; a mutant drops the dot. *)
ChangeExtensionDropsDot(path, extension) ==
  LET DotIndex == LastIndexOf(path, Dot)
  IN  IF DotIndex = 0 THEN Invalid ELSE Renamed(path, DotIndex, extension)

ChangeExtension(path, extension) ==
  LET DotIndex == LastIndexOf(path, Dot)
  IN  IF DotIndex = 0 THEN Invalid ELSE Renamed(path, DotIndex + 1, extension)

(* Everything up to and with the last slash is kept. *)
GetFilenameInSameDirectory(path, newName) ==
  LET i == GetEndingSlashIndex(path)
  IN  IF i = 0 /\ Char(path, i) # Slash THEN Invalid
      ELSE Renamed(path, i + 1, newName)

-----------------------------------------------------------------------------

(* What these are to mean, without indices counted downwards.  A file name *)
(* is what follows the last slash, an extension what follows the last dot  *)
(* of the file name.                                                       *)
Places(path, c) == {k \in DOMAIN path : path[k] = c}
LastPlace(path, c) ==
  LET S == Places(path, c) \cup {0} IN CHOOSE k \in S : \A j \in S : j <= k

HasDirectory(path) == Places(path, Slash) # {}
Directory(path) == SubSeq(path, 1, LastPlace(path, Slash))

HasExtension(path) == HasDirectory(path) /\ LastPlace(path, Dot) > LastPlace(path, Slash)
Stem(path) == SubSeq(path, 1, LastPlace(path, Dot))
===============================================================================
