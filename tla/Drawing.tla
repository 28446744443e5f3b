------------------------------- MODULE Drawing -------------------------------
(***************************************************************************)
(* The animated logo: a bitmap file is imported (BmpFileToImage), cut into *)
(* square frames and drawn in the middle of the screen (AnimateImage),     *)
(* among the dialogue of Console.  UefiMain's call of ShowAnimatedLogo is  *)
(* commented out, so the logo is an option here: NoLogo is the program as  *)
(* it is built, the rest is what the call would do where it stands.        *)
(***************************************************************************)
EXTENDS Console

CONSTANTS
  Screens,     \* [protocol : Adapters, h : Nat, v : Nat]
  Bitmaps,     \* [supported : BOOLEAN, size, offset, w, h : Nat]: a file
  HeaderSize,  \* sizeof (BMP_HEADER)
  Word32       \* 2^32, past which the header's own fields wrap

(* Line sizes past the header's 32 bits are not considered.                *)
ASSUME ScenesAssumption ==
  /\ \A s \in Screens :
       s.protocol \in {"none", "gop", "uga"} /\ s.h \in Nat /\ s.v \in Nat
  /\ \A b \in Bitmaps :
       /\ {b.size, b.offset, b.w, b.h} \subseteq Nat
       /\ 3 * b.w < Word32
  /\ Word32 \in Nat

VARIABLES
  stage,    \* where ShowAnimatedLogo is
  screen,   \* mDisplayInfo
  bitmap,   \* the file's contents
  pool,     \* how many pool buffers of each kind are held
  y,        \* lines copied
  rows,     \* the place in the file from which each row of the image came
  frame,    \* frames drawn
  blit,     \* the last Blt: buffer line length, sprite, place on screen
  stray     \* BmpFileContents was freed and had never been set

drawing == <<stage, screen, bitmap, pool, y, rows, frame, blit, stray>>
vars == <<console, faulted, drawing>>

Buffers == {"contents", "image", "pixels"}
Nothing == [b \in Buffers |-> 0]
NoScene == [none |-> TRUE]

Init ==
  /\ ConsoleInit
  /\ stage = "before" /\ screen = NoScene /\ bitmap = NoScene
  /\ pool = Nothing /\ y = 0 /\ rows = <<>> /\ frame = 0 /\ blit = NoScene
  /\ stray = FALSE

(* FreePool and AllocatePool of the named buffers. *)
Taken(bs) == [b \in Buffers |-> IF b \in bs THEN pool[b] + 1 ELSE pool[b]]
Freed(bs) == [b \in Buffers |-> IF b \in bs THEN pool[b] - 1 ELSE pool[b]]

DestroyImage == {"image", "pixels"}

At(s) == stage = s /\ UNCHANGED <<keys, verbose, place, prompt, key, pressed>>

Silent == UNCHANGED <<control, faulted, stray>>

(* ShowAnimatedLogo returns, the given buffers freed. *)
Over(bs) ==
  /\ stage' = "over" /\ pool' = Freed(bs)
  /\ screen' = NoScene /\ bitmap' = NoScene
  /\ y' = 0 /\ rows' = <<>> /\ frame' = 0 /\ blit' = NoScene

(* No call, no path, or no file. *)
NoLogo == At("before") /\ Running("main") /\ Silent /\ Over({})

(* The file cannot be read.  If it cannot be opened or asked for its size, *)
(* FileRead frees what BmpFileContents happens to hold, unless that is     *)
(* NULL; ShowAnimatedLogo has never set it.                                *)
LogoUnread ==
  /\ At("before") /\ Running("main") /\ ~verbose
  /\ stray' \in BOOLEAN
  /\ UNCHANGED <<control, faulted>>
  /\ Over({})

ReadBitmap ==
  /\ At("before") /\ Running("main") /\ ~verbose
  /\ screen' \in Screens /\ bitmap' \in Bitmaps
  /\ stage' = "import" /\ pool' = Taken({"contents"})
  /\ Silent /\ UNCHANGED <<y, rows, frame, blit>>

-----------------------------------------------------------------------------
(* BmpFileToImage *)

Acceptable ==
  /\ bitmap.size >= HeaderSize /\ bitmap.supported
  /\ bitmap.w >= 1 /\ bitmap.h >= 1

Rejected == At("import") /\ ~Acceptable /\ Silent /\ Over({"contents"})

(* CreateImage finds no memory, and frees what it took. *)
ImageUnavailable == At("import") /\ Acceptable /\ Silent /\ Over({"contents"})

CreateImage ==
  /\ At("import") /\ Acceptable
  /\ stage' = "measure" /\ pool' = Taken({"image", "pixels"})
  /\ rows' = [r \in 0 .. bitmap.h - 1 |-> "zero"]
  /\ Silent /\ UNCHANGED <<screen, bitmap, y, frame, blit>>

(* Bytes of a line in the file, padded to a multiple of four; a mutant     *)
(* forgets the padding.                                                    *)
LineBytes == (bitmap.w * 3) % Word32
LineSizeUnpadded == LineBytes
LineSizeBytes == LineBytes + (IF LineBytes % 4 # 0 THEN 4 - (LineBytes % 4) ELSE 0)

EnoughData == bitmap.offset + bitmap.h * LineSizeBytes <= bitmap.size

TooLittleData ==
  /\ At("measure") /\ ~EnoughData
  /\ Silent /\ Over(DestroyImage \cup {"contents"})

DataSuffices ==
  /\ At("measure") /\ EnoughData /\ stage' = "copy"
  /\ Silent /\ UNCHANGED <<screen, bitmap, pool, y, rows, frame, blit>>

(* Lines come bottom to top. *)
BmpCurrentLine == bitmap.offset + y * LineSizeBytes

CopyLine ==
  /\ At("copy") /\ y < bitmap.h
  /\ rows' = [rows EXCEPT ![bitmap.h - y - 1] = BmpCurrentLine]
  /\ y' = y + 1
  /\ Silent /\ UNCHANGED <<stage, screen, bitmap, pool, frame, blit>>

Imported ==
  /\ At("copy") /\ y = bitmap.h
  /\ stage' = "clear" /\ pool' = Freed({"contents"})
  /\ Silent /\ UNCHANGED <<screen, bitmap, y, rows, frame, blit>>

-----------------------------------------------------------------------------
(* AnimateImage: the shorter side is the side of a frame. *)

DrawTo(s) ==
  stage' = s /\ SwitchToGraphics /\ UNCHANGED <<screen, bitmap, pool, y, rows, stray>>

(* ClearScreen switches once more, to no other effect. *)
ClearScreen == At("clear") /\ DrawTo("place") /\ UNCHANGED <<frame, blit>>

Wide == bitmap.w > bitmap.h
Side == IF Wide THEN bitmap.h ELSE bitmap.w
Long == IF Wide THEN bitmap.w ELSE bitmap.h

(* Whole frames only; a mutant draws the rest of the image as well. *)
NumFramesRoundedUp == (Long + Side - 1) \div Side
NumFrames == Long \div Side

Fits ==
  /\ screen.protocol # "none"
  /\ Side >= 1 /\ Side <= screen.h /\ Side <= screen.v

(* CalculatePositionForCenter, in one direction. *)
Centre(resolution) ==
  LET position == resolution \div 2 - Side \div 2
  IN  IF position + Side > resolution THEN resolution - Side ELSE position

DoesNotFit ==
  /\ At("place") /\ ~Fits /\ stage' = "end"
  /\ Silent /\ UNCHANGED <<screen, bitmap, pool, y, rows, frame, blit>>

PlaceImage ==
  /\ At("place") /\ Fits /\ stage' = "draw"
  /\ Silent /\ UNCHANGED <<screen, bitmap, pool, y, rows, frame, blit>>

(* DrawImage of one frame, with Delta 0: lines of the buffer are taken to  *)
(* be as long as the rectangle drawn.                                      *)
DrawFrame ==
  /\ At("draw") /\ frame < NumFrames
  /\ DrawTo("draw")
  /\ blit' = [frame |-> frame, line |-> Side,
              spriteX |-> IF Wide THEN frame * Side ELSE 0,
              spriteY |-> IF Wide THEN 0 ELSE frame * Side,
              screenX |-> Centre(screen.h), screenY |-> Centre(screen.v)]
  /\ frame' = frame + 1

AllDrawn ==
  /\ At("draw") /\ frame = NumFrames /\ stage' = "end"
  /\ Silent /\ UNCHANGED <<screen, bitmap, pool, y, rows, frame, blit>>

(* The mutant frees the file's contents once more. *)
EndLogoFreesAll == At("end") /\ Silent /\ Over(Buffers)
EndLogo == At("end") /\ Silent /\ Over(DestroyImage)

-----------------------------------------------------------------------------

Logo ==
  \/ NoLogo \/ LogoUnread \/ ReadBitmap
  \/ Rejected \/ ImageUnavailable \/ CreateImage
  \/ TooLittleData \/ DataSuffices \/ CopyLine \/ Imported
  \/ ClearScreen \/ DoesNotFit \/ PlaceImage \/ DrawFrame \/ AllDrawn \/ EndLogo

(* In UefiMain the logo comes after the first prompt and before the rest.  *)
Turn == place = "start" \/ prompt # "none" \/ stage = "over"

Next ==
  \/ Logo
  \/ Turn /\ Dialogue /\ UNCHANGED drawing
  \/ (\E c \in Keys : Type(c)) /\ UNCHANGED drawing

(* The program goes on as long as it can; only WaitForEvent waits for the  *)
(* user.  Nothing makes the user type.                                     *)
Spec ==
  /\ Init /\ [][Next]_vars
  /\ WF_vars(Logo)
  /\ WF_vars(Turn /\ (Wait \/ ReadKeyStroke) /\ UNCHANGED drawing)

-----------------------------------------------------------------------------

TypeOK ==
  /\ ConsoleTypeOK
  /\ stage \in {"before", "import", "measure", "copy", "clear", "place", "draw", "end", "over"}
  /\ screen \in Screens \cup {NoScene} /\ bitmap \in Bitmaps \cup {NoScene}
  /\ pool \in [Buffers -> {0, 1}]
  /\ y \in Nat /\ frame \in Nat /\ stray \in BOOLEAN

(* The bytes of a line in the file: a whole number of groups of four.      *)
FileLine == 4 * ((3 * bitmap.w + 3) \div 4)

(* The pixel of the image that Blt shows in a rectangle's row and column.  *)
Shown1(row, column) ==
  LET pixel == (blit.spriteY + row) * blit.line + blit.spriteX + column
  IN  [row |-> pixel \div bitmap.w, column |-> pixel % bitmap.w]

(* The import reads inside the file, drawing reads inside the image and    *)
(* draws inside the screen, and once the logo is over every buffer it took *)
(* has been freed.  A pointer that was never set is freed only where there *)
(* are no contents, and then nothing is imported or drawn.                 *)
InsideFile ==
  stage = "copy" /\ y < bitmap.h => BmpCurrentLine + 3 * bitmap.w <= bitmap.size
InsideImage ==
  blit # NoScene => Shown1(Side - 1, Side - 1).row < bitmap.h
OnScreen ==
  blit # NoScene => blit.screenX + Side <= screen.h /\ blit.screenY + Side <= screen.v
NothingKept ==
  /\ stage \in {"before", "over"} => pool = Nothing
  /\ stray => stage = "over"

MemoryRespected == InsideFile /\ InsideImage /\ OnScreen /\ NothingKept

(* The image is the bitmap turned upright, line padding left out; each     *)
(* frame of a tall image shows its own square of it, centred within a      *)
(* pixel, and no whole frame is left out.                                  *)
Upright ==
  stage \in {"clear", "place", "draw"} =>
    \A r \in 0 .. bitmap.h - 1 : rows[r] = bitmap.offset + (bitmap.h - 1 - r) * FileLine
OwnSquare ==
  blit # NoScene /\ ~Wide =>
    \A row, column \in 0 .. Side - 1 :
      Shown1(row, column) = [row |-> blit.frame * Side + row, column |-> column]
Centred ==
  blit # NoScene =>
    /\ screen.h - Side - 2 * blit.screenX \in -1 .. 1
    /\ screen.v - Side - 2 * blit.screenY \in -1 .. 1
NoneLeftOut == stage = "end" /\ blit # NoScene => Long - frame * Side \in 0 .. Side - 1

PicturesFaithful == Upright /\ OwnSquare /\ Centred /\ NoneLeftOut
===============================================================================
