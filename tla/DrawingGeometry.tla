--------------------------- MODULE DrawingGeometry ---------------------------
(***************************************************************************)
(* The logo stays within its file, its image and the screen, for bitmaps   *)
(* of any size and any screen.  The arithmetic is in lemmas of its own:    *)
(* the provers need products and quotients of variables one at a time.     *)
(***************************************************************************)
EXTENDS DrawingProofs

LEMMA ProductsGrow ==
  ASSUME NEW a \in Nat, NEW b \in Nat, NEW c \in Nat, a <= b
  PROVE  a * c <= b * c
<1>1. b * c = a * c + (b - a) * c
  OBVIOUS
<1>2. (b - a) \in Nat
  OBVIOUS
<1>3. (b - a) * c \in Nat
  BY <1>2
<1>4. a * c \in Nat /\ b * c \in Nat
  OBVIOUS
<1> QED BY <1>1, <1>3, <1>4

LEMMA QuotientFits ==
  ASSUME NEW a \in Nat, NEW b \in Nat \ {0}
  PROVE  a \div b \in Nat /\ (a \div b) * b <= a
OBVIOUS

LEMMA QuotientBelow ==
  ASSUME NEW n \in Nat, NEW w \in Nat \ {0}, NEW h \in Nat, n < w * h
  PROVE  n \div w < h
<1> SUFFICES ASSUME h <= n \div w PROVE FALSE
  BY QuotientFits
<1>1. h * w <= (n \div w) * w
  BY QuotientFits, ProductsGrow
<1>2. (n \div w) * w <= n
  BY QuotientFits
<1>3. h * w = w * h /\ w * h \in Nat /\ (n \div w) * w \in Nat
  BY QuotientFits
<1> QED BY <1>1, <1>2, <1>3

(* The last pixel of a frame, counted from the start of the image.         *)
LEMMA LastOfTall ==
  ASSUME NEW w \in Nat \ {0}, NEW h \in Nat, NEW f \in Nat, f < h \div w
  PROVE  (f * w + (w - 1)) * w + 0 + (w - 1) < w * h
<1>1. (f + 1) * w <= (h \div w) * w
  BY QuotientFits, ProductsGrow
<1>2. (f + 1) * w <= h
  BY <1>1, QuotientFits
<1>3. ((f + 1) * w) * w <= h * w
  BY <1>2, ProductsGrow
<1>4. (f * w + (w - 1)) * w + 0 + (w - 1) = ((f + 1) * w) * w - 1
  OBVIOUS
<1>5. h * w = w * h /\ h * w \in Nat /\ ((f + 1) * w) * w \in Nat
  OBVIOUS
<1> QED BY <1>3, <1>4, <1>5

LEMMA LastOfWide ==
  ASSUME NEW w \in Nat, NEW h \in Nat \ {0}, NEW f \in Nat, f < w \div h
  PROVE  (0 + (h - 1)) * h + f * h + (h - 1) < w * h
<1>1. (f + 1) * h <= (w \div h) * h
  BY QuotientFits, ProductsGrow
<1>2. (f + 1) * h <= w
  BY <1>1, QuotientFits
<1>3. f * 1 <= f * h
  BY ProductsGrow
<1>4. f + h <= w
  BY <1>2, <1>3
<1>5. (f + h) * h <= w * h
  BY <1>4, ProductsGrow
<1>6. (0 + (h - 1)) * h + f * h + (h - 1) = (f + h) * h - 1
  OBVIOUS
<1>7. w * h \in Nat /\ (f + h) * h \in Nat
  OBVIOUS
<1> QED BY <1>5, <1>6, <1>7

-----------------------------------------------------------------------------

(* What the checks before copying and drawing leave behind them: enough    *)
(* data, a frame that fits, and a Blt of a frame that is there.            *)
FrameAt(f) ==
  [frame |-> f, line |-> Side,
   spriteX |-> IF Wide THEN f * Side ELSE 0,
   spriteY |-> IF Wide THEN 0 ELSE f * Side,
   screenX |-> Centre(screen.h), screenY |-> Centre(screen.v)]

DataChecked == stage = "copy" => EnoughData
FrameFits == stage = "draw" => Fits
FrameDrawn ==
  \/ blit = NoScene
  \/ /\ stage \in {"draw", "end"} /\ Fits
     /\ \E f \in Nat : f < NumFrames /\ blit = FrameAt(f)

GInv == IInv /\ DataChecked /\ FrameFits /\ FrameDrawn

LEMMA GeometryInit == Init => GInv
BY InvInit DEF Init, GInv, DataChecked, FrameFits, FrameDrawn

(* The geometry speaks of the scene only, which is fixed while it is drawn. *)
LEMMA SameScene ==
  ASSUME UNCHANGED <<screen, bitmap>>
  PROVE  /\ EnoughData' = EnoughData /\ Fits' = Fits /\ NumFrames' = NumFrames
         /\ \A f : FrameAt(f)' = FrameAt(f)
BY DEF EnoughData, LineSizeBytes, LineBytes, Fits, NumFrames, FrameAt, Side, Long, Wide, Centre

LEMMA LogoGeometry ==
  ASSUME TypeOK, DataChecked, FrameFits, FrameDrawn, Logo
  PROVE  DataChecked' /\ FrameFits' /\ FrameDrawn'
<1> USE DEF DataChecked, FrameFits, FrameDrawn, At
<1>1. CASE NoLogo \/ LogoUnread \/ Rejected \/ ImageUnavailable \/ TooLittleData \/ EndLogo
  BY <1>1 DEF NoLogo, LogoUnread, Rejected, ImageUnavailable, TooLittleData, EndLogo, Over
<1>2. CASE ReadBitmap \/ CreateImage
  BY <1>2 DEF ReadBitmap, CreateImage
<1>3. CASE DataSuffices \/ CopyLine \/ Imported
  BY <1>3, SameScene DEF DataSuffices, CopyLine, Imported
<1>4. CASE ClearScreen \/ DoesNotFit \/ PlaceImage
  BY <1>4, SameScene DEF ClearScreen, DrawTo, DoesNotFit, PlaceImage
<1>5. CASE DrawFrame
  <2>1. UNCHANGED <<screen, bitmap>> /\ stage' = "draw" /\ Fits
    BY <1>5 DEF DrawFrame, DrawTo
  <2>2. frame \in Nat /\ frame < NumFrames /\ blit' = FrameAt(frame)
    BY <1>5 DEF DrawFrame, FrameAt, TypeOK
  <2> QED BY <2>1, <2>2, SameScene
<1>6. CASE AllDrawn
  BY <1>6, SameScene DEF AllDrawn
<1> QED BY <1>1, <1>2, <1>3, <1>4, <1>5, <1>6 DEF Logo

LEMMA GeometryStep == GInv /\ [Next]_vars => GInv'
<1> SUFFICES ASSUME GInv, [Next]_vars PROVE GInv'
  OBVIOUS
<1>1. IInv'
  BY InvStep DEF GInv
<1>2. CASE Logo
  BY <1>1, <1>2, LogoGeometry DEF GInv, IInv
<1>3. CASE UNCHANGED drawing
  BY <1>1, <1>3, SameScene DEF drawing, GInv, DataChecked, FrameFits, FrameDrawn
<1>4. CASE UNCHANGED vars
  BY <1>3, <1>4 DEF vars, drawing
<1> QED BY <1>2, <1>3, <1>4 DEF Next

-----------------------------------------------------------------------------

LEMMA SceneTyped ==
  ASSUME screen \in Screens, bitmap \in Bitmaps
  PROVE  /\ {screen.h, screen.v, bitmap.size, bitmap.offset, bitmap.w, bitmap.h} \subseteq Nat
         /\ Side \in Nat /\ Long \in Nat
BY ScenesAssumption DEF Side, Long, Wide

(* A line in the file holds a line of the image. *)
LEMMA LineHolds ==
  ASSUME bitmap \in Bitmaps
  PROVE  LineSizeBytes \in Nat /\ 3 * bitmap.w <= LineSizeBytes
<1>1. bitmap.w \in Nat /\ 3 * bitmap.w < Word32 /\ Word32 \in Nat
  BY ScenesAssumption
<1>2. LineBytes = 3 * bitmap.w
  BY <1>1 DEF LineBytes
<1>3. (3 * bitmap.w) % 4 \in 0 .. 3
  BY <1>1
<1> QED BY <1>1, <1>2, <1>3 DEF LineSizeBytes

LEMMA CopyInside == GInv => InsideFile
<1> SUFFICES ASSUME GInv, stage = "copy", y < bitmap.h
             PROVE  BmpCurrentLine + 3 * bitmap.w <= bitmap.size
  BY DEF InsideFile
<1>1. bitmap \in Bitmaps /\ y \in Nat /\ EnoughData
  BY DEF GInv, IInv, AtHand, TypeOK, DataChecked
<1>2. {bitmap.h, bitmap.offset, bitmap.size, bitmap.w} \subseteq Nat
  BY <1>1, ScenesAssumption
<1>3. LineSizeBytes \in Nat /\ 3 * bitmap.w <= LineSizeBytes
  BY <1>1, LineHolds
<1>4. (y + 1) * LineSizeBytes <= bitmap.h * LineSizeBytes
  BY <1>1, <1>2, <1>3, ProductsGrow
<1>5. (y + 1) * LineSizeBytes = y * LineSizeBytes + LineSizeBytes
  BY <1>1, <1>3
<1>6. y * LineSizeBytes \in Nat /\ bitmap.h * LineSizeBytes \in Nat
  BY <1>1, <1>2, <1>3
<1> QED BY <1>1, <1>2, <1>3, <1>4, <1>5, <1>6 DEF BmpCurrentLine, EnoughData

LEMMA CentreInside ==
  ASSUME NEW resolution \in Nat, Side \in Nat
  PROVE  Centre(resolution) + Side <= resolution
BY DEF Centre

LEMMA BlitInside == GInv => InsideImage /\ OnScreen
<1> SUFFICES ASSUME GInv, blit # NoScene
             PROVE  /\ Shown1(Side - 1, Side - 1).row < bitmap.h
                    /\ blit.screenX + Side <= screen.h /\ blit.screenY + Side <= screen.v
  BY DEF InsideImage, OnScreen
<1>1. Fits /\ screen \in Screens /\ bitmap \in Bitmaps
  BY DEF GInv, IInv, AtHand, FrameDrawn
<1>2. PICK f \in Nat : f < NumFrames /\ blit = FrameAt(f)
  BY DEF GInv, FrameDrawn
<1>3. /\ {screen.h, screen.v, bitmap.w, bitmap.h} \subseteq Nat
      /\ Side \in Nat /\ Side >= 1
  BY <1>1, SceneTyped DEF Fits
<1>4. blit.screenX + Side <= screen.h /\ blit.screenY + Side <= screen.v
  BY <1>2, <1>3, CentreInside DEF FrameAt
<1> DEFINE pixel == (blit.spriteY + (Side - 1)) * blit.line + blit.spriteX + (Side - 1)
<1>5. pixel \in Nat /\ pixel < bitmap.w * bitmap.h /\ bitmap.w \in Nat \ {0}
  <2>1. CASE Wide
    <3>1. Side = bitmap.h /\ Long = bitmap.w /\ bitmap.h \in Nat \ {0} /\ bitmap.w \in Nat \ {0}
      BY <1>3, <2>1 DEF Side, Long, Wide
    <3>2. f < bitmap.w \div bitmap.h
      BY <1>2, <3>1 DEF NumFrames
    <3>3. pixel = (0 + (bitmap.h - 1)) * bitmap.h + f * bitmap.h + (bitmap.h - 1)
      BY <1>2, <2>1, <3>1 DEF FrameAt
    <3>4. (bitmap.h - 1) * bitmap.h \in Nat /\ f * bitmap.h \in Nat /\ bitmap.h - 1 \in Nat
      BY <3>1
    <3>5. pixel \in Nat
      BY <3>3, <3>4
    <3> QED BY <3>1, <3>2, <3>3, <3>5, LastOfWide
  <2>2. CASE ~Wide
    <3>1. Side = bitmap.w /\ Long = bitmap.h /\ bitmap.w \in Nat \ {0} /\ bitmap.h \in Nat
      BY <1>3, <2>2 DEF Side, Long
    <3>2. f < bitmap.h \div bitmap.w
      BY <1>2, <3>1 DEF NumFrames
    <3>3. pixel = (f * bitmap.w + (bitmap.w - 1)) * bitmap.w + 0 + (bitmap.w - 1)
      BY <1>2, <2>2, <3>1 DEF FrameAt
    <3>4. pixel \in Nat
      BY <3>1, <3>3
    <3> QED BY <3>1, <3>2, <3>3, <3>4, LastOfTall
  <2> QED BY <2>1, <2>2
<1>6. pixel \div bitmap.w < bitmap.h
  BY <1>3, <1>5, QuotientBelow
<1>7. Shown1(Side - 1, Side - 1).row = pixel \div bitmap.w
  BY DEF Shown1
<1> QED BY <1>4, <1>6, <1>7

LEMMA AllFreed == GInv => NothingKept
BY DEF GInv, IInv, PoolHeld, Exactly, Holding, Nothing, NothingKept, StrayEnds

(* BmpFileToImage reads inside the file; DrawImage reads inside the image  *)
(* and draws inside the screen; and ShowAnimatedLogo frees what it took.   *)
THEOREM MemoryIsRespected == Spec => []MemoryRespected
<1>1. GInv => MemoryRespected
  BY CopyInside, BlitInside, AllFreed DEF MemoryRespected
<1> QED BY <1>1, GeometryInit, GeometryStep, PTL DEF Spec

-----------------------------------------------------------------------------
(* The pictures: which line of the file is where in the image, and how     *)
(* many frames have been drawn.                                            *)

(* The places of the copied lines in the file, at the stages that have     *)
(* an image: all of them once the copy is over.                            *)
InPlace(from) ==
  \A r \in from .. bitmap.h - 1 :
    rows[r] = bitmap.offset + (bitmap.h - 1 - r) * LineSizeBytes

NothingCopied == stage \in {"before", "import", "measure", "over"} => y = 0
ImageSized ==
  stage \in {"measure", "copy", "clear", "place", "draw"} => DOMAIN rows = 0 .. bitmap.h - 1
CopiedUpwards == stage = "copy" => y <= bitmap.h /\ InPlace(bitmap.h - y)
AllCopied == stage \in {"clear", "place", "draw"} => InPlace(0)
AllShown == stage = "end" => blit = NoScene \/ frame = NumFrames

Pictures == NothingCopied /\ ImageSized /\ CopiedUpwards /\ AllCopied /\ AllShown
PInv == GInv /\ Pictures

LEMMA PicturesInit == Init => Pictures
BY DEF Init, Pictures, NothingCopied, ImageSized, CopiedUpwards, AllCopied, AllShown

(* What is in place stays so while image and file do.                      *)
LEMMA SamePlaces ==
  ASSUME UNCHANGED <<screen, bitmap, rows>>
  PROVE  \A from : InPlace(from)' = InPlace(from)
BY DEF InPlace, LineSizeBytes, LineBytes

(* The line copied next goes below those in place.                         *)
LEMMA LineGoesBelow ==
  ASSUME TypeOK, AtHand, Pictures, CopyLine
  PROVE  Pictures'
<1>1. /\ stage = "copy" /\ stage' = "copy" /\ y < bitmap.h /\ y' = y + 1
      /\ bitmap' = bitmap /\ screen' = screen
      /\ rows' = [rows EXCEPT ![bitmap.h - y - 1] = BmpCurrentLine]
  BY DEF CopyLine, At
<1>2. bitmap \in Bitmaps /\ y \in Nat
  BY <1>1 DEF AtHand, TypeOK
<1>3. bitmap.h \in Nat /\ bitmap.offset \in Nat
  BY <1>2, ScenesAssumption
<1>4. DOMAIN rows = 0 .. bitmap.h - 1 /\ InPlace(bitmap.h - y)
  BY <1>1 DEF Pictures, ImageSized, CopiedUpwards
<1>5. LineSizeBytes' = LineSizeBytes
  BY <1>1 DEF LineSizeBytes, LineBytes
<1>6. ASSUME NEW r \in bitmap.h - (y + 1) .. bitmap.h - 1
      PROVE  rows'[r] = bitmap.offset + (bitmap.h - 1 - r) * LineSizeBytes
  <2>1. CASE r = bitmap.h - y - 1
    <3>1. bitmap.h - 1 - r = y /\ r \in DOMAIN rows
      BY <1>1, <1>2, <1>3, <1>4, <2>1
    <3>2. rows'[r] = BmpCurrentLine
      BY <1>1, <2>1, <3>1
    <3> QED BY <3>1, <3>2 DEF BmpCurrentLine
  <2>2. CASE r # bitmap.h - y - 1
    <3>1. r \in bitmap.h - y .. bitmap.h - 1 /\ r \in DOMAIN rows
      BY <1>1, <1>2, <1>3, <1>4, <1>6, <2>2
    <3>2. rows'[r] = rows[r]
      BY <1>1, <2>2, <3>1
    <3> QED BY <1>4, <3>1, <3>2 DEF InPlace
  <2> QED BY <2>1, <2>2
<1>7. InPlace(bitmap.h - y)'
  BY <1>1, <1>5, <1>6 DEF InPlace
<1>8. y' <= bitmap'.h
  BY <1>1, <1>2, <1>3
<1>9. DOMAIN rows' = 0 .. bitmap'.h - 1
  BY <1>1, <1>4
<1> QED BY <1>1, <1>7, <1>8, <1>9
        DEF Pictures, NothingCopied, ImageSized, CopiedUpwards, AllCopied, AllShown

LEMMA LogoPictures ==
  ASSUME TypeOK, AtHand, FrameDrawn, Pictures, Logo
  PROVE  Pictures'
<1> USE DEF At, Pictures, NothingCopied, ImageSized, CopiedUpwards, AllCopied, AllShown
<1>1. CASE NoLogo \/ LogoUnread \/ Rejected \/ ImageUnavailable \/ TooLittleData \/ EndLogo
  BY <1>1 DEF NoLogo, LogoUnread, Rejected, ImageUnavailable, TooLittleData, EndLogo, Over
<1>2. CASE ReadBitmap
  BY <1>2 DEF ReadBitmap
<1>3. CASE CreateImage
  BY <1>3 DEF CreateImage
<1>4. CASE DataSuffices
  <2>1. /\ stage = "measure" /\ stage' = "copy" /\ UNCHANGED <<screen, bitmap, y, rows>>
    BY <1>4 DEF DataSuffices
  <2>2. bitmap \in Bitmaps /\ bitmap.h \in Nat /\ y = 0
    BY <2>1, ScenesAssumption DEF AtHand
  <2>3. InPlace(bitmap.h - y)
    BY <2>2 DEF InPlace
  <2>4. (y <= bitmap.h /\ InPlace(bitmap.h - y))'
    BY <2>1, <2>2, <2>3, SamePlaces
  <2> QED BY <2>1, <2>4
<1>5. CASE CopyLine
  BY <1>5, LineGoesBelow
<1>6. CASE Imported
  <2>1. /\ stage = "copy" /\ stage' = "clear" /\ y = bitmap.h
        /\ UNCHANGED <<screen, bitmap, y, rows>>
    BY <1>6 DEF Imported
  <2>2. bitmap \in Bitmaps /\ bitmap.h \in Nat
    BY <2>1, ScenesAssumption DEF AtHand
  <2>3. bitmap.h - y = 0
    BY <2>1, <2>2
  <2>4. InPlace(0)'
    BY <2>1, <2>3, SamePlaces
  <2> QED BY <2>1, <2>4
<1>7. CASE ClearScreen \/ PlaceImage \/ DrawFrame
  BY <1>7, SamePlaces DEF ClearScreen, PlaceImage, DrawFrame, DrawTo
<1>8. CASE DoesNotFit
  BY <1>8 DEF DoesNotFit, FrameDrawn
<1>9. CASE AllDrawn
  BY <1>9, SameScene DEF AllDrawn
<1> QED BY <1>1, <1>2, <1>3, <1>4, <1>5, <1>6, <1>7, <1>8, <1>9 DEF Logo

LEMMA PicturesStep == PInv /\ [Next]_vars => PInv'
<1> SUFFICES ASSUME PInv, [Next]_vars PROVE PInv'
  OBVIOUS
<1>1. GInv'
  BY GeometryStep DEF PInv
<1>2. CASE Logo
  BY <1>1, <1>2, LogoPictures DEF PInv, GInv, IInv
<1>3. CASE UNCHANGED drawing
  <2>1. UNCHANGED <<stage, screen, bitmap, y, rows, frame, blit>>
    BY <1>3 DEF drawing
  <2> QED BY <1>1, <2>1, SameScene, SamePlaces
          DEF PInv, Pictures, NothingCopied, ImageSized, CopiedUpwards, AllCopied, AllShown
<1>4. CASE UNCHANGED vars
  BY <1>3, <1>4 DEF vars, drawing
<1> QED BY <1>2, <1>3, <1>4 DEF Next

-----------------------------------------------------------------------------

(* The place after a whole lines of w and c more is in line a, column c.   *)
LEMMA PlaceInLine ==
  ASSUME NEW w \in Nat \ {0}, NEW a \in Nat, NEW c \in 0 .. w - 1
  PROVE  (a * w + c) \div w = a /\ (a * w + c) % w = c
<1> DEFINE n == a * w + c
           q == n \div w
<1>1. a * w \in Nat /\ n \in Nat
  OBVIOUS
<1>2. q \in Nat /\ n = q * w + (n % w) /\ n % w \in 0 .. w - 1
  BY <1>1
<1>3. q \in Nat /\ q * w \in Nat
  BY <1>2
<1>4. ~(q < a)
  <2> SUFFICES ASSUME q + 1 <= a PROVE FALSE
    BY <1>3
  <2>1. (q + 1) * w <= a * w
    BY <1>3, ProductsGrow
  <2>2. (q + 1) * w = q * w + w
    BY <1>3
  <2> QED BY <1>1, <1>2, <1>3, <2>1, <2>2
<1>5. ~(a < q)
  <2> SUFFICES ASSUME a + 1 <= q PROVE FALSE
    BY <1>3
  <2>1. (a + 1) * w <= q * w
    BY <1>3, ProductsGrow
  <2>2. (a + 1) * w = a * w + w
    OBVIOUS
  <2> QED BY <1>1, <1>2, <1>3, <2>1, <2>2
<1>6. q = a
  BY <1>3, <1>4, <1>5
<1>7. n % w = c
  BY <1>1, <1>2, <1>6
<1> QED BY <1>6, <1>7

LEMMA QuotientLeaves ==
  ASSUME NEW a \in Nat, NEW b \in Nat \ {0}
  PROVE  a - (a \div b) * b \in 0 .. b - 1
<1>1. a \div b \in Nat /\ a = (a \div b) * b + (a % b) /\ a % b \in 0 .. b - 1
  OBVIOUS
<1>2. (a \div b) * b \in Nat
  BY <1>1
<1> QED BY <1>1, <1>2

(* BmpFileToImage's padding is the one of the format. *)
LEMMA LinesPadded ==
  ASSUME bitmap \in Bitmaps
  PROVE  LineSizeBytes = FileLine
<1>1. bitmap.w \in Nat /\ 3 * bitmap.w < Word32 /\ Word32 \in Nat
  BY ScenesAssumption
<1>2. LineBytes = 3 * bitmap.w
  BY <1>1 DEF LineBytes
<1>3. LineBytes \in Nat /\ 3 * bitmap.w = LineBytes
  BY <1>1, <1>2
<1>4. LineSizeBytes = 4 * ((LineBytes + 3) \div 4)
  BY <1>3 DEF LineSizeBytes
<1> QED BY <1>3, <1>4 DEF FileLine

LEMMA ImageUpright == PInv => Upright
<1> SUFFICES ASSUME PInv, stage \in {"clear", "place", "draw"}, NEW r \in 0 .. bitmap.h - 1
             PROVE  rows[r] = bitmap.offset + (bitmap.h - 1 - r) * FileLine
  BY DEF Upright
<1>1. bitmap \in Bitmaps
  BY DEF PInv, GInv, IInv, AtHand
<1>2. InPlace(0)
  BY DEF PInv, Pictures, AllCopied
<1> QED BY <1>1, <1>2, LinesPadded DEF InPlace

(* Half of one number from half of another leaves at most half a pixel.    *)
LEMMA CentreInMiddle ==
  ASSUME NEW resolution \in Nat, Side \in Nat, Side <= resolution
  PROVE  resolution - Side - 2 * Centre(resolution) \in -1 .. 1
BY DEF Centre

LEMMA FramesFaithful == PInv => OwnSquare /\ Centred /\ NoneLeftOut
<1> SUFFICES ASSUME PInv, blit # NoScene
             PROVE  OwnSquare /\ Centred /\ NoneLeftOut
  BY DEF OwnSquare, Centred, NoneLeftOut
<1>1. Fits /\ screen \in Screens /\ bitmap \in Bitmaps
  BY DEF PInv, GInv, IInv, AtHand, FrameDrawn
<1>2. PICK f \in Nat : f < NumFrames /\ blit = FrameAt(f)
  BY DEF PInv, GInv, FrameDrawn
<1>3. /\ {screen.h, screen.v, bitmap.w, bitmap.h} \subseteq Nat
      /\ Side \in Nat \ {0} /\ Side <= screen.h /\ Side <= screen.v /\ Long \in Nat
  BY <1>1, SceneTyped DEF Fits
<1>4. OwnSquare
  <2> SUFFICES ASSUME ~Wide, NEW row \in 0 .. Side - 1, NEW column \in 0 .. Side - 1
               PROVE  Shown1(row, column) = [row |-> blit.frame * Side + row, column |-> column]
    BY DEF OwnSquare
  <2>1. Side = bitmap.w
    BY DEF Side
  <2>2. /\ blit.frame = f /\ blit.line = bitmap.w
        /\ blit.spriteX = 0 /\ blit.spriteY = f * bitmap.w
    BY <1>2, <2>1 DEF FrameAt
  <2> DEFINE a == f * bitmap.w + row
  <2>3. a \in Nat /\ bitmap.w \in Nat \ {0} /\ column \in 0 .. bitmap.w - 1
    BY <1>3, <2>1
  <2>4. (a * bitmap.w + column) \div bitmap.w = a /\ (a * bitmap.w + column) % bitmap.w = column
    BY <2>3, PlaceInLine
  <2>5. a * bitmap.w + 0 + column = a * bitmap.w + column
    BY <2>3
  <2> QED BY <2>1, <2>2, <2>4, <2>5 DEF Shown1
<1>5. Centred
  BY <1>2, <1>3, CentreInMiddle DEF Centred, FrameAt
<1>6. NoneLeftOut
  <2> SUFFICES ASSUME stage = "end" PROVE Long - frame * Side \in 0 .. Side - 1
    BY DEF NoneLeftOut
  <2>1. frame = Long \div Side
    BY DEF PInv, Pictures, AllShown, NumFrames
  <2> QED BY <1>3, <2>1, QuotientLeaves
<1> QED BY <1>4, <1>5, <1>6

(* The imported image is the bitmap turned upright, each frame of a tall   *)
(* image shows its own square in the middle of the screen, and AnimateImage*)
(* leaves out no whole frame.                                              *)
THEOREM PicturesAreFaithful == Spec => []PicturesFaithful
<1>1. Init => PInv
  BY GeometryInit, PicturesInit DEF PInv
<1>2. PInv => PicturesFaithful
  BY ImageUpright, FramesFaithful DEF PicturesFaithful
<1> QED BY <1>1, <1>2, PicturesStep, PTL DEF Spec
===============================================================================
