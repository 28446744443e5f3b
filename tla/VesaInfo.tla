------------------------------- MODULE VesaInfo -------------------------------
(***************************************************************************)
(* The numbers ShimVesaInformation of UefiSeven.c derives from             *)
(* mDisplayInfo and leaves in the VBE blocks at the head of the shim, with *)
(* the widths the C code computes them in.                                 *)
(***************************************************************************)
EXTENDS Integers

CONSTANTS
  Width, Height,  \* of the one mode offered: 1024 by 768
  W16, W32,       \* 2^16 and 2^32
  Bank            \* bytes in a unit of video memory: 65536

(* An adapter was found, and its pixels have a layout VBE can describe.    *)
Found(d) == d.protocol # "NONE"
Describable(d) == d.format \in {"BGR", "RGB"}

(* UINT32 subtraction wraps when the screen is smaller than the mode.      *)
HorizontalOffsetPx(d) == ((d.h - Width) % W32) \div 2
VerticalOffsetPx(d) == ((((d.v - Height) % W32) \div 2) * d.stride) % W32

FrameBufferBaseWithOffset(d) ==
  d.base + ((VerticalOffsetPx(d) * 4) % W32) + ((HorizontalOffsetPx(d) * 4) % W32)

(* PixelsPerScanLine is cut to 16 bits before it is multiplied, and after; *)
(* the mutants take the visible width for the length of a scan line, and   *)
(* do not cut it.                                                          *)
BytesOfVisibleLine(d) == (d.h * 4) % W16
BytesUncut(d) == d.stride * 4
BytesPerScanLine(d) == ((d.stride % W16) * 4) % W16

VideoMem64K(d) == ((d.size * 4 + Bank - 1) \div Bank) % W16

(* The mode information Windows reads; red and blue come from the format.  *)
ModeInfo(d) ==
  [lfb |-> FrameBufferBaseWithOffset(d) % W32,
   pitch |-> BytesPerScanLine(d),
   memory |-> VideoMem64K(d),
   layout |-> d.format]

(* Where in physical memory pixel (x, y) of the offered mode is, according *)
(* to the mode information and according to a description of the screen.   *)
AddressByVbe(m, x, y) == m.lfb + y * m.pitch + 4 * x
AddressOnScreen(s, x, y) == s.base + 4 * (y * s.stride + x)

(* The description fits the fields VBE has for it: address, scan line, and *)
(* size in banks.                                                          *)
FitsVbe(s) ==
  /\ s.base + 4 * s.size < W32
  /\ 4 * s.stride < W16
  /\ 4 * s.size <= (W16 - 1) * Bank

(* The mode information describes the screen s.                            *)
Describes(m, s) ==
  /\ \A x \in 0 .. Width - 1, y \in 0 .. Height - 1 :
       AddressByVbe(m, x, y) = AddressOnScreen(s, x, y)
  /\ m.layout = s.format
  /\ m.memory * Bank >= 4 * s.size
===============================================================================
