--------------------------- MODULE MC_Int10hHandler ---------------------------
(***************************************************************************)
(* Callers for model checking Int10hHandler: every VBE function the        *)
(* handler knows and a few it does not, with the mode numbers it accepts   *)
(* and near misses, and both states of the direction flag.  The registers  *)
(* that merely have to survive hold distinct values.                       *)
(***************************************************************************)
EXTENDS Int10hHandler

Functions == {20224, 20225, 20226, 20227, 20240, 20245, 20228, 3, 18, 19, 0, 259, 3649}
ModesAsked == {241, 16625, 33009, 257}

MCRequests ==
  { [ax |-> f, bx |-> b, cx |-> c, dx |-> 11, si |-> 12, di |-> 13, ds |-> 14,
     es |-> 15, cs |-> CallerSegment, zf |-> 0, df |-> d]
    : f \in Functions, b \in {241, 16625}, c \in ModesAsked, d \in {0, 1} }

MCCallerStack == <<21, 22, 23, 24>>
===============================================================================
