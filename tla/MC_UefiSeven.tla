----------------------------- MODULE MC_UefiSeven -----------------------------
(***************************************************************************)
(* Machines for model checking UefiSeven: one for each way the display     *)
(* routines and ShimVesaInformation can end, at a resolution of 4 by 3,    *)
(* and one mode with scan lines too long for the 16 bits VBE has for them. *)
(***************************************************************************)
EXTENDS UefiSeven

Wanted == [h |-> 4, v |-> 3, format |-> "BGR", stride |-> 6]
Unusable == [h |-> 4, v |-> 3, format |-> "other", stride |-> 4]
Narrow == [h |-> 3, v |-> 2, format |-> "RGB", stride |-> 3]
Padded == [h |-> 6, v |-> 4, format |-> "BGR", stride |-> 16]

MCMachines == {
  [adapter |-> "GOP", modes |-> <<Padded, Wanted>>, base |-> 64],
  [adapter |-> "GOP", modes |-> <<Narrow>>, base |-> 64],
  [adapter |-> "GOP", modes |-> <<Unusable>>, base |-> 64],
  [adapter |-> "UGA", modes |-> <<Narrow>>, base |-> 64],
  [adapter |-> "NONE", modes |-> <<Padded>>, base |-> 64] }

(* A screen that needs the hack when the firmware refuses the wanted mode, *)
(* and both descriptions within reach of the VBE fields.                   *)
Wide == [h |-> 6, v |-> 4, format |-> "BGR", stride |-> 8]
MCTwoScreens == {[adapter |-> "GOP", modes |-> <<Wide, Wanted>>, base |-> 64]}
===============================================================================
