------------------------------ MODULE MC_Display ------------------------------
(***************************************************************************)
(* Machines for model checking Display, at a resolution of 4 by 3 instead  *)
(* of 1024 by 768: adapters with and without the wanted mode, in usable    *)
(* and unusable formats, with padded scan lines, and modes narrower than   *)
(* half the wanted width, so that the scaling loop turns more than once.   *)
(***************************************************************************)
EXTENDS Display

Small == [h |-> 1, v |-> 1, format |-> "BGR", stride |-> 1]
Narrow == [h |-> 3, v |-> 2, format |-> "BGR", stride |-> 3]
Wanted == [h |-> 4, v |-> 3, format |-> "BGR", stride |-> 4]
WantedPadded == [h |-> 4, v |-> 3, format |-> "RGB", stride |-> 6]
WantedUnusable == [h |-> 4, v |-> 3, format |-> "other", stride |-> 4]
Wide == [h |-> 5, v |-> 3, format |-> "RGB", stride |-> 5]
WideUnusable == [h |-> 6, v |-> 4, format |-> "other", stride |-> 8]

Tables == {
  <<Wide, Wanted, Narrow, WantedPadded>>,
  <<Small, Narrow, Wide>>,
  <<WantedUnusable, Narrow, Wanted>>,
  <<WideUnusable, WantedUnusable>>,
  <<Narrow>> }

MCMachines ==
  [adapter : {"GOP"}, modes : Tables, base : {0}]
    \cup [adapter : {"UGA", "UGA without mode", "NONE"}, modes : {<<Wanted>>, <<Wide>>}, base : {0}]
===============================================================================
