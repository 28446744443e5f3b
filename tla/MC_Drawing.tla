----------------------------- MODULE MC_Drawing -----------------------------
(***************************************************************************)
(* Cases for model checking Drawing: images of one to five pixels a side,  *)
(* in files that hold all of their lines, a byte less, or no image, on     *)
(* screens of odd and even sides that the frames fit or do not.            *)
(***************************************************************************)
EXTENDS Drawing

Whole(w, h) == HeaderSize + h * 4 * ((3 * w + 3) \div 4)

MCBitmaps ==
  {[supported |-> TRUE, size |-> Whole(w, h) - missing, offset |-> HeaderSize, w |-> w, h |-> h] :
     w \in 1 .. 5, h \in 1 .. 5, missing \in {0, 1}}
  \cup {[supported |-> TRUE, size |-> 60, offset |-> HeaderSize, w |-> 0, h |-> 1],
        [supported |-> FALSE, size |-> 60, offset |-> HeaderSize, w |-> 1, h |-> 1],
        [supported |-> TRUE, size |-> HeaderSize - 1, offset |-> HeaderSize, w |-> 1, h |-> 1]}

MCScreens ==
  [protocol : {"gop", "uga"}, h : {2, 5}, v : {3, 4}]
  \cup [protocol : {"none"}, h : {0}, v : {0}]

MCWord32 == 2 ^ 20
===============================================================================
