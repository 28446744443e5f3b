------------------------------ MODULE Chainload ------------------------------
(***************************************************************************)
(* What a start of UefiMain promises about the Windows boot manager,       *)
(* whatever becomes of the installation and of the files: it is looked for *)
(* after the installation is over, it is started at most once, and only by *)
(* a program that knows where it was itself started from.                  *)
(***************************************************************************)

VARIABLES
  stage,  \* how far this start has come
  known   \* the program's own path is known

vars == <<stage, known>>

Init == stage = "starting" /\ known = FALSE

(* The own path and the settings are found, or the installation is skipped. *)
Prepare ==
  /\ stage = "starting"
  /\ known' \in BOOLEAN
  /\ stage' = IF known' THEN "installing" ELSE "leaving"

Install ==
  /\ stage = "installing" /\ stage' = "leaving"
  /\ UNCHANGED known

LookForBootManager ==
  /\ stage = "leaving" /\ stage' = "launching"
  /\ UNCHANGED known

Accept ==
  /\ stage = "launching" /\ known
  /\ stage' = "accepted"
  /\ UNCHANGED known

Boot ==
  /\ stage = "accepted" /\ stage' = "booted"
  /\ UNCHANGED known

(* No image, a wrong one, or one that came back. *)
Return ==
  /\ stage \in {"leaving", "launching", "accepted"}
  /\ stage' = "over"
  /\ UNCHANGED known

Again ==
  /\ stage = "over" /\ stage' = "starting"
  /\ known' = FALSE

Next ==
  Prepare \/ Install \/ LookForBootManager \/ Accept \/ Boot \/ Return \/ Again

Behaviour == Init /\ [][Next]_vars
===============================================================================
