------------------------------- MODULE Console -------------------------------
(***************************************************************************)
(* The program's dialogue with the user: messages through                  *)
(* PrintFuncNameMessage, prompts through WaitForEnter, the keys UefiMain   *)
(* looks for, and the switch between text and graphics that messages and   *)
(* drawing call for.  The user types whenever he likes, also before he is  *)
(* asked.                                                                  *)
(***************************************************************************)
EXTENDS Integers, Sequences

CONSTANTS MaxKeys  \* size of the keyboard's buffer

ASSUME MaxKeysAssumption == MaxKeys \in Nat \ {0}

VARIABLES
  control,  \* the console's mode, or "none" without the protocol
  keys,     \* keys typed and not read
  verbose,  \* mVerboseMode
  place,    \* how far UefiMain has come
  prompt,   \* "none", "asked" (the message is out) or "waiting"
  key,      \* Key of WaitForEnter, "unset" before the first key is read
  pressed,  \* history: Enter was typed since this prompt began to wait
  faulted   \* history: something failed that could have worked

console == <<control, keys, verbose, place, prompt, key, pressed>>

Keys == {"enter", "v", "f8"}

(* SwitchToMode, never forced: the mode is set if it can be read and       *)
(* differs; setting it may fail.                                           *)
SwitchToMode(new) ==
  \/ /\ control' = IF control = "none" THEN "none" ELSE new
     /\ UNCHANGED faulted
  \/ /\ control \notin {"none", new}
     /\ faulted' = TRUE
     /\ UNCHANGED control

SwitchToText == SwitchToMode("text")
SwitchToGraphics == SwitchToMode("graphics")

(* PrintFuncNameMessage: an error, or in verbose mode any message, is      *)
(* shown, in text mode, unless there is no memory to put it together.  The *)
(* mutant switches in verbose mode only.                                   *)
Shown(isError) == isError \/ verbose

PrintInPlace(isError) ==
  IF verbose THEN SwitchToText ELSE UNCHANGED <<control, faulted>>

PrintFuncNameMessage(isError) ==
  IF Shown(isError)
    THEN \/ SwitchToText
         \/ faulted' = TRUE /\ UNCHANGED control
    ELSE UNCHANGED <<control, faulted>>

-----------------------------------------------------------------------------

ConsoleInit ==
  /\ control \in {"text", "graphics", "none"}
  /\ keys = <<>> /\ verbose \in BOOLEAN
  /\ place = "start" /\ prompt = "none"
  /\ key = "unset" /\ pressed = FALSE /\ faulted = FALSE

Type(c) ==
  /\ Len(keys) < MaxKeys
  /\ keys' = Append(keys, c)
  /\ pressed' = (pressed \/ c = "enter")
  /\ UNCHANGED <<control, verbose, place, prompt, key, faulted>>

Running(p) == place = p /\ prompt = "none"

(* One ReadKeyStroke that does not wait. *)
TakeKey == keys' = IF keys = <<>> THEN keys ELSE Tail(keys)
Next1 == IF keys = <<>> THEN "none" ELSE Head(keys)

(* 'v' turns on verbose mode, which begins with a note and a prompt: the   *)
(* note is shown like an error.                                            *)
LookForV ==
  /\ Running("start")
  /\ IF verbose THEN UNCHANGED keys ELSE TakeKey
  /\ verbose' = (verbose \/ Next1 = "v")
  /\ IF verbose' THEN prompt' = "asked" /\ PrintFuncNameMessage(TRUE)
                 ELSE UNCHANGED <<prompt, control, faulted>>
  /\ place' = "main"
  /\ UNCHANGED <<key, pressed>>

(* Any message of the program, and an error that a prompt follows.         *)
Message ==
  /\ Running("main")
  /\ \E isError \in BOOLEAN : PrintFuncNameMessage(isError)
  /\ UNCHANGED <<keys, verbose, place, prompt, key, pressed>>

Ask ==
  /\ Running("main")
  /\ PrintFuncNameMessage(TRUE)
  /\ prompt' = "asked"
  /\ UNCHANGED <<keys, verbose, place, key, pressed>>

(* WaitForEnter: what was typed before is dropped, if the keyboard can be  *)
(* reset; a mutant does not reset it.                                      *)
BeginToWait ==
  /\ prompt = "asked" /\ prompt' = "waiting"
  /\ key' = "unset" /\ pressed' = FALSE
  /\ UNCHANGED <<control, verbose, place>>

WaitWithoutReset == BeginToWait /\ UNCHANGED <<keys, faulted>>

Wait ==
  /\ BeginToWait
  /\ \/ keys' = <<>> /\ UNCHANGED faulted
     \/ UNCHANGED keys /\ faulted' = TRUE

(* A key is read; a mutant misses it if another was read before. *)
KeyReadInto(next) ==
  /\ prompt = "waiting" /\ keys # <<>>
  /\ TakeKey /\ key' = Head(keys)
  /\ prompt' = next
  /\ UNCHANGED <<control, verbose, place, pressed, faulted>>

ReadFirstKeyOnly ==
  KeyReadInto(IF key = "unset" /\ Head(keys) = "enter" THEN "none" ELSE "waiting")
ReadKeyStroke ==
  KeyReadInto(IF Head(keys) = "enter" THEN "none" ELSE "waiting")

(* WaitForEvent returned although there is no key.  ReadKeyStroke fails    *)
(* and Key is compared as it is: never set, it may happen to be Enter.     *)
ReadNothing ==
  /\ prompt = "waiting" /\ keys = <<>>
  /\ prompt' \in IF key = "unset" THEN {"none", "waiting"} ELSE {"waiting"}
  /\ faulted' = TRUE
  /\ UNCHANGED <<control, keys, verbose, place, key, pressed>>

(* The last look for a key; F8 brings a prompt.  In verbose mode it is     *)
(* Launch that prompts, if it gets as far as starting the boot manager.    *)
LookForF8 ==
  /\ Running("main") /\ ~verbose
  /\ TakeKey
  /\ place' = "launch"
  /\ IF Next1 = "f8" THEN prompt' = "asked" /\ PrintFuncNameMessage(TRUE)
                     ELSE UNCHANGED <<prompt, control, faulted>>
  /\ UNCHANGED <<verbose, key, pressed>>

LaunchVerbosely ==
  /\ Running("main") /\ verbose
  /\ place' = "launch"
  /\ \/ prompt' = "asked" /\ PrintFuncNameMessage(TRUE)
     \/ UNCHANGED <<prompt, control, faulted>>
  /\ UNCHANGED <<keys, verbose, key, pressed>>

Leave ==
  /\ Running("launch") /\ place' = "left"
  /\ UNCHANGED <<control, keys, verbose, prompt, key, pressed, faulted>>

Dialogue ==
  \/ LookForV \/ Message \/ Ask
  \/ Wait \/ ReadKeyStroke \/ ReadNothing
  \/ LookForF8 \/ LaunchVerbosely \/ Leave

-----------------------------------------------------------------------------

ConsoleTypeOK ==
  /\ control \in {"text", "graphics", "none"}
  /\ keys \in Seq(Keys) /\ Len(keys) <= MaxKeys
  /\ place \in {"start", "main", "launch", "left"}
  /\ prompt \in {"none", "asked", "waiting"}
  /\ key \in Keys \cup {"unset"}
  /\ {verbose, pressed, faulted} \subseteq BOOLEAN

(* A user who is waited for can read what for: the console is in text      *)
(* mode, unless a call to get it there, or the message's memory, failed.   *)
PromptIsSeen == prompt = "waiting" /\ ~faulted => control # "graphics"

(* Unless a call failed, only an Enter typed while the prompt waits ends   *)
(* it: not one typed earlier, and not whatever Key held before.            *)
OnlyEnterAnswers ==
  [][prompt = "waiting" /\ prompt' = "none" => pressed \/ faulted']_<<console, faulted>>

(* An Enter typed at a prompt ends it, whatever was typed before it. *)
EnterEndsPrompt ==
  (prompt = "waiting" /\ \E j \in DOMAIN keys : keys[j] = "enter") ~> (prompt = "none")
===============================================================================
