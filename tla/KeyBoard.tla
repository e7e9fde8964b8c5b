------------------------------ MODULE KeyBoard ------------------------------
(***************************************************************************)
(* The keyboard driver between the keys of a PS/2 keyboard and the         *)
(* KEYPRESS message of the process with the focus.  The keyboard sends a   *)
(* make code when a key goes down, more of them while it is held, and a    *)
(* break code when it comes up; each code is one interrupt, in which       *)
(* HandleScanCode runs and, for a make code, KeyBoardInterupt.             *)
(*                                                                         *)
(* A key is named by what it is, a character by what the tables of         *)
(* KeyBoard.cpp make of it.  The keys are those whose rows of the two      *)
(* tables differ in kind: LEFT_SHIFT and CAPS_LOCK, the keypad's star,     *)
(* whose character is the number of LEFT_SHIFT, a letter that differs      *)
(* between the tables, the arrow whose character is that letter's capital, *)
(* a digit that has a character of its own in either table, and a key      *)
(* whose character is 0.                                                   *)
(***************************************************************************)
EXTENDS Integers

CONSTANT Keys     \* the keys of this keyboard

Row(p, s) == [plain |-> p, shifted |-> s]

(* ScanCodeTable and ShiftedScanCodeTable.                                 *)
Table == [shift |-> Row("LEFT_SHIFT", "LEFT_SHIFT"),
          star  |-> Row("LEFT_SHIFT", "LEFT_SHIFT"),
          caps  |-> Row("CAPS_LOCK", "CAPS_LOCK"),
          h     |-> Row("h", "H"),
          up    |-> Row("H", "H"),
          one   |-> Row("1", "!"),
          rshift |-> Row("nul", "nul")]

ASSUME KeysAssumption == Keys \subseteq DOMAIN Table

Character == {"LEFT_SHIFT", "CAPS_LOCK", "h", "H", "1", "!", "nul"}
None == "nul"                    \* the character 0: no key

VARIABLES KeyCache, CurrentKey, CapsLocked,
          down,        \* the keys that are held down
          typing,      \* a process has the focus
          message,     \* the key of the last KEYPRESS message, or "none"
          waiting      \* presses whose character waits in CurrentKey

keyVars == <<KeyCache, CurrentKey, CapsLocked, down, typing, message, waiting>>

KeyTypeOK == /\ KeyCache \in [Character -> BOOLEAN]
             /\ CurrentKey \in Character
             /\ CapsLocked \in BOOLEAN
             /\ down \subseteq Keys
             /\ typing \in BOOLEAN
             /\ message \in Character \cup {"none"}
             /\ waiting \subseteq Keys

KeyInit == /\ KeyCache = [c \in Character |-> FALSE]
           /\ CurrentKey = None
           /\ CapsLocked = FALSE
           /\ down = {}
           /\ typing \in BOOLEAN
           /\ message = "none"
           /\ waiting = {}

-----------------------------------------------------------------------------
(* The character of key k with the table that shift and caps lock select.  *)
Char(k) == IF CapsLocked \/ KeyCache["LEFT_SHIFT"] THEN Table[k].shifted ELSE Table[k].plain

(* Slip: a release leaves the character in CurrentKey.                     *)
CurrentAlways(c, isUp) == c

Cached(c, isUp)  == [KeyCache EXCEPT ![c] = ~isUp]
Current(c, isUp) == IF isUp THEN None ELSE c

Modifier(c) == c \in {"CAPS_LOCK", "LEFT_SHIFT"}

(* The switch of HandleScanCode for a character c: what it does to the     *)
(* table and to caps lock, and what it leaves in CurrentKey, from key k.   *)
HandleScanCode(c, isUp) ==
    /\ KeyCache' = IF c = "CAPS_LOCK" THEN KeyCache ELSE Cached(c, isUp)
    /\ CapsLocked' = IF c = "CAPS_LOCK" /\ ~isUp THEN ~CapsLocked ELSE CapsLocked

KeyLeft(c, isUp) == IF Modifier(c) THEN CurrentKey ELSE Current(c, isUp)

Waits(c, k, isUp) == IF Modifier(c) THEN waiting ELSE IF isUp THEN {} ELSE {k}

(* A make code: the key goes down, or is still down and repeats.  The      *)
(* KEYPRESS message takes CurrentKey out (GetKeyPress), unless no process  *)
(* has the focus.                                                          *)
Press(k) ==
    LET c == Char(k) IN
    /\ down' = down \cup {k}
    /\ HandleScanCode(c, FALSE)
    /\ IF typing
       THEN message' = KeyLeft(c, FALSE) /\ CurrentKey' = None /\ waiting' = {}
       ELSE CurrentKey' = KeyLeft(c, FALSE) /\ waiting' = Waits(c, k, FALSE) /\ UNCHANGED message
    /\ UNCHANGED typing

(* A break code.                                                           *)
Release(k) ==
    LET c == Char(k) IN
    /\ k \in down
    /\ down' = down \ {k}
    /\ HandleScanCode(c, TRUE)
    /\ CurrentKey' = KeyLeft(c, TRUE)
    /\ waiting' = Waits(c, k, TRUE)
    /\ UNCHANGED <<typing, message>>

(* The prefix 0xE0 of the keys that have one: a break code beyond the end  *)
(* of both tables, for whatever character lies there.                      *)
Prefix ==
    \E c \in Character :
        /\ HandleScanCode(c, TRUE)
        /\ CurrentKey' = KeyLeft(c, TRUE)
        /\ waiting' = IF Modifier(c) THEN waiting ELSE {}
        /\ UNCHANGED <<down, typing, message>>

(* SetFocusedProcess, or a reset or a kill that clears FocusedProcess.     *)
Focus == typing' = ~typing /\ UNCHANGED <<KeyCache, CurrentKey, CapsLocked, down, message, waiting>>

KeyNext == (\E k \in Keys : Press(k) \/ Release(k)) \/ Prefix \/ Focus

KeySpec == KeyInit /\ [][KeyNext]_keyVars

-----------------------------------------------------------------------------
(* The shift state never sticks: the tables and focus may change in any    *)
(* order, but LEFT_SHIFT is only set while left shift, or the keypad's star*)
(* that passes for it, is down.                                            *)
ShiftNeverSticks == KeyCache["LEFT_SHIFT"] => {"shift", "star"} \cap down # {}

(* A character waits in CurrentKey only while the key that gave it is held,*)
(* so that a message after a change of focus never carries a key that was  *)
(* let go.                                                                 *)
WaitingKeyIsDown ==
    CurrentKey # None =>
        \E k \in waiting \cap down : CurrentKey \in {Table[k].plain, Table[k].shifted}

(* No KEYPRESS message carries a character whose key is not down as it is  *)
(* sent, though LEFT_SHIFT and CAPS_LOCK send what waited in CurrentKey.   *)
DeliveredIsDown ==
    [][message' \notin {message, None} =>
          \E k \in down' : message' \in {Table[k].plain, Table[k].shifted}]_keyVars

(* No key outlives its release: not as shift, not in CurrentKey, not in a  *)
(* message.                                                                *)
KeysReleased == [](KeyTypeOK /\ ShiftNeverSticks /\ WaitingKeyIsDown) /\ DeliveredIsDown
=============================================================================
