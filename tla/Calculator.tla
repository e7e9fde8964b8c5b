------------------------------ MODULE Calculator ------------------------------
(***************************************************************************)
(* The calculator: MOUSE messages press its buttons, which edit the label  *)
(* and combine it with PreviousNum.  Numbers are uint64_t, PreviousNum and *)
(* what ToString shows of a number are uint32_t.                           *)
(*                                                                         *)
(* Of the label's text its number and how many digits were typed are kept; *)
(* the number that ToInt makes of "DIV BY ZERO!" is a constant.            *)
(***************************************************************************)
EXTENDS Integers

CONSTANTS Digit,       \* the digits that are pressed
          MaxDigits,   \* that the label takes, 12 in the source
          Word,        \* the numbers of a uint32_t, 2^32
          Long,        \* the numbers of a uint64_t, 2^64
          Garbage,     \* ToInt("DIV BY ZERO!")
          MaxPresses   \* bounds the presses of operators and =

(* Ten to the power of n. *)
Power[n \in 0 .. MaxDigits] == IF n = 0 THEN 1 ELSE 10 * Power[n - 1]

DigitAssumption == Digit \subseteq 0 .. 9 /\ MaxDigits \in Nat \ {0} /\ Power[MaxDigits] <= Long
WordAssumption == Word \in Nat \ {0} /\ Long \in Nat \ {0} /\ Long % Word = 0
GarbageAssumption == Garbage \in 0 .. Long - 1 /\ MaxPresses \in Nat
CalcAssumption == DigitAssumption /\ WordAssumption /\ GarbageAssumption

Operator == {"+", "-", "*", "/"}

Button == ({"digit"} \X Digit) \cup ({"other"} \X (Operator \cup {"=", "."}))

NoButton == <<"other", "none">>

NoOperator == "none"

VARIABLES Pressed,            \* the button that is Pressed, or NoOperator
          Label,              \* the label's number
          length,             \* the length of a typed label
          ClearLabel,
          PreviousNum,
          PreviousOperator,
          presses,
          \* what a calculator should show, and for what:
          value,              \* the expression's value before pending
          pending,            \* its last operator
          used,               \* the operators of the expression
          chained,            \* it has several
          exact,              \* its operands were typed, and fit a uint32_t
          entered,            \* a digit came since the last operator or =
          done                \* the last press was =

calcVars == <<Pressed, Label, length, ClearLabel, PreviousNum, PreviousOperator, presses,
              value, pending, used, chained, exact, entered, done>>

CalcInit ==
    /\ Pressed = NoButton
    /\ Label = 0 /\ length = 1 /\ ClearLabel = TRUE
    /\ PreviousNum = 0 /\ PreviousOperator = NoOperator
    /\ presses = 0
    /\ value = 0 /\ pending = NoOperator /\ used = {} /\ chained = FALSE
    /\ exact = TRUE /\ entered = FALSE /\ done = FALSE

-----------------------------------------------------------------------------
(* What the expression's value becomes with the operand n.                 *)
Apply(op, a, n) == CASE op = NoOperator -> n
                     [] op = "+" -> (a + n) % Word
                     [] op = "-" -> (a - n) % Word
                     [] op = "*" -> (a * n) % Word
                     [] op = "/" -> IF n = 0 THEN 0 ELSE a \div n

Operand == /\ value' = Apply(pending, value, Label)
           /\ exact' = /\ Label < Word
                       /\ pending # NoOperator => exact /\ entered
                       /\ pending = "/" => Label # 0
           /\ entered' = FALSE
           /\ presses' = presses + 1

RoomLeft == length < MaxDigits

Digits(d) ==
    /\ IF ClearLabel
       THEN Label' = d /\ length' = 1
       ELSE IF RoomLeft
            THEN Label' = 10 * Label + d /\ length' = length + 1
            ELSE UNCHANGED <<Label, length>>
    /\ ClearLabel' = FALSE
    /\ entered' = TRUE
    /\ done' = FALSE
    /\ UNCHANGED <<PreviousNum, PreviousOperator, presses, value, pending, used, chained, exact>>

Shown(n) == n % Word

(* The result of =, for what PreviousOperator was.                         *)
Result == CASE PreviousOperator = "+" -> Shown((PreviousNum + Label) % Long)
            [] PreviousOperator = "-" -> Shown((PreviousNum - Label) % Long)
            [] PreviousOperator = "*" -> Shown((PreviousNum * Label) % Long)
            [] PreviousOperator = "/" -> IF Label = 0 THEN Garbage ELSE Shown(PreviousNum \div Label)
            [] PreviousOperator = NoOperator -> Label

(* Slip: PreviousNum stays. *)
AfterEqualsKept == PreviousNum

AfterEquals == IF PreviousOperator = NoOperator THEN PreviousNum ELSE 0

Equals ==
    /\ Label' = Result
    /\ PreviousNum' = AfterEquals
    /\ ClearLabel' = TRUE
    /\ PreviousOperator' = NoOperator
    /\ Operand
    /\ pending' = NoOperator
    /\ done' = TRUE
    /\ UNCHANGED <<length, used, chained>>

(* What an operator's button shows, and what it keeps for later.           *)
Combined(op) == CASE op = "+" -> (PreviousNum + Label) % Long
                  [] op = "-" -> (PreviousNum - Label) % Long
                  [] op = "*" -> (PreviousNum * Label) % Long
                  [] op = "/" -> IF Label = 0 THEN Garbage ELSE PreviousNum \div Label

Kept(op) == (IF op \in {"+", "-"} THEN Combined(op) ELSE Label) % Word

Operate(op) ==
    /\ Label' = IF op = "/" /\ Label = 0 THEN Garbage ELSE Shown(Combined(op))
    /\ ClearLabel' = TRUE
    /\ PreviousOperator' = op
    /\ PreviousNum' = Kept(op)
    /\ Operand
    /\ pending' = op
    /\ used' = IF pending = NoOperator THEN {op} ELSE used \cup {op}
    /\ chained' = (pending # NoOperator)
    /\ done' = FALSE
    /\ UNCHANGED length

(* Button::IsPressed: a button acts when it becomes Pressed, and a held    *)
(* mouse button may be moved from one to the next.                         *)
Acts(b) == b # NoButton /\ b # Pressed

MOUSE ==
    \E b \in Button \cup {NoButton} :
        /\ Pressed' = b
        /\ \/ /\ ~Acts(b) \/ b = <<"other", ".">>
              /\ UNCHANGED <<Label, length, ClearLabel, PreviousNum, PreviousOperator, presses,
                             value, pending, used, chained, exact, entered, done>>
           \/ Acts(b) /\ b[1] = "digit" /\ Digits(b[2])
           \/ Acts(b) /\ b = <<"other", "=">> /\ presses < MaxPresses /\ Equals
           \/ \E op \in Operator :
                  Acts(b) /\ b = <<"other", op>> /\ presses < MaxPresses /\ Operate(op)

CalcNext == MOUSE

CalcSpec == CalcInit /\ [][CalcNext]_calcVars

-----------------------------------------------------------------------------
CalcTypeOK ==
    /\ Pressed \in Button \cup {NoButton}
    /\ Label \in 0 .. Long - 1 /\ length \in 1 .. MaxDigits
    /\ PreviousNum \in 0 .. Word - 1
    /\ ClearLabel \in BOOLEAN
    /\ PreviousOperator \in Operator \cup {NoOperator}
    /\ pending = PreviousOperator
    /\ presses \in 0 .. MaxPresses
    /\ value \in 0 .. Long - 1 /\ used \subseteq Operator
    /\ chained \in BOOLEAN /\ exact \in BOOLEAN /\ entered \in BOOLEAN /\ done \in BOOLEAN

(* What = shows after additions is the sum of the numbers typed, modulo    *)
(* 2^32, whatever was calculated and which results it began with before.   *)
SumRight == done /\ exact /\ used = {"+"} => Label = value

(* Two numbers are multiplied and divided right.                           *)
ProductRight == done /\ exact /\ used \in {{"*"}, {"/"}} /\ ~chained => Label = value

(* What = shows is right, modulo 2^32, of sums and of single products.     *)
ArithmeticRight == CalcTypeOK /\ SumRight /\ ProductRight
=============================================================================
