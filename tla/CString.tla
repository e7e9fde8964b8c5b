------------------------------- MODULE CString -------------------------------
(***************************************************************************)
(* The functions on C strings that System's commands are made of: words,   *)
(* the hash of a word, and numbers as text.  A string is the sequence of   *)
(* its characters' codes without the 0 at its end, and a pointer into it   *)
(* is an index, or what is left of the string from there.                  *)
(***************************************************************************)
EXTENDS Integers, Sequences

Space == 32

EndsWord(s, i) == i > Len(s) \/ s[i] = Space

(* The word's end is looked for from its second character on.              *)
WordEnd(s) == CHOOSE i \in 2 .. Len(s) + 2 :
                 EndsWord(s, i) /\ \A j \in 2 .. i - 1 : ~EndsWord(s, j)

FirstWord(s) == SubSeq(s, 1, WordEnd(s) - 1)

(* 64 bits, 4 of them a character's, of words of 16 characters or less.    *)
HashWord(s) == LET word == FirstWord(s)
               IN  [i \in 1 .. 16 |-> IF i <= Len(word) THEN word[i] % 16 ELSE 0]

(* The text after the first space, or the last character if there is none. *)
NextWord(s) ==
    IF WordEnd(s) > Len(s) THEN SubSeq(s, Len(s), Len(s))
                           ELSE SubSeq(s, WordEnd(s) + 1, Len(s))

(* The loop's Multiplier and Result after n characters, from the last on.  *)
ToInt(s) ==
    LET Multiplier[n \in 0 .. Len(s)] == IF n = 0 THEN 1 ELSE 10 * Multiplier[n - 1]
        Result[n \in 0 .. Len(s)] ==
            IF n = 0 THEN 0 ELSE Result[n - 1] + (s[Len(s) - n + 1] - 48) * Multiplier[n - 1]
    IN  Result[Len(s)]

(* Of numbers that 32 bits hold.                                           *)
GetDigitAmount(n) == CHOOSE d \in 0 .. 10 : n < 10^d /\ (d = 0 \/ n >= 10^(d - 1))

GetDigit(n, d) == (n \div 10^d) % 10

ToString(n) ==
    LET d == GetDigitAmount(n)
    IN  IF d = 0 THEN <<48>> ELSE [i \in 1 .. d |-> 48 + GetDigit(n, d - i)]

(* Slip: a 0 is written, too.                                              *)
CopyStringEnds(dest, s) == s

(* No 0 is written at the end: what is behind stays.                       *)
CopyString(dest, s) == s \o SubSeq(dest, Len(s) + 1, Len(dest))
=============================================================================
