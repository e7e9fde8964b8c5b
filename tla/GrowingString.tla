--------------------------- MODULE GrowingString ---------------------------
(***************************************************************************)
(* STL::String, as tty and terminal use it: main code prints a text that   *)
(* the handlers of keys append to.  Characters are kept up to being 0 or   *)
(* not.  A block's bytes are those of whoever had it before.  An interrupt *)
(* may come between any two accesses of cstr and any two characters of     *)
(* Print; that it may come inside of Length is left out.                   *)
(***************************************************************************)
EXTENDS Integers, FiniteSets, FiniteSetsExt

CONSTANTS Block,     \* addresses that Malloc gives
          Null,
          Appended,  \* lengths of texts that are appended
          MaxSize    \* bounds the text

BlockAssumption == IsFiniteSet(Block) /\ Null \notin Block
SizeAssumption == Appended \subseteq Nat \ {0} /\ MaxSize \in Nat

VARIABLES Data, Size, ReservedSize,
          live,      \* blocks that are allocated
          zeros,     \* where a block has a 0
          pc,        \* the main code: "idle", "store", "return", "print", "clear" or "fault"
          reg,       \* Data and Size as cstr read them
          ptr, i,    \* in Print: the text and the index
          torn       \* an interrupt changed the text since cstr began

string == <<Data, Size, ReservedSize, live, zeros>>
stringVars == <<Data, Size, ReservedSize, live, zeros, pc, reg, ptr, i, torn>>

Bytes == 0 .. 2 * (MaxSize + 1) - 1

StringInit == /\ Data = Null /\ Size = 0 /\ ReservedSize = 0
              /\ live = {}
              /\ zeros \in [Block -> {{}, Bytes}]
              /\ pc = "idle"
              /\ reg = <<Null, 0>>
              /\ ptr = Null /\ i = 0
              /\ torn = FALSE

-----------------------------------------------------------------------------
(* Text of n characters behind the first size ones, which move to a new    *)
(* block unless the reserve holds them and a 0.                            *)

Wanted(n) == n

Freed(b) == {b}

Put(size, n) ==
    LET min == Wanted(size + n + 1) IN
    /\ size + n <= MaxSize
    /\ Size' = size + n
    /\ \/ /\ min <= ReservedSize
          /\ zeros' = [zeros EXCEPT ![Data] = @ \ (size .. size + n - 1)]
          /\ UNCHANGED <<Data, ReservedSize, live>>
       \/ /\ min > ReservedSize
          /\ ReservedSize' = 2 * min
          /\ \E new \in Block \ live :
                /\ Data' = new
                /\ live' = (live \ Freed(Data)) \cup {new}
                /\ zeros' = [zeros EXCEPT ![new] = @ \ (0 .. size + n - 1)]

(* operator+= and operator= with a text of n characters.                   *)
AppendText(n) == Put(Size, n)
Assign(n) == Put(0, n)

(* A key appends, clear empties the text.                                  *)
KeyInterrupt == /\ pc # "fault"
                /\ \/ \E n \in Appended : AppendText(n)
                   \/ Assign(0)
                /\ torn' = (pc # "idle")
                /\ UNCHANGED <<pc, reg, ptr, i>>

-----------------------------------------------------------------------------
(* DRAW: cstr, then Print, then Text = "".  A character that is written may*)
(* be this->Data as far as the compiler knows, so that cstr reads it again.*)

Cstr == /\ pc = "idle" /\ Data # Null
        /\ pc' = "store"
        /\ reg' = <<Data, Size>>
        /\ torn' = FALSE
        /\ UNCHANGED <<string, ptr, i>>

(* Slip: the 0 is put behind the place for it. *)
StoreBehind(size) == size + 1

End(size) == size

Store == /\ pc = "store"
         /\ zeros' = [zeros EXCEPT ![reg[1]] = @ \cup {End(reg[2])}]
         /\ pc' = "return"
         /\ UNCHANGED <<Data, Size, ReservedSize, live, reg, ptr, i, torn>>

Return == /\ pc = "return"
          /\ ptr' = Data /\ i' = 0
          /\ pc' = "print"
          /\ UNCHANGED <<string, reg, torn>>

Length(b) == Min(zeros[b])

Following(k) == k + 1

(* Print asks for the length before every character.                       *)
PrintNext == /\ pc = "print"
         /\ \/ /\ zeros[ptr] = {}
               /\ pc' = "fault" /\ i' = i
            \/ /\ zeros[ptr] # {}
               /\ i < Length(ptr)
               /\ i' = Following(i) /\ pc' = pc
            \/ /\ zeros[ptr] # {}
               /\ i >= Length(ptr)
               /\ i' = i /\ pc' = "clear"
         /\ UNCHANGED <<string, reg, ptr, torn>>

Clear == /\ pc = "clear"
         /\ Assign(0)
         /\ pc' = "idle"
         /\ reg' = <<Null, 0>> /\ ptr' = Null /\ i' = 0
         /\ torn' = FALSE

MainCode == Cstr \/ Store \/ Return \/ PrintNext \/ Clear

StringNext == KeyInterrupt \/ MainCode

StringSpec == StringInit /\ [][StringNext]_stringVars /\ WF_stringVars(MainCode)

-----------------------------------------------------------------------------
StringTypeOK == /\ Data \in Block \cup {Null} /\ ptr \in Block \cup {Null}
                /\ Size \in 0 .. MaxSize /\ ReservedSize \in 0 .. 2 * (MaxSize + 1)
                /\ live \subseteq Block
                /\ zeros \in [Block -> SUBSET Bytes]
                /\ pc \in {"idle", "store", "return", "print", "clear", "fault"}
                /\ reg \in (Block \cup {Null}) \X (0 .. MaxSize)
                /\ i \in Nat /\ torn \in BOOLEAN

(* The string owns one block, with room for its text and the 0, and no     *)
(* other is left allocated.                                                *)
OwnsOne == /\ live = {Data} \ {Null}
           /\ Data # Null => Size < ReservedSize

(* Between interrupts that change the text Print prints the characters of  *)
(* the text, all of them and nothing behind them.                          *)
PrintsText == ~torn => /\ pc \in {"print", "clear"} => ptr = Data /\ Length(ptr) = Size
                       /\ pc = "clear" => i = Size
                       /\ pc # "fault"

(* Main code holds a block that was freed only if an interrupt appended to *)
(* more than what was reserved; an interrupt that clears never frees.      *)
FreedByAppend ==
    [][Data' # Data /\ pc \in {"store", "print"} => Size' > Size /\ Size' >= ReservedSize]_stringVars

(* What is printed is the text, from a block that an append alone frees.   *)
TextRight == [](StringTypeOK /\ OwnsOne /\ PrintsText) /\ FreedByAppend

(* Every printing ends, while keys append within MaxSize.                  *)
PrintEnds == pc = "print" ~> pc \in {"idle", "fault"}
=============================================================================
