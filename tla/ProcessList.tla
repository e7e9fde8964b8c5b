----------------------------- MODULE ProcessList -----------------------------
(***************************************************************************)
(* STL::List, whose one use is ProcessHandler::Processes.  Reserve counts  *)
(* elements and allocates as many bytes; what it gets is as much as the    *)
(* heap's rounding adds.  An element beyond the block lies in the next     *)
(* header of the heap, which may overwrite it.                             *)
(***************************************************************************)
EXTENDS Integers, Sequences

CONSTANTS Element,    \* Process*
          Junk,       \* what memory holds that was not written
          Width,      \* sizeof(Process*), 8
          BlockQuantum,    \* 64, the heap's
          MaxLength   \* bounds the list

ListAssumption == /\ Junk \notin Element
                  /\ {Width, BlockQuantum} \subseteq Nat \ {0}
                  /\ MaxLength \in Nat

(* Reserve asks for twice as many bytes as the list has elements, at most  *)
(* 16 for the 8 programs; the heap gives one quantum of 64.                *)
RoomAssumption == 2 * MaxLength < BlockQuantum

VARIABLES Data,           \* the bytes at Data, by elements; <<>> for nullptr
          Size, ReservedSize,
          room,           \* bytes of the block
          kept,           \* history: the elements, as long as all have fitted
          spilt           \* history: one did not fit

listVars == <<Data, Size, ReservedSize, room, kept, spilt>>

Place == 1 .. MaxLength

ListInit == /\ Data = [k \in Place |-> Junk]
            /\ Size = 0 /\ ReservedSize = 0 /\ room = 0
            /\ kept = <<>> /\ spilt = FALSE

-----------------------------------------------------------------------------
(* Heap::Allocate's rounding.                                              *)
InQuanta(n) == n + (BlockQuantum - (n % BlockQuantum))

Reserves(n) == n > ReservedSize

(* Slip: the elements stay in the old block. *)
MovedNone(n) == [k \in Place |-> Junk]

Moved(n) == [k \in Place |-> IF k <= n THEN Data[k] ELSE Junk]

ReserveRoom(n) == /\ ReservedSize' = IF Reserves(n) THEN 2 * n ELSE ReservedSize
                  /\ room' = IF Reserves(n) THEN InQuanta(2 * n) ELSE room

Inside(k) == k * Width <= room'

Push(e) ==
    /\ Size < MaxLength
    /\ Size' = Size + 1
    /\ ReserveRoom(Size + 1)
    /\ \E stored \in IF Inside(Size + 1) THEN {e} ELSE {e, Junk} :
          Data' = [(IF Reserves(Size + 1) THEN Moved(Size + 1) ELSE Data) EXCEPT ![Size + 1] = stored]

Erased(k) == [j \in Place |-> IF k <= j /\ j < Size THEN Data[j + 1] ELSE Data[j]]

Erase(k) == /\ k <= Size
            /\ Data' = Erased(k)
            /\ Size' = Size - 1
            /\ UNCHANGED <<ReservedSize, room>>

Clear == /\ Data' = [k \in Place |-> Junk]
         /\ Size' = 0 /\ ReservedSize' = 0 /\ room' = 0

Elements == [k \in 1 .. Size |-> Data[k]]

ListNext == /\ \/ \E e \in Element : Push(e)
               \/ \E k \in Place : Erase(k)
               \/ Clear
            /\ spilt' = (spilt \/ Size' * Width > room')
            /\ kept' = IF spilt' THEN kept ELSE Elements'

ListSpec == ListInit /\ [][ListNext]_listVars

-----------------------------------------------------------------------------
ListTypeOK == /\ Data \in [Place -> Element \cup {Junk}]
              /\ Size \in 0 .. MaxLength
              /\ ReservedSize \in 0 .. 2 * MaxLength
              /\ room \in Nat
              /\ spilt \in BOOLEAN

(* The elements fit exactly as long as there are no more than a quantum of *)
(* the heap holds, 8 pointers: StartProcess starts no program twice, and   *)
(* there are 8 programs.  The ninth is written into the next header.       *)
FitsOneQuantum == Size * Width <= room <=> Size <= BlockQuantum \div Width

(* The list and its block of the heap.                                     *)
ListFits == ListTypeOK /\ FitsOneQuantum

(* Until then the list is the sequence that its operations make.           *)
Sequence == INSTANCE Items WITH items <- kept

(* The list is the sequence that Push, Erase and Clear make, in a block that *)
(* it fits as long as it needs no more than a quantum of the heap.         *)
ImplementsItems == []ListFits /\ Sequence!Spec
=============================================================================
