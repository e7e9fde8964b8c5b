---------------------------- MODULE CommandOutput ----------------------------
(***************************************************************************)
(* The commands list and heapvis write tables of any length into           *)
(* CommandOutput, a static array, through a pointer that nothing checks.   *)
(* A text is the number of its characters; what is written is how far the  *)
(* pointer got and the length of each line.                                *)
(*                                                                         *)
(* The command sysfetch writes numbers into a picture, a string literal    *)
(* that keeps what earlier calls wrote: a shorter number does not end an   *)
(* older, longer one.  A field is the text behind its label, from the first*)
(* character that was ever written to the last.                            *)
(***************************************************************************)
EXTENDS CString

CONSTANTS IDs,        \* of processes
          Sizes,      \* of segments
          MaxRows,    \* bounds devices and segments
          Numbers,    \* that sysfetch shows, of any length
          Wide        \* the first number that a uint32_t does not hold

RowsAssumption == /\ \A id \in IDs : id \in Nat \ {0} /\ id < 10^9
                  /\ \A n \in Sizes : n \in Nat /\ n >= 64 /\ n < 10^9
                  /\ MaxRows \in Nat
NumbersAssumption == Numbers \subseteq Nat /\ Wide \in Nat \ {0} /\ Wide \div 10 < 10^9
OutputAssumption == RowsAssumption /\ NumbersAssumption

VARIABLES list,       \* the table that is written, "none" outside
          at,         \* CurrentLocation, or heapvis' Index
          rows,       \* entries written
          lengths,    \* of the lines written
          full,       \* an entry filled its column
          ended,      \* the table is complete
          field,      \* the one field of sysfetch that this behaviour follows
          text,       \* its characters
          number,     \* the number that was written last
          longest     \* digits of the longest number that was written

outVars   == <<list, at, rows, lengths, full, ended>>
fetchVars == <<field, text, number, longest>>

Size == 1024
Column == 33
Ports == 32
MostProcesses == 8  \* every program is started, and none twice

Tables == {"process", "pci", "sata"}

OutputInit == /\ list = "none"
              /\ at = 0 /\ rows = 0 /\ lengths = {}
              /\ full = FALSE /\ ended = FALSE

-----------------------------------------------------------------------------
(* The entries                                                             *)

DigitsOf(n) == Len(ToString(n))

(* Titles of programs.                                                     *)
Title == {3, 6, 7, 8, 9, 10}

(* GetVendorString: five names or VendorID, a uint16_t.                    *)
Vendor == {10, 3, 6, 8, 7} \cup 1 .. 5

(* GetTypeString: the names of four classes or Subclass, a uint8_t.        *)
StorageType == {19, 14, 22, 18, 15, 10, 20, 30}
DisplayType == {25}
BridgeType  == {11, 10, 17, 13, 12, 14, 29, 5}
SerialType  == {31, 10, 3, 14, 13, 5, 28, 6, 27}
Type == StorageType \cup DisplayType \cup BridgeType \cup SerialType \cup 1 .. 3

(* GetPortType, and what list shows for it: SATAPI, SATA, PM, SEMB, NONE.  *)
PortType(status, signature) ==
    IF status # "active" THEN 4
    ELSE CASE signature = "SATAPI" -> 6
           [] signature = "SATA" -> 4
           [] signature = "PM" -> 2
           [] signature = "SEMB" -> 4
           [] signature = "other" -> 4

PortEntry == {15} \cup {PortType(status, signature) :
                          status \in {"absent", "idle", "active"},
                          signature \in {"SATAPI", "SATA", "PM", "SEMB", "other"}}

Entries(t) == CASE t = "process" -> Title \X {DigitsOf(id) : id \in IDs}
                [] t = "pci"     -> Vendor \X Type
                [] t = "sata"    -> {DigitsOf(rows)} \X PortEntry

-----------------------------------------------------------------------------
(* The helpers of CommandList; n counts from LineStart                     *)

Write(n, l) == n + l

StartLine(l) == Write(Write(0, 2), l)

Padding(n) == Column - (n % Column)

NextEntry(n, l) == Write(Write(n + Padding(n), 2), l)

EndLine(n, l) == NextEntry(NextEntry(n, l), 0) + 2

WriteLine(amount) == amount * Column + 1 + 2

LineOf(e) == EndLine(StartLine(e[1]), e[2])

Fills(e) == (2 + e[1]) % Column = 0 \/ (2 + e[2]) % Column = 0

CommandList(t) ==
    /\ list = "none"
    /\ list' = t
    /\ at' = 2 * WriteLine(2) + LineOf(IF t = "sata" THEN <<4, 4>> ELSE IF t = "pci" THEN <<6, 4>> ELSE <<5, 2>>)
    /\ UNCHANGED <<rows, lengths, full, ended>>

Most(t) == CASE t = "sata" -> Ports [] t = "process" -> MostProcesses [] t = "pci" -> MaxRows

More(t) == rows < Most(t)

TableRow == /\ list \in Tables
            /\ ~ended
            /\ More(list)
            /\ \E e \in Entries(list) :
                 /\ at' = at + LineOf(e)
                 /\ lengths' = lengths \cup {LineOf(e)}
                 /\ full' = (full \/ Fills(e))
            /\ rows' = rows + 1
            /\ UNCHANGED <<list, ended>>

EndList == /\ list \in Tables
           /\ ~ended
           /\ list = "sata" => ~More("sata")
           /\ at' = at + WriteLine(2)
           /\ ended' = TRUE
           /\ UNCHANGED <<list, rows, lengths, full>>

-----------------------------------------------------------------------------
(* heapvis: a colour, a size in bytes or kilobytes and a colour a segment  *)

Color == 11

SegmentSize(n) == IF n >= 1000 THEN DigitsOf(n \div 1000) + 3 ELSE DigitsOf(n) + 2

Segment(n) == Color + 1 + SegmentSize(n) + 1 + Color + 1

CommandHeapvis ==
    /\ list = "none"
    /\ list' = "heapvis"
    /\ at' = Color
    /\ UNCHANGED <<rows, lengths, full, ended>>

NextSegment ==
    /\ list = "heapvis"
    /\ ~ended
    /\ rows < MaxRows
    /\ \E n \in Sizes : at' = at + Segment(n)
    /\ rows' = rows + 1
    /\ UNCHANGED <<list, lengths, full, ended>>

EndHeapvis ==
    /\ list = "heapvis"
    /\ ~ended
    /\ rows > 0
    /\ at' = at + 2 * Color
    /\ ended' = TRUE
    /\ UNCHANGED <<list, rows, lengths, full>>

(* The next command begins at the array's start again.                     *)
Reuse == /\ ended
         /\ list' = "none"
         /\ at' = 0 /\ rows' = 0 /\ lengths' = {}
         /\ full' = FALSE /\ ended' = FALSE

OutputNext == \/ \E t \in Tables : CommandList(t)
              \/ TableRow \/ EndList
              \/ CommandHeapvis \/ NextSegment \/ EndHeapvis
              \/ Reuse

-----------------------------------------------------------------------------
(* sysfetch                                                                *)

Fields == {"Ticks", "Uptime", "Heap", "Segments", "Processes"}

(* The tick counter only grows, and Uptime with it.                        *)
Values(f, n) == CASE f \in {"Ticks", "Uptime"} -> {m \in Numbers : m >= n}
                  [] f = "Heap" -> Numbers
                  [] f = "Segments" -> Numbers \ {0}
                  [] f = "Processes" -> 0 .. MostProcesses

(* Behind the digits: " s   " and " KB   ".                                *)
Unit(f) == CASE f = "Uptime" -> <<Space, 115, Space, Space, Space>>
             [] f = "Heap" -> <<Space, 75, 66, Space, Space, Space>>
             [] f \in {"Ticks", "Segments", "Processes"} -> <<>>

(* ToString's GetDigitAmount and GetDigit take a uint32_t.                 *)
Decimal(n) == ToString(n % Wide)

FetchInit == /\ field \in Fields
             /\ text = <<>>
             /\ number = 0
             /\ longest = 0

FetchNext == \E n \in Values(field, number) :
                /\ number' = n
                /\ text' = CopyString(text, Decimal(n) \o Unit(field))
                /\ longest' = IF Len(Decimal(n)) > longest THEN Len(Decimal(n)) ELSE longest
                /\ UNCHANGED field

-----------------------------------------------------------------------------
TablesInit == OutputInit /\ FetchInit
TablesNext == \/ OutputNext /\ UNCHANGED fetchVars
              \/ FetchNext /\ UNCHANGED outVars

TablesSpec == TablesInit /\ [][TablesNext]_<<outVars, fetchVars>>

-----------------------------------------------------------------------------
OutputTypeOK == /\ list \in Tables \cup {"none", "heapvis"}
                /\ at \in Nat
                /\ rows \in 0 .. (IF list \in Tables THEN Most(list) ELSE MaxRows)
                /\ full \in BOOLEAN /\ ended \in BOOLEAN

FetchTypeOK == /\ field \in Fields
               /\ text \in Seq({Space, 66, 75, 115} \cup 48 .. 57) /\ Len(text) <= 10 + 6
               /\ number \in Nat
               /\ longest \in 0 .. 10

(* A table stays inside of the array exactly if it has 10 rows or fewer,   *)
(* unless an entry filled its column: an eleventh device, and every list   *)
(* of the 32 ports, writes past CommandOutput's end.  The list of processes*)
(* always fits.                                                            *)
TableFits == /\ list \in Tables /\ ended /\ ~full => (at <= Size <=> rows <= 10)
             /\ list = "process" => at <= Size

(* heapvis stays inside with 28 segments of less than a gigabyte, and      *)
(* never does with 35.                                                     *)
HeapvisFits == list = "heapvis" /\ ended => /\ rows <= 28 => at < Size
                                            /\ rows >= 35 => at > Size

(* The rows of a table are aligned: all lines have one length, unless an   *)
(* entry fills its column to the last character, as one device type does.  *)
RowsAligned == list \in Tables /\ ~full => lengths \subseteq {2 * Column + 4}

(* The field as it is read: without the spaces at its end.                 *)
Right(n) == LET shown == Decimal(n) \o Unit(field) IN
            /\ Len(text) >= Len(shown)
            /\ SubSeq(text, 1, Len(shown)) = shown
            /\ \A i \in Len(shown) + 1 .. Len(text) : text[i] = Space

(* The spaces a unit ends with hide an older number of up to three digits  *)
(* more.  A number without a unit is right as long as none before was      *)
(* longer, so always for the processes; one digit fewer and it is wrong.   *)
ShownRight == LET digits == Len(Decimal(number)) IN
              longest > 0 => /\ field \in {"Uptime", "Heap"} /\ longest <= digits + 3 => Right(number)
                             /\ field \in {"Ticks", "Segments"} => (Right(number) <=> longest = digits)
                             /\ field = "Processes" => Right(number)

(* What the commands print stays inside of its array as long as it has no  *)
(* more rows than these, in lines of one length, and shows the number that *)
(* it counts unless a longer one was there.                                *)
TablesRight == /\ OutputTypeOK /\ TableFits /\ HeapvisFits /\ RowsAligned
               /\ FetchTypeOK /\ ShownRight
=============================================================================
