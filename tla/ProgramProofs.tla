--------------------------- MODULE ProgramProofs ---------------------------
(***************************************************************************)
(* What TLAPS proves of the programs that main code runs while interrupts  *)
(* change what it works on: of the string that tty prints, for any heap    *)
(* and any texts; of tetris, for every size of the grid and every set of   *)
(* pieces; and of the tty's command line and output, for every length of   *)
(* the line and every screen.  Of the calculator, for every width of its   *)
(* numbers and length of its label.  And of a process's stack of requests, *)
(* for every capacity and any number of requests: its two functions stay   *)
(* inside the array, lose or repeat only the parties of a race, and are an *)
(* atomic stack up to the first race.  The five share no state.            *)
(***************************************************************************)
EXTENDS Tetris, GrowingString, CommandLine, Calculator, RequestStack, FiniteSetTheorems,
        SequenceTheorems, NaturalsInduction, WellFoundedInduction, TLAPS

-----------------------------------------------------------------------------
(* The string.  Its text has no 0 in it, and there is a 0 behind it from   *)
(* cstr's on, unless an interrupt changed it in between.                   *)

Reading == /\ pc # "idle" => Data # Null
           /\ pc \in {"store", "return"} => reg[1] \in Block
           /\ pc = "print" => ptr \in Block
           /\ pc = "idle" => ~torn

NoZeroInText == Data # Null => \A k \in 0 .. Size - 1 : k \notin zeros[Data]

Untouched == /\ pc \in {"store", "return"} => reg = <<Data, Size>>
             /\ pc \in {"return", "print", "clear"} => Size \in zeros[Data]
             /\ pc \in {"print", "clear"} => ptr = Data
             /\ pc = "print" => i <= Size
             /\ pc = "clear" => i = Size
             /\ pc # "fault"

StringInv == /\ StringTypeOK /\ OwnsOne /\ Reading
             /\ Data = Null => ReservedSize = 0
             /\ ~torn => NoZeroInText /\ Untouched

StringAssumption == BlockAssumption /\ SizeAssumption

(* The length of a text that has its first 0 at n is n.                    *)
LEMMA LengthIs ==
    ASSUME NEW b, NEW n \in Nat, zeros[b] \subseteq Nat, n \in zeros[b],
           \A k \in 0 .. n - 1 : k \notin zeros[b]
    PROVE  Length(b) = n
<1>1. \A x \in zeros[b] : n <= x  OBVIOUS
<1>2. \A x \in zeros[b] : (\A k \in zeros[b] : x <= k) => x = n  BY <1>1
<1>. QED  BY <1>1, <1>2 DEF Length, Min

(* What an assignment or an append leaves: one block with room for the     *)
(* text, and a text without a 0 if there was none in what it kept.         *)
LEMMA PutKeeps ==
    ASSUME StringAssumption, StringInv, NEW size \in {0, Size}, NEW n \in Nat, Put(size, n)
    PROVE  /\ Data' \in Block /\ Size' = size + n /\ Size' \in 0 .. MaxSize
           /\ ReservedSize' \in 0 .. 2 * (MaxSize + 1)
           /\ live' = {Data'} /\ Size' < ReservedSize'
           /\ zeros' \in [Block -> SUBSET Bytes]
           /\ Data' # Data => size + n + 1 > ReservedSize
           /\ NoZeroInText => NoZeroInText'
<1>. DEFINE min == size + n + 1
<1>. USE DEF StringAssumption, BlockAssumption, SizeAssumption
<1>1. /\ Size \in 0 .. MaxSize /\ ReservedSize \in 0 .. 2 * (MaxSize + 1) /\ MaxSize \in Nat
      /\ Data \in Block \cup {Null} /\ zeros \in [Block -> SUBSET Bytes] /\ Null \notin Block
      /\ live = {Data} \ {Null} /\ (Data = Null => ReservedSize = 0)
  BY DEF StringInv, StringTypeOK, OwnsOne
<1>2. size \in Nat /\ size <= MaxSize /\ Size' = size + n /\ size + n <= MaxSize /\ min \in Nat
  BY <1>1 DEF Put
<1>3. CASE min <= ReservedSize /\ zeros' = [zeros EXCEPT ![Data] = @ \ (size .. size + n - 1)]
           /\ UNCHANGED <<Data, ReservedSize, live>>
  <2>1. Data \in Block  BY <1>1, <1>2, <1>3
  <2>2. zeros' \in [Block -> SUBSET Bytes]  BY <1>1, <1>3, <2>1
  <2>3. zeros'[Data] = zeros[Data] \ (size .. size + n - 1)  BY <1>1, <1>3, <2>1
  <2>4. ASSUME NoZeroInText  PROVE NoZeroInText'
    <3>1. SUFFICES ASSUME NEW k \in 0 .. size + n - 1  PROVE k \notin zeros[Data] \ (size .. size + n - 1)
      BY <1>2, <1>3, <2>3 DEF NoZeroInText
    <3>2. CASE k < size
      <4>. size = Size  BY <3>1, <3>2, <1>2
      <4>. QED  BY <2>1, <2>4, <3>2, <1>1, <1>2 DEF NoZeroInText
    <3>3. CASE k >= size  BY <3>3, <1>2
    <3>. QED  BY <3>2, <3>3, <1>2
  <2>. QED  BY <1>1, <1>2, <1>3, <2>1, <2>2, <2>4
<1>4. ASSUME min > ReservedSize, ReservedSize' = 2 * min, NEW new \in Block \ live, Data' = new,
             live' = (live \ Freed(Data)) \cup {new},
             zeros' = [zeros EXCEPT ![new] = @ \ (0 .. size + n - 1)]
      PROVE  /\ Data' \in Block /\ ReservedSize' \in 0 .. 2 * (MaxSize + 1)
             /\ live' = {Data'} /\ Size' < ReservedSize' /\ zeros' \in [Block -> SUBSET Bytes]
             /\ NoZeroInText'
  <2>1. zeros' \in [Block -> SUBSET Bytes] /\ zeros'[new] = zeros[new] \ (0 .. size + n - 1)
    BY <1>1, <1>4
  <2>2. live' = {new}  BY <1>1, <1>4 DEF Freed
  <2>3. NoZeroInText'  BY <1>2, <1>4, <2>1 DEF NoZeroInText
  <2>4. ReservedSize' \in 0 .. 2 * (MaxSize + 1) /\ Size' < ReservedSize'  BY <1>1, <1>2, <1>4
  <2>. QED  BY <1>4, <2>1, <2>2, <2>3, <2>4
<1>. QED  BY <1>1, <1>2, <1>3, <1>4 DEF Put, Wanted

LEMMA StringInvInit == StringAssumption /\ StringInit => StringInv
<1>. SUFFICES ASSUME StringAssumption, StringInit  PROVE StringInv
  OBVIOUS
<1>1. zeros \in [Block -> SUBSET Bytes]  BY DEF StringInit
<1>2. MaxSize \in Nat  BY DEF StringAssumption, SizeAssumption
<1>3. Size \in 0 .. MaxSize /\ ReservedSize \in 0 .. 2 * (MaxSize + 1)  BY <1>2 DEF StringInit
<1>4. reg \in (Block \cup {Null}) \X (0 .. MaxSize)  BY <1>2 DEF StringInit
<1>5. StringTypeOK  BY <1>1, <1>3, <1>4 DEF StringInit, StringTypeOK
<1>. QED  BY <1>5 DEF StringInit, StringInv, OwnsOne, Reading, NoZeroInText, Untouched

LEMMA StringInvNext == StringAssumption /\ StringInv /\ [StringNext]_stringVars => StringInv'
<1>. SUFFICES ASSUME StringAssumption, StringInv, [StringNext]_stringVars  PROVE StringInv'
  OBVIOUS
<1>0. MaxSize \in Nat /\ Null \notin Block /\ Appended \subseteq Nat \ {0}
  BY DEF StringAssumption, BlockAssumption, SizeAssumption
<1>. USE DEF Reading
<1>1. ASSUME NEW size \in {0, Size}, NEW n \in Nat, Put(size, n), torn' = (pc # "idle"),
             UNCHANGED <<pc, reg, ptr, i>>
      PROVE  StringInv'
  <2>1. StringTypeOK' /\ OwnsOne' /\ Reading' /\ Data' # Null
    BY <1>0, <1>1, PutKeeps DEF StringInv, StringTypeOK, OwnsOne
  <2>2. ASSUME ~torn'  PROVE NoZeroInText' /\ Untouched'
    BY <1>1, <2>2, PutKeeps DEF StringInv, Untouched
  <2>. QED  BY <2>1, <2>2 DEF StringInv
<1>2. CASE KeyInterrupt
  <2>1. CASE Assign(0)  BY <1>1, <1>2, <2>1 DEF KeyInterrupt, Assign
  <2>2. ASSUME NEW n \in Appended, AppendText(n)  PROVE StringInv'
    BY <1>0, <1>1, <1>2, <2>2 DEF KeyInterrupt, AppendText
  <2>. QED  BY <1>2, <2>1, <2>2 DEF KeyInterrupt
<1>3. CASE Cstr
  BY <1>0, <1>3 DEF Cstr, string, StringInv, StringTypeOK, OwnsOne, NoZeroInText, Untouched
<1>4. CASE Store
  <2>1. reg[1] \in Block /\ reg[2] \in 0 .. MaxSize /\ zeros \in [Block -> SUBSET Bytes]
    BY <1>4 DEF Store, StringInv, StringTypeOK
  <2>2. zeros' \in [Block -> SUBSET Bytes] /\ zeros'[reg[1]] = zeros[reg[1]] \cup {reg[2]}
    BY <1>0, <1>4, <2>1 DEF Store, End, Bytes
  <2>3. StringTypeOK' /\ OwnsOne' /\ Reading' /\ (Data' = Null => ReservedSize' = 0)
    BY <1>4, <2>2 DEF Store, StringInv, StringTypeOK, OwnsOne
  <2>4. ASSUME ~torn'  PROVE NoZeroInText' /\ Untouched'
    <3>1. reg = <<Data, Size>> /\ NoZeroInText /\ Size \in 0 .. MaxSize
      BY <1>4, <2>4 DEF Store, StringInv, Untouched, StringTypeOK
    <3>2. reg[1] = Data /\ reg[2] = Size  BY <3>1
    <3>3. NoZeroInText'  BY <1>0, <1>4, <2>2, <3>1, <3>2 DEF Store, NoZeroInText
    <3>4. Untouched'  BY <1>4, <2>2, <3>1, <3>2 DEF Store, Untouched
    <3>. QED  BY <3>3, <3>4
  <2>. QED  BY <2>3, <2>4 DEF StringInv
<1>5. CASE Return
  BY <1>0, <1>5 DEF Return, string, StringInv, StringTypeOK, OwnsOne, NoZeroInText, Untouched
<1>6. CASE PrintNext
  <2>1. /\ Size \in 0 .. MaxSize /\ i \in Nat /\ zeros \in [Block -> SUBSET Bytes] /\ ptr \in Block
        /\ Bytes \subseteq Nat
    BY <1>6 DEF PrintNext, StringInv, StringTypeOK, Bytes
  <2>2. StringTypeOK' /\ OwnsOne' /\ Reading' /\ (Data' = Null => ReservedSize' = 0)
    BY <1>0, <1>6, <2>1 DEF PrintNext, Following, string, StringInv, StringTypeOK, OwnsOne
  <2>3. ASSUME ~torn'  PROVE NoZeroInText' /\ Untouched'
    <3>1. /\ NoZeroInText /\ Size \in zeros[Data] /\ ptr = Data /\ i <= Size
          /\ Data # Null
      BY <1>6, <2>3 DEF PrintNext, StringInv, Untouched
    <3>2. Length(ptr) = Size  BY <1>0, <2>1, <3>1, LengthIs DEF NoZeroInText
    <3>3. NoZeroInText'  BY <1>6, <3>1 DEF PrintNext, string, NoZeroInText
    <3>4. Untouched'  BY <1>6, <2>1, <3>1, <3>2 DEF PrintNext, Following, string, Untouched
    <3>. QED  BY <3>3, <3>4
  <2>. QED  BY <2>2, <2>3 DEF StringInv
<1>7. CASE Clear
  <2>1. Size' = 0 /\ Data' \in Block  BY <1>7, PutKeeps DEF Clear, Assign
  <2>2. /\ ReservedSize' \in 0 .. 2 * (MaxSize + 1) /\ live' = {Data'} /\ Size' < ReservedSize'
        /\ zeros' \in [Block -> SUBSET Bytes]
    BY <1>7, PutKeeps DEF Clear, Assign
  <2>4. reg' \in (Block \cup {Null}) \X (0 .. MaxSize) /\ ptr' = Null /\ i' = 0
    BY <1>0, <1>7 DEF Clear
  <2>6. pc' = "idle" /\ torn' = FALSE  BY <1>7 DEF Clear
  <2>7. Size' \in 0 .. MaxSize  BY <1>0, <2>1
  <2>8. StringTypeOK'  BY <2>1, <2>2, <2>4, <2>6, <2>7 DEF StringTypeOK
  <2>5. StringTypeOK' /\ OwnsOne' /\ Reading'
    BY <1>0, <2>1, <2>2, <2>6, <2>8 DEF OwnsOne
  <2>3. NoZeroInText' /\ Untouched'  BY <1>7, <2>1 DEF Clear, NoZeroInText, Untouched
  <2>. QED  BY <1>0, <2>1, <2>3, <2>5 DEF StringInv
<1>8. CASE UNCHANGED stringVars
  BY <1>8 DEF stringVars, StringInv, StringTypeOK, OwnsOne, NoZeroInText, Untouched
<1>. QED  BY <1>2, <1>3, <1>4, <1>5, <1>6, <1>7, <1>8 DEF StringNext, MainCode

LEMMA StringInvAlways == StringAssumption => (StringSpec => []StringInv)
<1>. SUFFICES ASSUME StringAssumption  PROVE StringSpec => []StringInv
  OBVIOUS
<1>1. StringInit => StringInv  BY StringInvInit
<1>2. StringInv /\ [StringNext]_stringVars => StringInv'  BY StringInvNext
<1>. QED  BY <1>1, <1>2, PTL DEF StringSpec

(* The string owns one block with room for its text and the 0, and Print   *)
(* prints all of the text and nothing else unless an interrupt changes it: *)
(* for any number of blocks, texts and lengths.                            *)
THEOREM TextIsSafe == StringAssumption => (StringSpec => [](StringTypeOK /\ OwnsOne /\ PrintsText))
<1>. SUFFICES ASSUME StringAssumption
                PROVE  StringSpec => [](StringTypeOK /\ OwnsOne /\ PrintsText)
  OBVIOUS
<1>1. StringInv => StringTypeOK /\ OwnsOne /\ PrintsText
  <2>. SUFFICES ASSUME StringInv  PROVE PrintsText
    BY DEF StringInv
  <2>1. /\ Size \in Nat /\ zeros \in [Block -> SUBSET Bytes] /\ Bytes \subseteq Nat
        /\ Data \in Block \cup {Null}
    BY DEF StringAssumption, SizeAssumption, StringInv, StringTypeOK, Bytes
  <2>2. ASSUME ~torn, pc \in {"print", "clear"}  PROVE ptr = Data /\ Length(ptr) = Size
    <3>1. Size \in zeros[Data] /\ ptr = Data /\ Data \in Block /\ NoZeroInText
      BY <2>1, <2>2 DEF StringInv, Untouched, Reading
    <3>. QED  BY <2>1, <3>1, LengthIs DEF NoZeroInText, StringAssumption, BlockAssumption
  <2>. QED  BY <2>2 DEF PrintsText, StringInv, Untouched
<1>. QED  BY <1>1, StringInvAlways, PTL

(* Only an append of more than what is reserved takes the block from under *)
(* main code that holds it.                                                *)
THEOREM OnlyAppendsFree == StringAssumption => (StringSpec => FreedByAppend)
<1>. SUFFICES ASSUME StringAssumption  PROVE StringSpec => FreedByAppend
  OBVIOUS
<1>1. StringInv /\ [StringNext]_stringVars
        => [Data' # Data /\ pc \in {"store", "print"}
              => Size' > Size /\ Size' >= ReservedSize]_stringVars
  <2>. SUFFICES ASSUME StringInv, StringNext, Data' # Data, pc \in {"store", "print"}
                PROVE  Size' > Size /\ Size' >= ReservedSize
    BY DEF stringVars
  <2>1. KeyInterrupt
    BY DEF StringNext, MainCode, Cstr, Store, Return, PrintNext, Clear, string
  <2>2. Size \in Nat /\ ReservedSize \in Nat /\ Size < ReservedSize /\ Appended \subseteq Nat \ {0}
    BY DEF StringAssumption, SizeAssumption, StringInv, StringTypeOK, OwnsOne, Reading
  <2>3. CASE Assign(0)
    <3>1. 0 + 0 + 1 > ReservedSize  BY <2>3, PutKeeps DEF Assign
    <3>. QED  BY <2>2, <3>1
  <2>4. ASSUME NEW n \in Appended, AppendText(n)  PROVE Size' > Size /\ Size' >= ReservedSize
    <3>1. Size' = Size + n /\ Size + n + 1 > ReservedSize /\ n \in Nat \ {0}
      BY <2>2, <2>4, PutKeeps DEF AppendText
    <3>. QED  BY <2>2, <3>1
  <2>. QED  BY <2>1, <2>3, <2>4 DEF KeyInterrupt
<1>. QED  BY <1>1, StringInvAlways, PTL DEF StringSpec, FreedByAppend

(* So main code prints the text, from a block that is its own until an     *)
(* append that needs more than what is reserved.                           *)
THEOREM TextIsRight == StringAssumption => (StringSpec => TextRight)
<1>. SUFFICES ASSUME StringAssumption  PROVE StringSpec => TextRight
  OBVIOUS
<1>1. StringSpec => [](StringTypeOK /\ OwnsOne /\ PrintsText)  BY TextIsSafe
<1>2. StringSpec => FreedByAppend  BY OnlyAppendsFree
<1>. QED  BY <1>1, <1>2, PTL DEF TextRight

-----------------------------------------------------------------------------
(* Tetris.  The game that the animations leave behind for a player who     *)
(* lets them end: what is kept of an empty grid, and where DRAW is.        *)

Emptied == game.grid = {} /\ tally = 0

(* The splash is shown until the first game only.                          *)
Splashing == game.anim = "splash" => Emptied /\ draw \in {"idle", "call", "count"}

Shifting == draw = "shift" => y < Height

(* An animation is called that has gone.                                   *)
Called == draw \in {"call", "fault"} /\ game.anim = "none" => "entered" \in odd

FullLines == {row \in 0 .. Height - 1 : Full(game, row)}

AtDraw == /\ draw = "call" => game.anim # "none"
          /\ draw \in {"reset", "grid"} => game.anim = "over"
          /\ draw \in {"line", "shift", "stop"} => game.anim = "clear"

(* No line above y is full unless one was found.                           *)
Searched == /\ draw = "line" /\ ~found => \A row \in FullLines : row >= y
            /\ draw = "shift" => y \in FullLines /\ found
            /\ draw = "stop" => FullLines = {}

Fresh(g) == g.type # "EMPTY" /\ g.rot = 0 /\ g.pos = Start

(* There is no piece, and a lost game has gone on for a frame, only when   *)
(* the grid was emptied; lines are cleared above a fresh piece.            *)
Fair == /\ game.type = "EMPTY" /\ draw # "grid" => Emptied
        /\ game.anim = "over" /\ draw \in {"idle", "call"} /\ game.count > 0 => Emptied
        /\ game.anim = "over" /\ draw = "count" => Emptied
        /\ game.anim = "clear" => Fresh(game) \/ Emptied
        /\ AtDraw /\ Searched

GameInv == GameSafe /\ Splashing /\ Shifting /\ Called /\ (odd = {} => Fair)

TetrisAssumption == /\ GridAssumption /\ CounterAssumption /\ PiecesAssumption
                    /\ TypesAssumption /\ StartAssumption

LEMMA Counts == TetrisAssumption => Speed * Byte \in Nat /\ 2 <= Speed * Byte
<1>. SUFFICES ASSUME TetrisAssumption  PROVE Speed * Byte \in Nat /\ 2 <= Speed * Byte
  OBVIOUS
<1>1. Speed \in Nat /\ Byte \in Nat /\ Speed >= 1 /\ Byte >= 2
  BY DEF TetrisAssumption, CounterAssumption
<1>2. Speed * Byte \in Nat  BY <1>1
<1>3. Speed * Byte >= 1 * Byte  BY <1>1
<1>. QED  BY <1>1, <1>2, <1>3

LEMMA AreaFinite == TetrisAssumption => IsFiniteSet(Area)
<1>. SUFFICES ASSUME TetrisAssumption  PROVE IsFiniteSet(Area)
  OBVIOUS
<1>1. Width \in Nat /\ Height \in Nat  BY DEF TetrisAssumption, GridAssumption
<1>2. IsFiniteSet(0 .. Width - 1) /\ IsFiniteSet(0 .. Height - 1)  BY <1>1, FS_Interval
<1>. QED  BY <1>2, FS_Product DEF Area

(* A piece turns around one of its blocks, which lies where the piece does,*)
(* and a new one takes the two highest lines.                              *)
LEMMA PieceFacts ==
    ASSUME NEW t \in DOMAIN Piece
    PROVE  /\ t # "EMPTY"
           /\ <<0, 0>> \in Piece[t]
           /\ \A p \in Piece[t] : p[1] \in Int /\ p[2] \in {0, 1}
  BY DEF Piece

LEMMA CenterBlock ==
    ASSUME TetrisAssumption, NEW t \in Types, NEW s \in Rotation, NEW pos \in Int \X Int
    PROVE  pos \in Blocks(t, s, pos)
<1>1. <<0, 0>> \in Piece[t] /\ t # "EMPTY"
  BY PieceFacts DEF TetrisAssumption, TypesAssumption
<1>2. RotatePoint(<<0, 0>>, s) = <<0, 0>>  BY DEF RotatePoint, Rotation
<1>3. <<0, 0>> \in GetShape(t, s)  BY <1>1, <1>2 DEF GetShape
<1>4. <<pos[1] + <<0, 0>>[1], pos[2] + <<0, 0>>[2]>> = pos  OBVIOUS
<1>. QED  BY <1>3, <1>4 DEF Blocks

LEMMA FreshRows ==
    ASSUME TetrisAssumption, NEW t \in Types, NEW b \in Blocks(t, 0, Start)
    PROVE  b[2] \in {0, 1}
<1>1. PICK p \in GetShape(t, 0) : b = <<Start[1] + p[1], Start[2] + p[2]>>  BY DEF Blocks
<1>2. t \in DOMAIN Piece  BY DEF TetrisAssumption, TypesAssumption
<1>3. t # "EMPTY" /\ (\A q \in Piece[t] : q[2] \in {0, 1})  BY <1>2, PieceFacts
<1>4. p \in Piece[t]  BY <1>1, <1>3 DEF GetShape, RotatePoint
<1>5. p[2] \in {0, 1}  BY <1>3, <1>4
<1>. QED  BY <1>1, <1>5 DEF Start

-----------------------------------------------------------------------------
(* What the operators of the current piece do to a game.                   *)

Inside(g) == BlocksOf(g) \subseteq Area

Apart(g) == BlocksOf(g) \cap g.grid = {}

LEMMA GenerateKeeps ==
    ASSUME TetrisAssumption, NEW g \in Games, NEW t \in Types
    PROVE  LET h == Generate(g, t)
           IN  /\ h \in Games /\ Inside(h) /\ h.type \in Types /\ Fresh(h) /\ h.grid = g.grid
               /\ \/ Apart(h) /\ h.anim = g.anim /\ h.count = g.count
                  \/ ~Apart(h) /\ h.anim = "over" /\ h.count = 0
<1>. DEFINE new == [g EXCEPT !.type = t, !.rot = 0, !.pos = Start]
<1>1. t # "EMPTY"  BY PieceFacts DEF TetrisAssumption, TypesAssumption
<1>2. Start \in Int \X Int
  BY DEF Start, TetrisAssumption, GridAssumption
<1>3. Start \in Area
  BY <1>2, CenterBlock DEF TetrisAssumption, StartAssumption, Rotation
<1>4. /\ new \in Games /\ new.type = t /\ new.rot = 0 /\ new.pos = Start /\ new.grid = g.grid
      /\ new.anim = g.anim /\ new.count = g.count
  <2>1. 0 \in Rotation  BY DEF Rotation
  <2>. QED  BY <1>3, <2>1 DEF Games
<1>5. Inside(new) /\ Fresh(new)
  BY <1>1, <1>4 DEF Inside, BlocksOf, Fresh, TetrisAssumption, StartAssumption
<1>6. LET h == StartAnimation(new, "over")
      IN  /\ h \in Games /\ h.type = t /\ h.rot = 0 /\ h.pos = Start /\ h.grid = g.grid
          /\ h.anim = "over" /\ h.count = 0
  <2>1. 0 \in 0 .. Speed * Byte  BY Counts
  <2>. HIDE DEF new
  <2>. QED  BY <1>4, <2>1 DEF Games, StartAnimation
<1>7. /\ BlocksOf(StartAnimation(new, "over")) = BlocksOf(new)
      /\ Apart(StartAnimation(new, "over")) <=> Apart(new)
  BY <1>4, <1>6 DEF BlocksOf, Apart
<1>. HIDE DEF new
<1>8. CASE Apart(new)
  <2>1. Generate(g, t) = new  BY <1>4, <1>8 DEF Generate, Apart, new
  <2>. QED  BY <1>4, <1>5, <1>8, <2>1
<1>9. CASE ~Apart(new)
  <2>1. Generate(g, t) = StartAnimation(new, "over")  BY <1>4, <1>9 DEF Generate, Apart, new
  <2>. QED  BY <1>1, <1>4, <1>5, <1>6, <1>7, <1>9, <2>1 DEF Inside, Fresh
<1>. QED  BY <1>8, <1>9

(* A step of the piece to the side or down.                                *)
Steps == {<<0, 1>>, <<-1, 0>>, <<1, 0>>}

LEMMA MoveKeeps ==
    ASSUME TetrisAssumption, NEW g \in Games, g.type \in Types, Inside(g), NEW off \in Steps
    PROVE  LET h == Move(g, off)
           IN  /\ h \in Games /\ Inside(h) /\ h.type = g.type /\ h.grid = g.grid
               /\ h.anim = g.anim /\ h.count = g.count
               /\ Apart(g) => Apart(h)
<1>. DEFINE pos == <<g.pos[1] + off[1], g.pos[2] + off[2]>>
            h == [g EXCEPT !.pos = pos]
<1>1. CASE CanMove(g, off)
  <2>1. Fits(g, Blocks(g.type, g.rot, pos))  BY <1>1 DEF CanMove
  <2>2. pos \in Int \X Int  BY DEF Games, Area, Steps
  <2>3. pos \in Area  BY <2>1, <2>2, CenterBlock DEF Fits, Games
  <2>4. Move(g, off) = h  BY <1>1 DEF Move
  <2>. HIDE DEF pos
  <2>5. /\ h \in Games /\ h.pos = pos /\ h.type = g.type /\ h.rot = g.rot /\ h.grid = g.grid
        /\ h.anim = g.anim /\ h.count = g.count
    BY <2>3 DEF Games
  <2>. HIDE DEF h
  <2>6. Inside(h) /\ Apart(h)  BY <2>1, <2>5 DEF Inside, Apart, BlocksOf, Fits
  <2>. QED  BY <2>4, <2>5, <2>6
<1>2. CASE ~CanMove(g, off)  BY <1>2 DEF Move
<1>. QED  BY <1>1, <1>2

LEMMA RotateKeeps ==
    ASSUME TetrisAssumption, NEW g \in Games, g.type \in Types, Inside(g)
    PROVE  LET h == Rotate(g)
           IN  /\ h \in Games /\ Inside(h) /\ h.type = g.type /\ h.grid = g.grid
               /\ h.anim = g.anim /\ h.count = g.count
               /\ Apart(g) => Apart(h)
<1>. DEFINE next == (g.rot + 1) % 4
            h == [g EXCEPT !.rot = next]
<1>1. CASE Fits(g, Blocks(g.type, next, g.pos))
  <2>1. Rotate(g) = h  BY <1>1 DEF Rotate
  <2>2. next \in Rotation  BY DEF Games, Rotation
  <2>. HIDE DEF next
  <2>3. /\ h \in Games /\ h.rot = next /\ h.type = g.type /\ h.pos = g.pos /\ h.grid = g.grid
        /\ h.anim = g.anim /\ h.count = g.count
    BY <2>2 DEF Games
  <2>. HIDE DEF h
  <2>4. Inside(h) /\ Apart(h)  BY <1>1, <2>3 DEF Inside, Apart, BlocksOf, Fits
  <2>. QED  BY <2>1, <2>3, <2>4
<1>2. CASE ~Fits(g, Blocks(g.type, next, g.pos))  BY <1>2 DEF Rotate
<1>. QED  BY <1>1, <1>2

LEMMA LandedKeeps ==
    ASSUME TetrisAssumption, NEW g \in Games, g.type \in Types, Inside(g), NEW t \in Types
    PROVE  LET h == Landed(g, t)
           IN  /\ h \in Games /\ Inside(h) /\ h.type \in Types /\ Fresh(h)
               /\ h.grid = g.grid \cup BlocksOf(g) /\ h.count = 0
               /\ h.anim \in {"clear", "over"} /\ (h.anim = "clear" => Apart(h))
<1>. DEFINE w == StartAnimation(Write(g), "clear")
<1>1. w \in Games /\ w.grid = g.grid \cup BlocksOf(g) /\ w.anim = "clear" /\ w.count = 0
  <2>1. g.grid \cup BlocksOf(g) \in SUBSET Area  BY DEF Games, Inside
  <2>2. 0 \in 0 .. Speed * Byte  BY Counts
  <2>3. Write(g) \in Games /\ Write(g).grid = g.grid \cup BlocksOf(g)
    BY <2>1 DEF Games, Write
  <2>. QED  BY <2>2, <2>3 DEF Games, StartAnimation
<1>. HIDE DEF w
<1>2. Landed(g, t) = Generate(w, t)  BY DEF Landed, w
<1>. QED  BY <1>1, <1>2, GenerateKeeps

LEMMA GeneratedKeeps ==
    ASSUME TetrisAssumption, NEW g \in Games, Inside(g), NEW t \in Types
    PROVE  LET h == Generated(g, t)
           IN  /\ h \in Games /\ Inside(h) /\ h.type \in Types /\ h.grid = g.grid
               /\ g.type # "EMPTY" => h = g
               /\ h.anim \in {g.anim, "over"}
               /\ g.type = "EMPTY" /\ g.grid = {} => Apart(h) /\ h.anim = g.anim /\ h.count = g.count
<1>1. CASE g.type = "EMPTY"
  <2>1. Generated(g, t) = Generate(g, t)  BY <1>1 DEF Generated
  <2>2. ASSUME NEW h, h.grid = {}  PROVE Apart(h)  BY <2>2 DEF Apart
  <2>. QED  BY <1>1, <2>1, <2>2, GenerateKeeps
<1>2. CASE g.type # "EMPTY"
  <2>1. Generated(g, t) = g  BY <1>2 DEF Generated
  <2>. QED  BY <1>2, <2>1 DEF Games
<1>. QED  BY <1>1, <1>2

(* A full line is gone after the lines above it came down, and the two     *)
(* highest are empty, if the highest one was.                              *)
LEMMA ShiftedKeeps ==
    ASSUME TetrisAssumption, NEW g \in Games, NEW row \in 0 .. Height - 1
    PROVE  /\ Shifted(g, row) \subseteq Area
           /\ Full(g, row) /\ (\A b \in g.grid : b[2] # 0)
                => /\ \A b \in Shifted(g, row) : b[2] \notin {0, 1}
                   /\ Cardinality(Shifted(g, row)) = Cardinality(g.grid) - Width
<1>. DEFINE Whole == (0 .. Width - 1) \X {row}
            Rest == g.grid \ Whole
            f == [b \in Rest |-> IF b[2] > row THEN b ELSE <<b[1], b[2] + 1>>]
<1>0. /\ Width \in Nat \ {0} /\ Height \in Nat /\ row \in Nat /\ row < Height
      /\ g.grid \subseteq Area
  BY DEF TetrisAssumption, GridAssumption, Games
<1>1. \A b \in g.grid : /\ b[1] \in 0 .. Width - 1 /\ b[2] \in 0 .. Height - 1
                        /\ b = <<b[1], b[2]>>
  BY <1>0 DEF Area
<1>2. Shifted(g, row) \subseteq Area
  <2>. SUFFICES ASSUME NEW b \in Shifted(g, row)  PROVE b \in Area
    OBVIOUS
  <2>1. CASE b \in g.grid  BY <1>0, <2>1
  <2>2. ASSUME NEW c \in g.grid, c[2] < row, b = <<c[1], c[2] + 1>>  PROVE b \in Area
    BY <1>0, <1>1, <2>2 DEF Area
  <2>. QED  BY <2>1, <2>2 DEF Shifted
<1>3. ASSUME Full(g, row), \A b \in g.grid : b[2] # 0
      PROVE  /\ \A b \in Shifted(g, row) : b[2] \notin {0, 1}
             /\ Cardinality(Shifted(g, row)) = Cardinality(g.grid) - Width
  <2>1. <<0, row>> \in g.grid  BY <1>0, <1>3 DEF Full
  <2>2. <<0, row>>[2] # 0  BY <1>3, <2>1
  <2>3. row >= 1  BY <1>0, <2>2
  <2>4. \A b \in g.grid : b[2] >= 1  BY <1>1, <1>3, <1>0
  <2>5. ASSUME NEW b \in Shifted(g, row)  PROVE b[2] >= 2
    <3>1. CASE b \in g.grid /\ (b[2] > row \/ b[2] = 0)  BY <1>0, <1>1, <1>3, <2>3, <3>1
    <3>2. ASSUME NEW c \in g.grid, b = <<c[1], c[2] + 1>>  PROVE b[2] >= 2
      BY <1>0, <1>1, <2>4, <3>2
    <3>. QED  BY <3>1, <3>2 DEF Shifted
  <2>6. IsFiniteSet(g.grid)  BY <1>0, AreaFinite, FS_Subset
  <2>7. IsFiniteSet(Whole) /\ Cardinality(Whole) = Width
    <3>1. IsFiniteSet(0 .. Width - 1) /\ Cardinality(0 .. Width - 1) = Width  BY <1>0, FS_Interval
    <3>2. IsFiniteSet({row}) /\ Cardinality({row}) = 1  BY FS_Singleton
    <3>. DEFINE Columns == 0 .. Width - 1
                Row == {row}
    <3>. HIDE DEF Columns, Row
    <3>4. IsFiniteSet(Columns \X Row) /\ Cardinality(Columns \X Row) = Cardinality(Columns) * Cardinality(Row)
      <4>1. IsFiniteSet(Columns) /\ IsFiniteSet(Row)  BY <3>1, <3>2 DEF Columns, Row
      <4>. QED  BY <4>1, FS_Product
    <3>3. IsFiniteSet(Whole) /\ Cardinality(Whole) = Width * 1  BY <3>1, <3>2, <3>4 DEF Columns, Row
    <3>. QED  BY <1>0, <3>3
  <2>8. Whole \subseteq g.grid  BY <1>3 DEF Full
  <2>9. IsFiniteSet(Rest) /\ Cardinality(Rest) = Cardinality(g.grid) - Width
    <3>. HIDE DEF Whole
    <3>1. g.grid \cap Whole = Whole  BY <2>8
    <3>2. /\ IsFiniteSet(g.grid \ Whole)
          /\ Cardinality(g.grid \ Whole) = Cardinality(g.grid) - Cardinality(g.grid \cap Whole)
      BY <2>6, FS_Difference
    <3>. QED  BY <2>7, <3>1, <3>2
  <2>10. \A b \in Rest : b \in g.grid /\ (b[2] > row \/ b[2] < row)
    <3>. SUFFICES ASSUME NEW b \in g.grid, b[2] = row  PROVE b \in Whole
      BY <1>0, <1>1
    <3>. QED  BY <1>1
  <2>11. \A b \in g.grid : b[2] # row => b \in Rest
    OBVIOUS
  <2>. HIDE DEF Whole, Rest
  <2>12. f \in Injection(Rest, Shifted(g, row))
    <3>1. ASSUME NEW b \in Rest  PROVE f[b] \in Shifted(g, row)
      BY <2>10, <1>0, <1>1 DEF Shifted
    <3>2. ASSUME NEW b \in Rest, NEW c \in Rest, f[b] = f[c]  PROVE b = c
      <4>1. /\ b[1] \in Int /\ b[2] \in Int /\ c[1] \in Int /\ c[2] \in Int
            /\ b = <<b[1], b[2]>> /\ c = <<c[1], c[2]>>
        BY <1>1, <2>10
      <4>2. CASE b[2] > row /\ c[2] > row  BY <3>2, <4>2
      <4>3. CASE b[2] > row /\ c[2] < row
        <5>1. b = <<c[1], c[2] + 1>>  BY <1>0, <3>2, <4>1, <4>3
        <5>2. b[2] = c[2] + 1  BY <5>1
        <5>. QED  BY <1>0, <4>1, <4>3, <5>2
      <4>4. CASE b[2] < row /\ c[2] > row
        <5>1. c = <<b[1], b[2] + 1>>  BY <1>0, <3>2, <4>1, <4>4
        <5>2. c[2] = b[2] + 1  BY <5>1
        <5>. QED  BY <1>0, <4>1, <4>4, <5>2
      <4>5. CASE b[2] < row /\ c[2] < row
        <5>1. <<b[1], b[2] + 1>> = <<c[1], c[2] + 1>>  BY <1>0, <3>2, <4>1, <4>5
        <5>2. b[1] = c[1] /\ b[2] + 1 = c[2] + 1  BY <5>1
        <5>3. b[2] = c[2]  BY <4>1, <5>2
        <5>. QED  BY <4>1, <5>2, <5>3
      <4>. QED  BY <2>10, <4>2, <4>3, <4>4, <4>5
    <3>. QED  BY <3>1, <3>2 DEF Injection, IsInjective
  <2>13. f \in Surjection(Rest, Shifted(g, row))
    <3>. SUFFICES ASSUME NEW b \in Shifted(g, row)  PROVE \E c \in Rest : f[c] = b
      BY <2>12 DEF Injection, Surjection
    <3>1. CASE b \in g.grid /\ (b[2] > row \/ b[2] = 0)
      <4>1. b[2] > row  BY <1>3, <3>1
      <4>2. b \in Rest  BY <1>0, <1>1, <2>11, <3>1, <4>1
      <4>. QED  BY <4>1, <4>2
    <3>2. ASSUME NEW c \in g.grid, c[2] < row, b = <<c[1], c[2] + 1>>
          PROVE  \E x \in Rest : f[x] = b
      <4>1. c \in Rest  BY <1>0, <1>1, <2>11, <3>2
      <4>2. ~(c[2] > row)  BY <1>0, <1>1, <3>2
      <4>. QED  BY <3>2, <4>1, <4>2
    <3>. QED  BY <3>1, <3>2 DEF Shifted
  <2>14. ExistsBijection(Rest, Shifted(g, row))
    BY <2>12, <2>13 DEF ExistsBijection, Bijection
  <2>15. Cardinality(Shifted(g, row)) = Cardinality(Rest)  BY <2>9, <2>14, FS_Bijection
  <2>16. \A b \in Shifted(g, row) : b[2] \notin {0, 1}
    <3>. SUFFICES ASSUME NEW b \in Shifted(g, row), b[2] \in {0, 1}  PROVE FALSE
      OBVIOUS
    <3>. QED  BY <2>5
  <2>. QED  BY <2>9, <2>15, <2>16
<1>. QED  BY <1>2, <1>3

-----------------------------------------------------------------------------
(* The steps of the game.  What a key or a tick finds if it is not odd.    *)

LEMMA FairPlay ==
    ASSUME TetrisAssumption, GameInv, NEW t \in Types, Played(game) = {}
    PROVE  LET g == Generated(game, t)
           IN  /\ odd = {} /\ draw = "idle" /\ game.anim # "clear"
               /\ Apart(g) /\ g.anim = game.anim /\ g.count = game.count
               /\ Cardinality(game.grid) = tally
               /\ game.anim = "over" => Emptied
<1>1. odd = {} /\ draw = "idle" /\ game.anim # "clear" /\ ~(game.anim = "over" /\ game.type # "EMPTY")
  BY DEF Played
<1>2. game \in Games /\ Inside(game) /\ Fair
  BY <1>1 DEF GameInv, GameSafe, GameTypeOK, PieceInside, Inside
<1>3. CASE game.type = "EMPTY"
  <2>1. Emptied  BY <1>1, <1>2, <1>3 DEF Fair
  <2>. QED  BY <1>1, <1>2, <1>3, <2>1, GeneratedKeeps, FS_EmptySet DEF Emptied
<1>4. CASE game.type # "EMPTY"
  <2>1. game.anim # "over"  BY <1>1, <1>4
  <2>2. Generated(game, t) = game  BY <1>4 DEF Generated
  <2>3. Apart(game) /\ Cardinality(game.grid) = tally
    BY <1>1, <2>1 DEF GameInv, GameSafe, PieceApart, BlocksKept, Apart
  <2>. QED  BY <1>1, <2>1, <2>2, <2>3
<1>. QED  BY <1>3, <1>4

(* A key that moves or turns the piece.                                    *)
LEMMA MovedInv ==
    ASSUME TetrisAssumption, GameInv, NEW t \in Types, game' \in Games, Inside(game'),
           LET g == Generated(game, t)
           IN  /\ game'.type = g.type /\ game'.grid = g.grid /\ game'.anim = g.anim
               /\ game'.count = g.count /\ (Apart(g) => Apart(game')),
           odd' = Played(game), made' \in 0 .. MaxPieces, draw # "fault",
           UNCHANGED <<draw, y, found, tally>>
    PROVE  GameInv'
<1>. DEFINE g == Generated(game, t)
<1>1. /\ game \in Games /\ g.type \in Types /\ g.grid = game.grid
      /\ g.anim \in {game.anim, "over"}
  BY GeneratedKeeps DEF GameInv, GameSafe, GameTypeOK, PieceInside, Inside
<1>2. g.type # "EMPTY"  BY <1>1, PieceFacts DEF TetrisAssumption, TypesAssumption
<1>. HIDE DEF g
<1>3. /\ game'.type = g.type /\ game'.grid = game.grid /\ game'.anim = g.anim
      /\ game'.count = g.count /\ (Apart(g) => Apart(game'))
  BY <1>1 DEF g
<1>4. GameTypeOK' /\ PieceInside'
  BY DEF GameInv, GameSafe, GameTypeOK, Played, PieceInside, Inside
<1>5. Splashing' /\ Shifting'
  BY <1>1, <1>3 DEF GameInv, Splashing, Shifting, Emptied
<1>6. Called' /\ CalledLive'
  BY <1>1, <1>3 DEF GameInv, Called, CalledLive, Played
<1>7. ASSUME odd' = {}
      PROVE  PieceApart' /\ BlocksKept' /\ LinesCleared' /\ Fair'
  <2>1. /\ odd = {} /\ draw = "idle" /\ game.anim # "clear"
        /\ Apart(g) /\ g.anim = game.anim /\ g.count = game.count
        /\ Cardinality(game.grid) = tally /\ (game.anim = "over" => Emptied)
    BY <1>7, FairPlay DEF g
  <2>2. PieceApart' /\ BlocksKept'  BY <1>3, <2>1 DEF PieceApart, BlocksKept, Apart
  <2>3. LinesCleared'
    BY <1>3, <2>1 DEF LinesCleared, Full, GameInv, GameSafe
  <2>4. Fair'
    BY <1>1, <1>2, <1>3, <2>1 DEF Fair, Emptied, AtDraw, Searched
  <2>. QED  BY <2>2, <2>3, <2>4
<1>8. odd' # {} => PieceApart' /\ BlocksKept' /\ LinesCleared'
  BY DEF PieceApart, BlocksKept, LinesCleared
<1>. QED  BY <1>4, <1>5, <1>6, <1>7, <1>8 DEF GameInv, GameSafe

(* A piece that lands, and the next one.                                   *)
LEMMA LandedInv ==
    ASSUME TetrisAssumption, GameInv, NEW t \in Types, NEW u \in Types,
           game' = Landed(Generated(game, t), u),
           tally' = tally + Cardinality(BlocksOf(Generated(game, t))),
           odd' = Played(game), made' \in 0 .. MaxPieces, draw # "fault",
           UNCHANGED <<draw, y, found>>
    PROVE  GameInv'
<1>. DEFINE g == Generated(game, t)
<1>1. g \in Games /\ g.type \in Types /\ g.grid = game.grid /\ Inside(g) /\ game \in Games
  BY GeneratedKeeps DEF GameInv, GameSafe, GameTypeOK, PieceInside, Inside
<1>2. game' = Landed(g, u) /\ tally' = tally + Cardinality(BlocksOf(g))  OBVIOUS
<1>. HIDE DEF g
<1>3. /\ game' \in Games /\ Inside(game') /\ game'.type \in Types /\ Fresh(game')
      /\ game'.grid = game.grid \cup BlocksOf(g) /\ game'.count = 0
      /\ game'.anim \in {"clear", "over"} /\ (game'.anim = "clear" => Apart(game'))
  BY <1>1, <1>2, LandedKeeps
<1>4. IsFiniteSet(BlocksOf(g)) /\ Cardinality(BlocksOf(g)) \in Nat
  BY <1>1, AreaFinite, FS_Subset, FS_CardinalityType DEF Inside
<1>5. IsFiniteSet(game.grid) /\ Cardinality(game.grid) \in Nat
  BY <1>1, AreaFinite, FS_Subset, FS_CardinalityType DEF Games
<1>6. GameTypeOK' /\ PieceInside'
  <2>1. tally \in Int  BY DEF GameInv, GameSafe, GameTypeOK
  <2>2. tally' \in Int  BY <1>2, <1>4, <2>1
  <2>. QED  BY <1>3, <2>2 DEF GameInv, GameSafe, GameTypeOK, Played, PieceInside, Inside
<1>7. Splashing' /\ Shifting' /\ Called' /\ CalledLive'
  BY <1>3 DEF GameInv, Splashing, Shifting, Called, CalledLive
<1>8. ASSUME odd' = {}
      PROVE  PieceApart' /\ BlocksKept' /\ LinesCleared' /\ Fair'
  <2>1. draw = "idle" /\ Apart(g) /\ Cardinality(game.grid) = tally
    BY <1>8, FairPlay DEF g
  <2>2. PieceApart'  BY <1>3 DEF PieceApart, Apart
  <2>3. BlocksKept'
    <3>1. game.grid \cap BlocksOf(g) = {}  BY <1>1, <2>1 DEF Apart
    <3>2. Cardinality(game.grid \cup BlocksOf(g)) = Cardinality(game.grid) + Cardinality(BlocksOf(g)) - 0
      BY <1>4, <1>5, <3>1, FS_Union, FS_EmptySet
    <3>3. Cardinality(game'.grid) = tally'  BY <1>2, <1>3, <1>4, <1>5, <2>1, <3>2
    <3>. QED  BY <3>3 DEF BlocksKept
  <2>4. LinesCleared' /\ Fair'
    BY <1>3, <2>1 DEF LinesCleared, Fair, Fresh, Emptied, AtDraw, Searched
  <2>. QED  BY <2>2, <2>3, <2>4
<1>9. odd' # {} => PieceApart' /\ BlocksKept' /\ LinesCleared'
  BY DEF PieceApart, BlocksKept, LinesCleared
<1>. QED  BY <1>6, <1>7, <1>8, <1>9 DEF GameInv, GameSafe

(* No line of an empty grid is full.                                       *)
LEMMA EmptyNotFull ==
    ASSUME TetrisAssumption, NEW g, g.grid = {}, NEW row
    PROVE  ~Full(g, row)
<1>1. 0 \in 0 .. Width - 1  BY DEF TetrisAssumption, GridAssumption
<1>. QED  BY <1>1 DEF Full

LEMMA PlayKeeps == TetrisAssumption /\ GameInv /\ Interrupt => GameInv'
<1>. SUFFICES ASSUME TetrisAssumption, GameInv, Interrupt  PROVE GameInv'
  OBVIOUS
<1>0. /\ game \in Games /\ Inside(game) /\ made \in 0 .. MaxPieces /\ MaxPieces \in Nat
      /\ draw # "fault"
  BY DEF GameInv, GameSafe, GameTypeOK, PieceInside, Inside, Interrupt, TetrisAssumption,
         PiecesAssumption
<1>1. ASSUME NEW t \in Types
      PROVE  LET g == Generated(game, t) IN g \in Games /\ Inside(g) /\ g.type \in Types
  BY <1>0, GeneratedKeeps
<1>2. New(game) \in {0, 1}  BY DEF New
<1>3. ASSUME Down, odd' = Played(game), UNCHANGED <<draw, y, found>>  PROVE GameInv'
  <2>1. PICK t \in Types, u \in Types :
          LET g == Generated(game, t)
          IN  IF CanMove(g, <<0, 1>>)
              THEN /\ made + New(game) <= MaxPieces
                   /\ game' = Move(g, <<0, 1>>)
                   /\ made' = made + New(game)
                   /\ UNCHANGED tally
              ELSE /\ made + New(game) < MaxPieces
                   /\ game' = Landed(g, u)
                   /\ made' = made + New(game) + 1
                   /\ tally' = tally + Cardinality(BlocksOf(g))
    BY <1>3 DEF Down
  <2>2. made' \in 0 .. MaxPieces  BY <1>0, <1>2, <2>1
  <2>3. CASE CanMove(Generated(game, t), <<0, 1>>)
    <3>1. game' = Move(Generated(game, t), <<0, 1>>) /\ tally' = tally  BY <2>1, <2>3
    <3>2. <<0, 1>> \in Steps  BY DEF Steps
    <3>3. LET g == Generated(game, t)
          IN  /\ game' \in Games /\ Inside(game') /\ game'.type = g.type /\ game'.grid = g.grid
              /\ game'.anim = g.anim /\ game'.count = g.count /\ (Apart(g) => Apart(game'))
      BY <1>1, <3>1, <3>2, MoveKeeps
    <3>. QED  BY <1>0, <1>3, <2>2, <3>1, <3>3, MovedInv
  <2>4. CASE ~CanMove(Generated(game, t), <<0, 1>>)
    BY <1>0, <1>3, <2>1, <2>2, <2>4, LandedInv
  <2>. QED  BY <2>3, <2>4
<1>4. CASE TICK  BY <1>3, <1>4 DEF TICK
<1>5. CASE KeyS  BY <1>3, <1>5 DEF KeyS
<1>6. CASE KeyAD
  <2>1. PICK t \in Types, off \in {<<-1, 0>>, <<1, 0>>} :
          made + New(game) <= MaxPieces /\ game' = Move(Generated(game, t), off)
    BY <1>6 DEF KeyAD
  <2>2. made' = made + New(game) /\ odd' = Played(game) /\ UNCHANGED <<draw, y, found, tally>>
    BY <1>6 DEF KeyAD
  <2>3. made' \in 0 .. MaxPieces /\ off \in Steps  BY <1>0, <1>2, <2>1, <2>2 DEF Steps
  <2>4. LET g == Generated(game, t)
        IN  /\ game' \in Games /\ Inside(game') /\ game'.type = g.type /\ game'.grid = g.grid
            /\ game'.anim = g.anim /\ game'.count = g.count /\ (Apart(g) => Apart(game'))
    BY <1>1, <2>1, <2>3, MoveKeeps
  <2>. QED  BY <1>0, <2>2, <2>3, <2>4, MovedInv
<1>7. CASE KeyR
  <2>1. PICK t \in Types :
          made + New(game) <= MaxPieces /\ game' = Rotate(Generated(game, t))
    BY <1>7 DEF KeyR
  <2>2. made' = made + New(game) /\ odd' = Played(game) /\ UNCHANGED <<draw, y, found, tally>>
    BY <1>7 DEF KeyR
  <2>3. made' \in 0 .. MaxPieces  BY <1>0, <1>2, <2>1, <2>2
  <2>4. LET g == Generated(game, t)
        IN  /\ game' \in Games /\ Inside(game') /\ game'.type = g.type /\ game'.grid = g.grid
            /\ game'.anim = g.anim /\ game'.count = g.count /\ (Apart(g) => Apart(game'))
    BY <1>1, <2>1, RotateKeeps
  <2>. QED  BY <1>0, <2>2, <2>3, <2>4, MovedInv
<1>8. CASE KeyEnter
  <2>1. /\ game' \in Games /\ game'.grid = game.grid /\ game'.anim = "none"
        /\ BlocksOf(game') = BlocksOf(game) /\ game'.type = game.type
    <3>1. 0 \in 0 .. Speed * Byte  BY Counts
    <3>. QED  BY <1>0, <1>8, <3>1 DEF KeyEnter, StartAnimation, Games, BlocksOf
  <2>2. GameTypeOK' /\ PieceInside'
    BY <1>8, <2>1 DEF KeyEnter, GameInv, GameSafe, GameTypeOK, PieceInside
  <2>3. Splashing' /\ Shifting' /\ Called' /\ CalledLive'
    BY <1>0, <1>8, <2>1 DEF KeyEnter, GameInv, Splashing, Shifting, Called, CalledLive
  <2>4. ASSUME odd' = {}  PROVE PieceApart' /\ BlocksKept' /\ LinesCleared' /\ Fair'
    <3>1. odd = {} /\ draw = "idle" /\ Emptied
      BY <1>8, <2>4 DEF KeyEnter, GameInv, Splashing, Fair
    <3>2. game'.grid = {} /\ tally' = 0  BY <1>8, <2>1, <3>1 DEF KeyEnter, Emptied
    <3>3. LinesCleared'  BY <3>2, EmptyNotFull DEF LinesCleared, Full
    <3>. QED
      BY <1>8, <2>1, <3>1, <3>2, <3>3, FS_EmptySet
      DEF KeyEnter, PieceApart, BlocksKept, Fair, Emptied, AtDraw, Searched
  <2>5. odd' # {} => PieceApart' /\ BlocksKept' /\ LinesCleared'
    BY DEF PieceApart, BlocksKept, LinesCleared
  <2>. QED  BY <2>2, <2>3, <2>4, <2>5 DEF GameInv, GameSafe
<1>. QED  BY <1>4, <1>5, <1>6, <1>7, <1>8 DEF Interrupt

(* A step that leaves the game, its tally and what was odd as they are.    *)
LEMMA WatchKeeps ==
    ASSUME GameInv, UNCHANGED <<game, made, tally, odd>>, y' \in 0 .. Height, found' \in BOOLEAN,
           draw' \in {"idle", "call", "fault", "reset", "grid", "line", "shift", "stop", "count"},
           draw' = "grid" <=> draw = "grid",
           draw' = "shift" => y' < Height,
           draw' \in {"call", "fault"} /\ game.anim = "none" => "entered" \in odd,
           draw' = "fault" => game.anim = "none",
           game.anim = "splash" => draw' \in {"idle", "call", "count"},
           odd = {} => Fair'
    PROVE  GameInv'
<1>1. GameTypeOK' /\ PieceInside'
  BY DEF GameInv, GameSafe, GameTypeOK, PieceInside, BlocksOf
<1>2. PieceApart' /\ BlocksKept' /\ LinesCleared'
  BY DEF GameInv, GameSafe, PieceApart, BlocksKept, LinesCleared, BlocksOf, Full
<1>3. Splashing' /\ Shifting' /\ Called'
  BY DEF GameInv, Splashing, Emptied, Shifting, Called
<1>4. CalledLive'  BY DEF CalledLive
<1>. QED  BY <1>1, <1>2, <1>3, <1>4 DEF GameInv, GameSafe

LEMMA DrawKeeps == TetrisAssumption /\ GameInv /\ Draw => GameInv'
<1>. SUFFICES ASSUME TetrisAssumption, GameInv, Draw  PROVE GameInv'
  OBVIOUS
<1>0. /\ Height \in Nat \ {0} /\ Width \in Nat \ {0} /\ game \in Games /\ y \in 0 .. Height
      /\ found \in BOOLEAN /\ tally \in Int /\ game.grid \subseteq Area
      /\ game.anim \in {"none", "splash", "over", "clear"} /\ game.count \in 0 .. Speed * Byte
  BY DEF TetrisAssumption, GridAssumption, GameInv, GameSafe, GameTypeOK, Games
<1>1. CASE DrawBegin
  <2>1. odd = {} => Fair'
    BY <1>1 DEF DrawBegin, Animates, GameInv, Fair, Emptied, AtDraw, Searched
  <2>. QED  BY <1>0, <1>1, <2>1, WatchKeeps DEF DrawBegin, Animates
<1>2. CASE CallAnimation
  <2>1. draw' = CASE game.anim = "none" -> "fault"
                  [] game.anim = "splash" -> "count"
                  [] game.anim = "over" -> IF game.count <= 1 THEN "reset" ELSE "count"
                  [] game.anim = "clear" -> "line"
    BY <1>2 DEF CallAnimation
  <2>2. draw = "call" /\ y' = 0 /\ found' = FALSE /\ UNCHANGED <<game, made, tally, odd>>
    BY <1>2 DEF CallAnimation
  <2>3. /\ game.anim = "none" => draw' = "fault"
        /\ game.anim = "splash" => draw' = "count"
        /\ game.anim = "over" => draw' = "reset" \/ (draw' = "count" /\ game.count > 1)
        /\ game.anim = "clear" => draw' = "line"
    BY <1>0, <2>1
  <2>4. \A row \in FullLines : row >= 0  BY <1>0 DEF FullLines
  <2>5. odd = {} => Fair'
    <3>1. FullLines' = FullLines  BY <2>2 DEF FullLines, Full
    <3>. QED  BY <1>0, <2>2, <2>3, <2>4, <3>1 DEF GameInv, Fair, Emptied, AtDraw, Searched, Fresh
  <2>6. game.anim = "none" => "entered" \in odd  BY <2>2 DEF GameInv, Called
  <2>7. /\ draw' \in {"fault", "count", "reset", "line"} /\ draw # "grid"
        /\ draw' = "fault" => game.anim = "none"
        /\ game.anim = "splash" => draw' = "count"
        /\ y' \in 0 .. Height /\ found' \in BOOLEAN
    <3>1. 0 \in 0 .. Height  BY <1>0
    <3>2. draw' \in {"fault", "count", "reset", "line"}  BY <1>0, <2>3
    <3>3. draw' = "fault" => game.anim = "none"  BY <1>0, <2>3
    <3>. QED  BY <2>2, <2>3, <3>1, <3>2, <3>3
  <2>. QED  BY <2>2, <2>5, <2>6, <2>7, WatchKeeps
<1>3. CASE ResetPiece
  <2>1. /\ game' \in Games /\ game'.grid = game.grid /\ game'.anim = game.anim
        /\ game'.type = "EMPTY"
    BY <1>0, <1>3 DEF ResetPiece, Games
  <2>2. BlocksOf(game') = {}  BY <2>1 DEF BlocksOf, Blocks, GetShape
  <2>3. GameTypeOK' /\ PieceInside' /\ PieceApart'
    BY <1>3, <2>1, <2>2 DEF ResetPiece, GameInv, GameSafe, GameTypeOK, PieceInside, PieceApart
  <2>4. Splashing' /\ Shifting' /\ Called' /\ CalledLive'
    BY <1>3, <2>1 DEF ResetPiece, GameInv, Splashing, Shifting, Called, CalledLive
  <2>5. BlocksKept'  BY <1>3 DEF ResetPiece, BlocksKept
  <2>6. LinesCleared'
    BY <1>3, <2>1 DEF ResetPiece, GameInv, GameSafe, LinesCleared, Full
  <2>7. odd' = {} => Fair'
    BY <1>3, <2>1 DEF ResetPiece, GameInv, Fair, AtDraw, Searched
  <2>. QED  BY <2>3, <2>4, <2>5, <2>6, <2>7 DEF GameInv, GameSafe
<1>4. CASE ClearGrid
  <2>1. /\ game' \in Games /\ game'.grid = {} /\ game'.anim = game.anim
        /\ BlocksOf(game') = BlocksOf(game)
    BY <1>0, <1>4 DEF ClearGrid, Games, BlocksOf
  <2>2. GameTypeOK' /\ PieceInside' /\ PieceApart'
    BY <1>4, <2>1 DEF ClearGrid, GameInv, GameSafe, GameTypeOK, PieceInside, PieceApart
  <2>3. Emptied'  BY <1>4, <2>1 DEF ClearGrid, Emptied
  <2>4. Splashing' /\ Shifting' /\ Called' /\ CalledLive'
    BY <1>4, <2>3 DEF ClearGrid, Splashing, Shifting, Called, CalledLive
  <2>5. BlocksKept'  BY <2>3, FS_EmptySet DEF BlocksKept, Emptied
  <2>6. LinesCleared'  BY <2>1, EmptyNotFull DEF LinesCleared, Full
  <2>7. Fair'  BY <1>4, <2>3 DEF ClearGrid, Fair, AtDraw, Searched
  <2>. QED  BY <2>2, <2>4, <2>5, <2>6, <2>7 DEF GameInv, GameSafe
<1>5. CASE FindLine
  <2>1. /\ draw = "line" /\ y < Height /\ found' = (found \/ Full(game, y))
        /\ UNCHANGED <<game, made, tally, odd>>
        /\ \/ Full(game, y) /\ draw' = "shift" /\ y' = y
           \/ draw' = "line" /\ y' = y + 1
    BY <1>5 DEF FindLine
  <2>2. y \in 0 .. Height - 1 /\ y' \in 0 .. Height /\ found' \in BOOLEAN
    BY <1>0, <2>1 DEF Full
  <2>3. ASSUME odd = {}  PROVE Fair'
    <3>1. /\ game.anim = "clear" /\ (Fresh(game) \/ Emptied)
          /\ game.type = "EMPTY" => Emptied
          /\ ~found => \A row \in FullLines : row >= y
      BY <2>1, <2>3 DEF GameInv, Fair, AtDraw, Searched
    <3>2. FullLines' = FullLines  BY <2>1 DEF FullLines, Full
    <3>3. CASE draw' = "shift"
      BY <2>1, <2>2, <3>1, <3>2, <3>3 DEF Fair, Emptied, AtDraw, Searched, FullLines, Full
    <3>4. CASE draw' = "line" /\ y' = y + 1
      <4>1. ASSUME ~found', NEW row \in FullLines  PROVE row >= y + 1
        <5>0. ~found /\ ~Full(game, y)  BY <2>1, <4>1
        <5>1. row >= y /\ row # y /\ row \in Int  BY <3>1, <4>1, <5>0 DEF FullLines
        <5>. QED  BY <2>2, <5>1
      <4>2. Searched'  BY <3>2, <3>4, <4>1 DEF Searched
      <4>. QED  BY <2>1, <3>1, <3>4, <4>2 DEF Fair, Emptied, AtDraw
    <3>. QED  BY <2>1, <3>3, <3>4
  <2>4. game.anim # "splash"  BY <2>1 DEF GameInv, Splashing
  <2>. QED  BY <2>1, <2>2, <2>3, <2>4, WatchKeeps
<1>6. CASE ShiftLines
  <2>1. /\ draw = "shift" /\ game' = [game EXCEPT !.grid = Shifted(game, y)]
        /\ tally' = tally - Width /\ draw' = "line" /\ y' = y + 1
        /\ UNCHANGED <<found, made>>
        /\ odd' = IF \E b \in game.grid : b[2] = 0 THEN odd \cup {"topped"} ELSE odd
    BY <1>6 DEF ShiftLines
  <2>2. y \in 0 .. Height - 1 /\ y' \in 0 .. Height /\ game.anim # "splash"
    BY <1>0, <2>1 DEF GameInv, Shifting, Splashing
  <2>3. /\ game' \in Games /\ game'.grid = Shifted(game, y) /\ game'.anim = game.anim
        /\ game'.type = game.type /\ game'.rot = game.rot /\ game'.pos = game.pos
    <3>1. Shifted(game, y) \in SUBSET Area  BY <1>0, <2>2, ShiftedKeeps
    <3>. QED  BY <1>0, <2>1, <3>1 DEF Games
  <2>4. GameTypeOK' /\ PieceInside'
    <3>1. tally' \in Int  BY <1>0, <2>1
    <3>. QED  BY <2>1, <2>2, <2>3, <3>1 DEF GameInv, GameSafe, GameTypeOK, PieceInside, BlocksOf
  <2>5. Splashing' /\ Shifting' /\ Called' /\ CalledLive'
    BY <2>1, <2>2, <2>3 DEF Splashing, Shifting, Called, CalledLive
  <2>6. ASSUME odd' = {}  PROVE PieceApart' /\ BlocksKept' /\ LinesCleared' /\ Fair'
    <3>1. odd = {} /\ (\A b \in game.grid : b[2] # 0)  BY <2>1, <2>6
    <3>2. game.anim = "clear" /\ y \in FullLines /\ found
      BY <2>1, <3>1 DEF GameInv, Fair, AtDraw, Searched
    <3>3. Full(game, y)  BY <3>2 DEF FullLines
    <3>4. game.grid # {}  BY <3>3, <1>0, EmptyNotFull
    <3>5. Fresh(game) /\ Cardinality(game.grid) = tally
      BY <2>1, <3>1, <3>2, <3>4 DEF GameInv, GameSafe, BlocksKept, Fair, Emptied
    <3>6. /\ \A b \in game'.grid : b[2] \notin {0, 1}
          /\ Cardinality(game'.grid) = Cardinality(game.grid) - Width
      BY <1>0, <2>2, <2>3, <3>1, <3>3, ShiftedKeeps
    <3>7. PieceApart'
      <4>1. game.type \in Types  BY <1>0, <3>5 DEF Games, Fresh
      <4>2. BlocksOf(game') = Blocks(game.type, 0, Start)  BY <2>3, <3>5 DEF BlocksOf, Fresh
      <4>3. \A b \in BlocksOf(game') : b[2] \in {0, 1}  BY <4>1, <4>2, FreshRows
      <4>. QED  BY <3>6, <4>3 DEF PieceApart
    <3>8. BlocksKept'  BY <2>1, <3>5, <3>6 DEF BlocksKept
    <3>9. LinesCleared'  BY <2>3, <3>2 DEF LinesCleared
    <3>10. Fair'
      BY <2>1, <2>3, <3>2, <3>5 DEF Fair, Fresh, AtDraw, Searched
    <3>. QED  BY <3>7, <3>8, <3>9, <3>10
  <2>7. odd' # {} => PieceApart' /\ BlocksKept' /\ LinesCleared'
    BY DEF PieceApart, BlocksKept, LinesCleared
  <2>. QED  BY <2>4, <2>5, <2>6, <2>7 DEF GameInv, GameSafe
<1>7. CASE EndLines
  <2>1. /\ draw = "line" /\ y = Height /\ UNCHANGED <<game, y, found, made, tally, odd>>
        /\ draw' = IF ~found THEN "stop" ELSE "count"
    BY <1>7 DEF EndLines, Ended
  <2>2. ASSUME odd = {}  PROVE Fair'
    <3>1. FullLines' = FullLines  BY <2>1 DEF FullLines, Full
    <3>2. ASSUME ~found  PROVE FullLines = {}
      <4>1. \A row \in FullLines : row >= Height
        BY <2>1, <2>2, <3>2 DEF GameInv, Fair, Searched
      <4>2. \A row \in FullLines : row \in 0 .. Height - 1  BY DEF FullLines
      <4>. QED  BY <1>0, <4>1, <4>2
    <3>. QED  BY <2>1, <2>2, <3>1, <3>2 DEF GameInv, Fair, Emptied, AtDraw, Searched
  <2>3. game.anim # "splash"  BY <2>1 DEF GameInv, Splashing
  <2>. QED  BY <1>0, <2>1, <2>2, <2>3, WatchKeeps
<1>8. CASE StopAnimation
  <2>1. /\ game' \in Games /\ game'.grid = game.grid /\ game'.anim = "none"
        /\ game'.type = game.type /\ BlocksOf(game') = BlocksOf(game)
    <3>1. 0 \in 0 .. Speed * Byte  BY Counts
    <3>. QED  BY <1>0, <1>8, <3>1 DEF StopAnimation, StartAnimation, Games, BlocksOf
  <2>2. GameTypeOK' /\ PieceInside'
    BY <1>8, <2>1 DEF StopAnimation, GameInv, GameSafe, GameTypeOK, PieceInside
  <2>3. Splashing' /\ Shifting' /\ Called' /\ CalledLive'
    BY <1>8, <2>1 DEF StopAnimation, Splashing, Shifting, Called, CalledLive
  <2>4. ASSUME odd' = {}  PROVE PieceApart' /\ BlocksKept' /\ LinesCleared' /\ Fair'
    <3>1. odd = {} /\ game.anim = "clear" /\ FullLines = {}
      BY <1>8, <2>4 DEF StopAnimation, GameInv, Fair, AtDraw, Searched
    <3>2. PieceApart' /\ BlocksKept'
      BY <1>8, <2>1, <3>1 DEF StopAnimation, GameInv, GameSafe, PieceApart, BlocksKept
    <3>3. LinesCleared'  BY <2>1, <3>1 DEF LinesCleared, FullLines, Full
    <3>4. Fair'
      BY <1>8, <2>1, <3>1 DEF StopAnimation, GameInv, Fair, Emptied, AtDraw, Searched
    <3>. QED  BY <3>2, <3>3, <3>4
  <2>5. odd' # {} => PieceApart' /\ BlocksKept' /\ LinesCleared'
    BY DEF PieceApart, BlocksKept, LinesCleared
  <2>. QED  BY <2>2, <2>3, <2>4, <2>5 DEF GameInv, GameSafe
<1>9. CASE CountFrame
  <2>1. Counted(game) \in 0 .. Speed * Byte
    <3>. DEFINE m == Speed * Byte
    <3>1. m \in Nat /\ 2 <= m  BY Counts
    <3>2. game.count \in Nat  BY <1>0
    <3>. HIDE DEF m
    <3>3. ((game.count + 1) % m) \in 0 .. m  BY <3>1, <3>2
    <3>4. game.count < 2 => game.count + 1 \in 0 .. m  BY <3>1, <3>2
    <3>5. game.count \in 0 .. m  BY <1>0 DEF m
    <3>. QED  BY <3>3, <3>4, <3>5 DEF Counted, m
  <2>2. /\ game' \in Games /\ game'.grid = game.grid /\ game'.anim = game.anim
        /\ game'.type = game.type /\ game'.rot = game.rot /\ game'.pos = game.pos
    BY <1>0, <1>9, <2>1 DEF CountFrame, Games
  <2>3. GameTypeOK' /\ PieceInside'
    BY <1>9, <2>2 DEF CountFrame, GameInv, GameSafe, GameTypeOK, PieceInside, BlocksOf
  <2>4. Splashing' /\ Shifting' /\ Called' /\ CalledLive'
    BY <1>9, <2>2 DEF CountFrame, GameInv, Splashing, Emptied, Shifting, Called, CalledLive
  <2>5. PieceApart' /\ BlocksKept' /\ LinesCleared'
    BY <1>9, <2>2
    DEF CountFrame, GameInv, GameSafe, PieceApart, BlocksKept, LinesCleared, BlocksOf, Full
  <2>6. odd' = {} => Fair'
    BY <1>9, <2>2 DEF CountFrame, GameInv, Fair, Fresh, Emptied, AtDraw, Searched
  <2>. QED  BY <2>3, <2>4, <2>5, <2>6 DEF GameInv, GameSafe
<1>. QED  BY <1>1, <1>2, <1>3, <1>4, <1>5, <1>6, <1>7, <1>8, <1>9 DEF Draw

LEMMA GameInvInit == TetrisAssumption /\ GameInit => GameInv
<1>. SUFFICES ASSUME TetrisAssumption, GameInit  PROVE GameInv
  OBVIOUS
<1>1. <<0, 0>> \in Area /\ 0 \in Rotation /\ 0 \in 0 .. Speed * Byte
  BY Counts DEF TetrisAssumption, GridAssumption, Area, Rotation
<1>2. game \in Games
  BY <1>1 DEF GameInit, Games
<1>3. game.grid = {} /\ game.type = "EMPTY" /\ game.anim = "splash"  BY DEF GameInit
<1>4. BlocksOf(game) = {}  BY <1>3 DEF BlocksOf, Blocks, GetShape
<1>5. GameTypeOK
  <2>1. 0 \in 0 .. Height /\ 0 \in 0 .. MaxPieces
    BY DEF TetrisAssumption, GridAssumption, PiecesAssumption
  <2>2. y = 0 /\ made = 0 /\ tally = 0 /\ draw = "idle" /\ odd = {} /\ found \in BOOLEAN
    BY DEF GameInit
  <2>. QED  BY <1>2, <2>1, <2>2 DEF GameTypeOK
<1>6. PieceInside /\ PieceApart /\ BlocksKept /\ LinesCleared /\ CalledLive
  BY <1>3, <1>4, FS_EmptySet
  DEF GameInit, PieceInside, PieceApart, BlocksKept, LinesCleared, CalledLive
<1>. QED
  BY <1>3, <1>5, <1>6
  DEF GameInit, GameInv, GameSafe, Splashing, Emptied, Shifting, Called, Fair, AtDraw, Searched

(* Tetris is safe whatever is played while it draws, for every size of the *)
(* grid, set of pieces, and speed: the piece stays inside; if no key was   *)
(* pressed during an animation it also stays apart from the grid, no block *)
(* appears or is lost, and no full line stays.                             *)
THEOREM GameIsSafe == TetrisAssumption => (GameSpec => []GameSafe)
<1>. SUFFICES ASSUME TetrisAssumption  PROVE GameSpec => []GameSafe
  OBVIOUS
<1>1. GameInit => GameInv  BY GameInvInit
<1>2. GameInv /\ [GameNext]_gameVars => GameInv'
  <2>. SUFFICES ASSUME GameInv, [GameNext]_gameVars  PROVE GameInv'
    OBVIOUS
  <2>1. CASE UNCHANGED gameVars
    BY <2>1
    DEF gameVars, GameInv, GameSafe, GameTypeOK, PieceInside, PieceApart, BlocksKept, LinesCleared,
        CalledLive, Splashing, Shifting, Called, Fair, Fresh, Emptied, AtDraw, Searched,
        FullLines, Full, BlocksOf
  <2>. QED  BY <2>1, PlayKeeps, DrawKeeps DEF GameNext
<1>3. GameInv => GameSafe  BY DEF GameInv
<1>. QED  BY <1>1, <1>2, <1>3, PTL DEF GameSpec

-----------------------------------------------------------------------------
(* The output that tty prints.  Text holds outputs of runs there were.     *)
Outputs == [run : 0 .. ran, feeds : Nat, wraps : Nat]

LineTypes == /\ Command \in Seq(Key) /\ typed \in Seq(Key) /\ Text \in Seq(Outputs)
             /\ eaten \in BOOLEAN /\ windowed \in BOOLEAN
             /\ upset \in BOOLEAN /\ astray \in BOOLEAN
             /\ cleared \subseteq 0 .. ran /\ shown \subseteq 0 .. ran /\ racing \subseteq 0 .. ran

(* Between the prompt and Command's reset nothing was typed, and behind it *)
(* the same in both.                                                       *)
LineKept == ~eaten => /\ AfterPrompt => typed = <<>>
                      /\ drawing = "done" => Command = typed
                      /\ BeforePrint /\ ~RedrawText => Command = typed
                      /\ LineAsTyped

(* What is in Text from the printing on was printed or came in between.    *)
TextPrinted == /\ drawing = "forget" => Runs(Text) \subseteq shown \cup racing
               /\ drawing \in {"command", "done"} => Runs(Text) \subseteq racing

(* All of Text fits on a screen, and behind the scrolling it fits below Y. *)
Fitting == LineAmount * Line <= FrameHeight

FitsBelow == Y + LineAmount * Line <= FrameHeight

(* The prompt is at most as far below the screen as the last print went    *)
(* beyond its line feeds.                                                  *)
Near == Y + Line <= FrameHeight + wrapped * Line

LineInside ==
    /\ ~astray =>
          /\ drawing \in {"idle", "measure", "amount"} => Y = 0 \/ Near
          /\ drawing = "idle" /\ ~RedrawText => Near
    /\ ~upset =>
          /\ drawing = "amount" => Fitting /\ Overflow > 0
          /\ drawing = "lower" => Fitting /\ amount = Overflow /\ amount > 0
          /\ drawing \in {"text", "print"} => FitsBelow
          /\ drawing \in {"forget", "command", "done"} => Near /\ Line <= FrameHeight

TtyInv == /\ TtyTypeOK /\ LineTypes
          /\ LineKept /\ OutputKept /\ PrintedOnce /\ TextPrinted
          /\ LineInside /\ ScrollInside

(* The least of the numbers that have a property.                          *)
LEMMA LeastIs ==
    ASSUME NEW S \in SUBSET Nat, S # {}
    PROVE  \E m \in S : \A n \in S : m <= n
<1>1. PICK m \in S : \A n \in S : <<n, m>> \notin OpToRel(<, Nat)
  BY NatLessThanWellFounded, WFMin, Zenon
<1>2. \A n \in S : ~(n < m)  BY <1>1, Zenon DEF OpToRel
<1>3. \A n \in S : m <= n  BY <1>2
<1>. QED  BY <1>3

(* The lines that Text takes are a number: Total's function has a value    *)
(* for each of them, which is the value before and that one.               *)
Summed(s, f, n) == IF n = 0 THEN 0 ELSE f[n - 1] + s[n]

SumTo(s) == CHOOSE f : f = [n \in 0 .. Len(s) |-> Summed(s, f, n)]

LEMMA TotalIs ==
    ASSUME NEW s, Len(s) \in Nat
    PROVE  /\ Total(s) = SumTo(s)[Len(s)]
           /\ SumTo(s)[0] = 0
           /\ \A n \in 1 .. Len(s) : SumTo(s)[n] = SumTo(s)[n - 1] + s[n]
<1>. DEFINE P(k) == \E f : f = [n \in 0 .. k |-> Summed(s, f, n)]
            Bad == {k \in Nat : ~P(k)}
<1>1. ASSUME Bad # {}  PROVE FALSE
  <2>1. PICK m \in Bad : \A k \in Bad : m <= k  BY <1>1, LeastIs
  <2>2. m \in Nat /\ ~P(m)  BY <2>1
  <2>3. CASE m = 0
    <3>. DEFINE f == [n \in 0 .. 0 |-> 0]
    <3>1. f = [n \in 0 .. 0 |-> Summed(s, f, n)]  BY DEF Summed
    <3>. QED  BY <2>2, <2>3, <3>1
  <2>4. CASE m # 0
    <3>1. m - 1 \in Nat /\ m - 1 \notin Bad  BY <2>1, <2>2, <2>4
    <3>2. PICK g : g = [n \in 0 .. m - 1 |-> Summed(s, g, n)]  BY <3>1
    <3>. DEFINE f == [n \in 0 .. m |-> IF n = m THEN g[m - 1] + s[m] ELSE g[n]]
    <3>3. \A n \in 0 .. m : f[n] = Summed(s, f, n)
      <4>. TAKE n \in 0 .. m
      <4>1. CASE n = m
        <5>1. f[m] = g[m - 1] + s[m] /\ f[m - 1] = g[m - 1]  BY <2>2, <2>4
        <5>. HIDE DEF f
        <5>. QED  BY <2>4, <4>1, <5>1 DEF Summed
      <4>2. CASE n # m
        <5>1. n \in 0 .. m - 1 /\ f[n] = g[n] /\ (n # 0 => f[n - 1] = g[n - 1])
          BY <2>2, <4>2
        <5>2. g[n] = Summed(s, g, n)  BY <3>2, <5>1
        <5>. HIDE DEF f
        <5>. QED  BY <5>1, <5>2 DEF Summed
      <4>. QED  BY <4>1, <4>2
    <3>4. f = [n \in 0 .. m |-> Summed(s, f, n)]
      <4>1. f = [n \in 0 .. m |-> f[n]]  OBVIOUS
      <4>. HIDE DEF f
      <4>. QED  BY <3>3, <4>1
    <3>. QED  BY <2>2, <3>4
  <2>. QED  BY <2>3, <2>4
<1>2. P(Len(s))  BY <1>1
<1>. DEFINE f == SumTo(s)
<1>3. f = [n \in 0 .. Len(s) |-> Summed(s, f, n)]  BY <1>2, Zenon DEF SumTo
<1>4. Total(s) = SumTo(s)[Len(s)]  BY Zenon DEF Total, SumTo, Summed
<1>. HIDE DEF f
<1>5. \A n \in 0 .. Len(s) : f[n] = Summed(s, f, n)  BY <1>3
<1>6. f[0] = 0  BY <1>5 DEF Summed
<1>7. \A n \in 1 .. Len(s) : f[n] = f[n - 1] + s[n]  BY <1>5 DEF Summed
<1>. QED  BY <1>4, <1>6, <1>7 DEF f

LEMMA TotalInNat ==
    ASSUME NEW s, Len(s) \in Nat, \A n \in 1 .. Len(s) : s[n] \in Nat
    PROVE  Total(s) \in Nat
<1>. DEFINE f == SumTo(s)
            Bad == {n \in Nat : n <= Len(s) /\ f[n] \notin Nat}
<1>1. /\ Total(s) = f[Len(s)] /\ f[0] = 0
      /\ \A n \in 1 .. Len(s) : f[n] = f[n - 1] + s[n]
  BY TotalIs
<1>. HIDE DEF f
<1>2. ASSUME Bad # {}  PROVE FALSE
  <2>1. PICK m \in Bad : \A k \in Bad : m <= k  BY <1>2, LeastIs
  <2>2. m \in Nat /\ m <= Len(s) /\ f[m] \notin Nat  BY <2>1
  <2>3. m # 0  BY <1>1, <2>2
  <2>4. m - 1 \in Nat /\ m - 1 \notin Bad /\ m \in 1 .. Len(s)  BY <2>1, <2>2, <2>3
  <2>5. f[m - 1] \in Nat  BY <2>2, <2>4
  <2>. QED  BY <1>1, <2>2, <2>4, <2>5
<1>. QED  BY <1>1, <1>2

(* The outputs' numbers.                                                   *)
LEMMA RunsOfOne ==
    ASSUME NEW o
    PROVE  Runs(<<o>>) = {o.run}
BY DEF Runs

LEMMA RunsOf ==
    ASSUME NEW S, NEW s \in Seq(S), NEW o \in S
    PROVE  Append(s, o) \in Seq(S) /\ Runs(Append(s, o)) = Runs(s) \cup {o.run}
<1>3. Append(s, o) \in Seq(S) /\ DOMAIN Append(s, o) = 1 .. Len(s) + 1 /\ DOMAIN s = 1 .. Len(s) /\ Len(s) \in Nat
  OBVIOUS
<1>4. Append(s, o)[Len(s) + 1] = o /\ \A n \in 1 .. Len(s) : Append(s, o)[n] = s[n]
  OBVIOUS
<1>5. Runs(Append(s, o)) = Runs(s) \cup {o.run}
  <2>1. Runs(Append(s, o)) \subseteq Runs(s) \cup {o.run}
    <3>1. ASSUME NEW n \in 1 .. Len(s) + 1  PROVE Append(s, o)[n].run \in Runs(s) \cup {o.run}
      <4>1. CASE n = Len(s) + 1  BY <1>4, <4>1
      <4>2. CASE n # Len(s) + 1
        <5>1. n \in 1 .. Len(s)  BY <1>3, <4>2
        <5>. QED  BY <1>3, <1>4, <5>1 DEF Runs
      <4>. QED  BY <4>1, <4>2
    <3>. QED  BY <1>3, <3>1 DEF Runs
  <2>2. \A n \in 1 .. Len(s) : n \in 1 .. Len(s) + 1  BY <1>3
  <2>3. Runs(s) \subseteq Runs(Append(s, o))  BY <1>3, <1>4, <2>2 DEF Runs
  <2>4. Len(s) + 1 \in 1 .. Len(s) + 1  BY <1>3
  <2>5. o.run \in Runs(Append(s, o))  BY <1>3, <1>4, <2>4 DEF Runs
  <2>. QED  BY <2>1, <2>3, <2>5
<1>. QED  BY <1>3, <1>5

LEMMA RunsIn ==
    ASSUME NEW S, NEW s \in Seq([run : S, feeds : Nat, wraps : Nat])
    PROVE  Runs(s) \subseteq S /\ FeedsOf(s) \in Nat /\ WrapsOf(s) \in Nat
<1>1. ASSUME NEW n \in DOMAIN s  PROVE s[n].run \in S /\ s[n].feeds \in Nat /\ s[n].wraps \in Nat
  <2>. DEFINE R == [run : S, feeds : Nat, wraps : Nat]
  <2>1. s \in Seq(R)  OBVIOUS
  <2>. HIDE DEF R
  <2>2. s[n] \in R  BY <2>1
  <2>. QED  BY <2>2 DEF R
<1>2. Len(s) \in Nat /\ DOMAIN s = 1 .. Len(s)  OBVIOUS
<1>3. ASSUME NEW v, v \in [1 .. Len(s) -> Nat]  PROVE Total(v) \in Nat
  <2>1. v \in Seq(Nat) /\ Len(v) = Len(s)  BY <1>2, <1>3
  <2>. QED  BY <1>2, <1>3, <2>1, TotalInNat
<1>4. /\ [n \in 1 .. Len(s) |-> s[n].feeds] \in [1 .. Len(s) -> Nat]
      /\ [n \in 1 .. Len(s) |-> s[n].wraps] \in [1 .. Len(s) -> Nat]
  BY <1>1, <1>2
<1>. QED  BY <1>1, <1>2, <1>3, <1>4 DEF Runs, FeedsOf, WrapsOf

(* Keys change both lines in the same way.                                 *)
LEMMA LinesAre ==
    ASSUME TtyAssumption, NEW s \in Seq(Key), Len(s) <= MaxLength
    PROVE  /\ \A k \in Key : Typed(s, k) \in Seq(Key) /\ Len(Typed(s, k)) <= MaxLength
           /\ Erased(s) \in Seq(Key) /\ Len(Erased(s)) <= MaxLength
           /\ <<>> \in Seq(Key) /\ Len(<<>>) <= MaxLength
<1>1. Len(s) \in Nat /\ MaxLength \in Nat  BY DEF TtyAssumption, LengthAssumption
<1>2. ASSUME NEW k \in Key  PROVE Typed(s, k) \in Seq(Key) /\ Len(Typed(s, k)) <= MaxLength
  <2>1. CASE Room(s)
    <3>1. Append(s, k) \in Seq(Key) /\ Len(Append(s, k)) = Len(s) + 1  OBVIOUS
    <3>. QED  BY <1>1, <2>1, <3>1 DEF Typed, Room
  <2>2. CASE ~Room(s)  BY <2>2 DEF Typed
  <2>. QED  BY <2>1, <2>2
<1>3. Erased(s) \in Seq(Key) /\ Len(Erased(s)) <= MaxLength
  <2>1. CASE s = <<>>  BY <2>1 DEF Erased
  <2>2. CASE s # <<>>
    <3>1. Len(s) - 1 \in Nat /\ Len(s) - 1 <= Len(s)  BY <1>1, <2>2
    <3>2. Front(s) = SubSeq(s, 1, Len(s) - 1)  BY DEF Front
    <3>3. SubSeq(s, 1, Len(s) - 1) \in Seq(Key) /\ Len(SubSeq(s, 1, Len(s) - 1)) = Len(s) - 1
      <4>. DEFINE m == Len(s) - 1
      <4>1. m \in Nat /\ \A n \in 1 .. m : s[n] \in Key  BY <3>1
      <4>. HIDE DEF m
      <4>2. SubSeq(s, 1, m) \in Seq(Key) /\ Len(SubSeq(s, 1, m)) = IF 1 <= m THEN m - 1 + 1 ELSE 0
        BY <4>1, SubSeqProperties
      <4>3. Len(SubSeq(s, 1, m)) = m  BY <4>1, <4>2
      <4>. QED  BY <4>2, <4>3 DEF m
    <3>. QED  BY <1>1, <2>2, <3>1, <3>2, <3>3 DEF Erased
  <2>. QED  BY <2>1, <2>2
<1>. QED  BY <1>1, <1>2, <1>3

(* The numbers of a state, in pixels.                                      *)
LEMMA PixelsAre ==
    ASSUME TtyAssumption, TtyInv
    PROVE  /\ Y \in Nat /\ Line \in Nat /\ Line > 0 /\ FrameHeight \in Nat /\ amount \in Int
           /\ wrapped \in Nat /\ wrapped * Line \in Nat /\ (wrapped <= 1 => wrapped * Line <= Line)
           /\ FeedsOf(Text) \in Nat /\ WrapsOf(Text) \in Nat /\ LineAmount \in Nat
           /\ LineAmount * Line \in Nat /\ WrapsOf(Text) * Line \in Nat
           /\ (FeedsOf(Text) + WrapsOf(Text)) * Line \in Nat
           /\ (FeedsOf(Text) + WrapsOf(Text)) * Line + Line = LineAmount * Line + WrapsOf(Text) * Line
           /\ Line <= LineAmount * Line /\ 0 * Line = 0
<1>1. /\ Y \in Nat /\ Line \in Nat /\ Line > 0 /\ FrameHeight \in Nat /\ amount \in Int /\ wrapped \in Nat
      /\ Text \in Seq([run : 0 .. ran, feeds : Nat, wraps : Nat])
  BY DEF TtyAssumption, HeightAssumption, TtyInv, TtyTypeOK, LineTypes, Outputs
<1>2. /\ \A m, n, k \in Nat : /\ m * n \in Nat /\ (m + 1) * n = m * n + n
                             /\ (m + k) * n = m * n + k * n /\ (m + k) * n \in Nat
      /\ \A n \in Nat : 0 * n = 0 /\ 1 * n = n
  OBVIOUS
<1>3. FeedsOf(Text) \in Nat /\ WrapsOf(Text) \in Nat  BY <1>1, RunsIn
<1>4. wrapped <= 1 => wrapped = 0 \/ wrapped = 1  BY <1>1
<1>5. wrapped <= 1 => wrapped * Line <= Line  BY <1>1, <1>2, <1>4
<1>. DEFINE feeds == FeedsOf(Text)  wraps == WrapsOf(Text)
<1>. HIDE DEF feeds, wraps
<1>6. feeds \in Nat /\ wraps \in Nat  BY <1>3 DEF feeds, wraps
<1>7. /\ feeds * Line \in Nat /\ wraps * Line \in Nat /\ (feeds + wraps) * Line \in Nat
      /\ (feeds + wraps) * Line = feeds * Line + wraps * Line
      /\ (feeds + 1) * Line = feeds * Line + Line /\ wrapped * Line \in Nat
  BY <1>1, <1>2, <1>6
<1>8. LineAmount = feeds + 1  BY DEF LineAmount, feeds
<1>9. LineAmount \in Nat /\ LineAmount * Line = feeds * Line + Line  BY <1>6, <1>7, <1>8
<1>10. (feeds + wraps) * Line + Line = LineAmount * Line + wraps * Line
       /\ LineAmount * Line \in Nat /\ Line <= LineAmount * Line
  BY <1>1, <1>7, <1>9
<1>11. 0 * Line = 0  BY <1>1
<1>. QED  BY <1>1, <1>5, <1>6, <1>7, <1>9, <1>10, <1>11 DEF feeds, wraps

LEMMA TtyInitKeeps == TtyAssumption /\ TtyInit => TtyInv
<1>. SUFFICES ASSUME TtyAssumption, TtyInit  PROVE TtyInv
  OBVIOUS
<1>1. PICK n \in Lines, w \in Wraps : Text = <<Output(0, n, w)>>  BY DEF TtyInit
<1>2. n \in Nat /\ w \in Nat /\ ran = 0 /\ MaxRuns \in Nat /\ MaxLength \in Nat /\ FrameHeight \in Nat
  BY DEF TtyAssumption, HeightAssumption, RunsAssumption, LengthAssumption, TtyInit
<1>3. Output(0, n, w) \in Outputs /\ Output(0, n, w).run = 0  BY <1>2 DEF Output, Outputs
<1>4. Text \in Seq(Outputs) /\ Runs(Text) = {0}
  <2>1. Runs(<<Output(0, n, w)>>) = {Output(0, n, w).run}  BY RunsOfOne
  <2>. QED  BY <1>1, <1>3, <2>1
<1>5. <<>> \in Seq(Key) /\ Len(<<>>) = 0  OBVIOUS
<1>6. TtyTypeOK /\ LineTypes
  <2>1. 0 \in 0 .. ran /\ ran \in 0 .. MaxRuns  BY <1>2
  <2>2. TtyTypeOK  BY <1>2, <1>4, <1>5, <2>1 DEF TtyInit, TtyTypeOK
  <2>3. LineTypes  BY <1>4, <1>5 DEF TtyInit, LineTypes
  <2>. QED  BY <2>2, <2>3
<1>. QED
  BY <1>2, <1>4, <1>6
  DEF TtyInit, TtyInv, LineKept, LineAsTyped, OutputKept, PrintedOnce, TextPrinted, AfterPrompt,
      BeforePrint, LineInside, ScrollInside

(* Where nothing of the screen and Text changes, it is as it was.           *)
LEMMA SameInside ==
    ASSUME UNCHANGED <<LineAmount, Y, amount, wrapped, upset, astray, drawing, RedrawText>>,
           LineInside, ScrollInside
    PROVE  LineInside' /\ ScrollInside'
BY DEF LineInside, ScrollInside, Near, Fitting, FitsBelow, Overflow

(* A key in the line changes nothing else.                                 *)
LEMMA EditKeeps ==
    ASSUME TtyAssumption, TtyInv, NEW edit, edit \in Seq(Key), Len(edit) <= MaxLength,
           NEW line, line \in Seq(Key), Len(line) <= MaxLength, Command = typed => edit = line,
           Command' = edit, typed' = line, eaten' = (eaten \/ AfterPrompt),
           UNCHANGED <<windowed, Text, RedrawText, drawing, screen, outputs>>
    PROVE  TtyInv'
<1>1. TtyTypeOK' /\ LineTypes'
  BY DEF TtyInv, TtyTypeOK, LineTypes, Outputs, AfterPrompt, screen, outputs
<1>2. LineKept'
  BY DEF TtyInv, LineKept, LineAsTyped, AfterPrompt, BeforePrint
<1>3. OutputKept' /\ PrintedOnce' /\ TextPrinted'
  BY DEF TtyInv, OutputKept, PrintedOnce, BeforePrint, TextPrinted, Runs, outputs
<1>4. LineInside' /\ ScrollInside'
  <2>1. UNCHANGED <<LineAmount, Y, amount, wrapped, upset, astray, drawing, RedrawText>>
    BY DEF LineAmount, FeedsOf, screen
  <2>2. LineInside /\ ScrollInside  BY DEF TtyInv
  <2>. QED  BY <2>1, <2>2, SameInside
<1>. QED  BY <1>1, <1>2, <1>3, <1>4 DEF TtyInv

LEMMA EnterKeeps ==
    ASSUME TtyAssumption, TtyInv, NEW n \in Lines, NEW w \in Wraps, Enter(n, w)
    PROVE  TtyInv'
<1>. DEFINE o == Output(ran + 1, n + 2, w)
<1>0. ran \in Nat /\ ran' = ran + 1 /\ ran' \in 0 .. MaxRuns /\ n + 2 \in Nat /\ w \in Nat
  BY DEF Enter, TtyInv, TtyTypeOK, TtyAssumption, HeightAssumption, RunsAssumption
<1>1. /\ o \in Outputs' /\ o.run = ran + 1 /\ Text \in Seq(Outputs')
      /\ Runs(Text) \subseteq 0 .. ran /\ 0 .. ran \subseteq 0 .. ran'
  <2>1. Text \in Seq(Outputs) /\ Runs(Text) \subseteq 0 .. ran  BY DEF TtyInv, TtyTypeOK, LineTypes
  <2>2. 0 .. ran \subseteq 0 .. ran' /\ ran + 1 \in 0 .. ran'  BY <1>0
  <2>3. Outputs \subseteq Outputs'  BY <2>2 DEF Outputs
  <2>4. Text \in Seq(Outputs')  BY <2>1, <2>3
  <2>. QED  BY <1>0, <2>1, <2>2, <2>4 DEF Output, Outputs
<1>. HIDE DEF o
<1>2. Text' \in Seq(Outputs') /\ Runs(Text') = Runs(Text) \cup {ran + 1}
  <2>1. Text' = Append(Text, o)  BY DEF Enter, Written, o
  <2>2. Append(Text, o) \in Seq(Outputs') /\ Runs(Append(Text, o)) = Runs(Text) \cup {o.run}
    BY <1>1, RunsOf
  <2>. QED  BY <1>1, <2>1, <2>2
<1>3. /\ RedrawText' = TRUE
      /\ racing' = (IF Racing THEN racing \cup {ran + 1} ELSE racing)
      /\ upset' = (upset \/ BeforePrint)
      /\ UNCHANGED <<windowed, Command, Y, drawing, amount, typed, shown, cleared, eaten, wrapped, astray>>
  BY DEF Enter
<1>4. ran + 1 \notin 0 .. ran /\ 0 .. ran + 1 = 0 .. ran \cup {ran + 1}  BY <1>0
<1>5. TtyTypeOK'
  BY <1>0, <1>1, <1>2, <1>3, <1>4 DEF TtyInv, TtyTypeOK
<1>6. LineTypes'
  BY <1>0, <1>1, <1>2, <1>3, <1>4 DEF TtyInv, LineTypes, BeforePrint
<1>7. LineKept'
  BY <1>3 DEF TtyInv, LineKept, LineAsTyped, AfterPrompt
<1>8. OutputKept'
  BY <1>0, <1>2, <1>3, <1>4 DEF TtyInv, OutputKept
<1>9. PrintedOnce' /\ TextPrinted'
  BY <1>2, <1>3, <1>4 DEF TtyInv, LineTypes, TtyTypeOK, PrintedOnce, BeforePrint, Racing, TextPrinted
<1>10. LineInside' /\ ScrollInside'
  <2>1. /\ BeforePrint => upset'
        /\ ~upset' => ~upset
        /\ astray' = astray /\ drawing' = drawing /\ Near' = Near /\ Y' = Y /\ RedrawText'
    BY <1>3 DEF Near, TtyInv, LineTypes
  <2>2. LineInside'
    BY <2>1 DEF TtyInv, LineInside, BeforePrint
  <2>3. ScrollInside'
    BY <2>1 DEF ScrollInside, BeforePrint
  <2>. QED  BY <2>2, <2>3
<1>. QED  BY <1>5, <1>6, <1>7, <1>8, <1>9, <1>10 DEF TtyInv

LEMMA ClearKeeps ==
    ASSUME TtyAssumption, TtyInv, EnterClear
    PROVE  TtyInv'
<1>. DEFINE o == Output(ran + 1, 1, 0)
<1>0. ran \in Nat /\ ran' = ran + 1 /\ ran' \in 0 .. MaxRuns
  BY DEF EnterClear, TtyInv, TtyTypeOK, TtyAssumption, RunsAssumption
<1>1. o \in Outputs' /\ o.run = ran + 1
  <2>1. ran + 1 \in 0 .. ran'  BY <1>0
  <2>. QED  BY <2>1 DEF Output, Outputs
<1>. HIDE DEF o
<1>2. Text' \in Seq(Outputs') /\ Runs(Text') = {ran + 1}
  <2>1. Text' = <<o>>  BY DEF EnterClear, o
  <2>2. Runs(<<o>>) = {o.run}  BY RunsOfOne
  <2>. QED  BY <1>1, <2>1, <2>2
<1>3. /\ RedrawText' = TRUE /\ Command' = <<>> /\ typed' = <<>> /\ Y' = 0
      /\ cleared' = cleared \cup Runs(Text)
      /\ racing' = (IF Racing THEN racing \cup {ran + 1} \cup Runs(Text) ELSE racing)
      /\ upset' = (upset \/ BeforePrint)
      /\ UNCHANGED <<windowed, drawing, amount, shown, eaten, wrapped, astray>>
  BY DEF EnterClear
<1>4. /\ ran + 1 \notin 0 .. ran /\ 0 .. ran + 1 = 0 .. ran \cup {ran + 1}
      /\ <<>> \in Seq(Key) /\ Len(<<>>) = 0 /\ MaxLength \in Nat /\ Runs(Text) \subseteq 0 .. ran
  BY <1>0 DEF TtyAssumption, LengthAssumption, TtyInv, TtyTypeOK
<1>5. TtyTypeOK'
  BY <1>0, <1>2, <1>3, <1>4 DEF TtyInv, TtyTypeOK
<1>6. LineTypes'
  BY <1>0, <1>2, <1>3, <1>4 DEF TtyInv, LineTypes, BeforePrint
<1>7. LineKept'
  BY <1>3 DEF TtyInv, LineKept, LineAsTyped, AfterPrompt
<1>8. OutputKept'
  BY <1>0, <1>2, <1>3, <1>4 DEF TtyInv, OutputKept
<1>9. PrintedOnce' /\ TextPrinted'
  BY <1>2, <1>3, <1>4 DEF TtyInv, LineTypes, TtyTypeOK, PrintedOnce, BeforePrint, Racing, TextPrinted
<1>10. LineInside' /\ ScrollInside'
  <2>1. /\ BeforePrint => upset'
        /\ ~upset' => ~upset
        /\ astray' = astray /\ drawing' = drawing /\ Y' = 0 /\ RedrawText'
    BY <1>3 DEF TtyInv, LineTypes
  <2>2. Line <= FrameHeight => Near'
    <3>1. wrapped' = wrapped /\ Y' = 0  BY <1>3
    <3>2. wrapped' * Line = wrapped * Line  BY <3>1
    <3>3. wrapped * Line \in Nat /\ Line \in Nat /\ FrameHeight \in Nat  BY PixelsAre
    <3>. DEFINE over == wrapped * Line
    <3>. HIDE DEF over
    <3>4. Near' <=> 0 + Line <= FrameHeight + over  BY <3>1, <3>2 DEF Near, over
    <3>. QED  BY <3>3, <3>4 DEF over
  <2>3. LineInside'
    BY <2>1, <2>2 DEF TtyInv, LineInside, BeforePrint
  <2>4. ScrollInside'
    BY <2>1 DEF ScrollInside, BeforePrint
  <2>. QED  BY <2>3, <2>4
<1>. QED  BY <1>5, <1>6, <1>7, <1>8, <1>9, <1>10 DEF TtyInv

(* The scrolling changes nothing of the line and of what is printed.        *)
LEMMA LineStays ==
    ASSUME TtyInv, BeforePrint, BeforePrint' \/ (drawing' = "idle" /\ ~RedrawText),
           UNCHANGED <<windowed, Command, Text, RedrawText, typed, eaten, outputs>>,
           Y' \in Nat, amount' \in Int, wrapped' \in Nat, upset' \in BOOLEAN, astray' \in BOOLEAN
    PROVE  TtyTypeOK' /\ LineTypes' /\ LineKept' /\ OutputKept' /\ PrintedOnce' /\ TextPrinted'
<1>1. Runs(Text') = Runs(Text) /\ Outputs' = Outputs  BY DEF Runs, Outputs, outputs
<1>2. TtyTypeOK' /\ LineTypes'
  BY <1>1 DEF TtyInv, TtyTypeOK, LineTypes, BeforePrint, outputs
<1>3. LineKept'
  BY DEF TtyInv, LineKept, LineAsTyped, AfterPrompt, BeforePrint
<1>4. OutputKept' /\ PrintedOnce' /\ TextPrinted'
  BY <1>1 DEF TtyInv, OutputKept, PrintedOnce, TextPrinted, BeforePrint, outputs
<1>. QED  BY <1>2, <1>3, <1>4

LEMMA MeasureKeeps ==
    ASSUME TtyAssumption, TtyInv, Measure
    PROVE  TtyInv'
<1>1. /\ drawing = "measure" /\ upset' = (upset \/ LineAmount * Line > FrameHeight)
      /\ drawing' = (IF Overflow > 0 THEN "amount" ELSE AfterScroll)
      /\ AfterScroll \in {"text", "print"}
      /\ UNCHANGED <<windowed, Command, Text, RedrawText, Y, amount, typed, eaten, wrapped, astray, outputs>>
  BY DEF Measure, AfterScroll
<1>2. Y' \in Nat /\ amount' \in Int /\ wrapped' \in Nat /\ upset' \in BOOLEAN /\ astray' \in BOOLEAN
  BY <1>1 DEF TtyInv, TtyTypeOK, LineTypes
<1>3. TtyTypeOK' /\ LineTypes' /\ LineKept' /\ OutputKept' /\ PrintedOnce' /\ TextPrinted'
  <2>1. BeforePrint /\ BeforePrint'  BY <1>1 DEF BeforePrint
  <2>. QED  BY <1>1, <1>2, <2>1, LineStays
<1>4. LineAmount' = LineAmount /\ Overflow' = Overflow /\ Near' = Near
  BY <1>1 DEF LineAmount, FeedsOf, Overflow, Near
<1>5. LineAmount * Line \in Nat /\ Y \in Nat /\ FrameHeight \in Nat  BY PixelsAre
<1>6. ~upset' => Fitting'
  <2>1. LineAmount' * Line = LineAmount * Line  BY <1>4
  <2>. DEFINE all == LineAmount * Line
  <2>2. Fitting' <=> all <= FrameHeight  BY <2>1 DEF Fitting
  <2>3. upset' = (upset \/ all > FrameHeight)  BY <1>1
  <2>4. all \in Nat  BY <1>5
  <2>5. upset \in BOOLEAN  BY DEF TtyInv, LineTypes
  <2>. HIDE DEF all
  <2>6. all > FrameHeight \/ all <= FrameHeight  BY <1>5, <2>4
  <2>. QED  BY <2>2, <2>3, <2>5, <2>6
<1>7. ~(Overflow > 0) => FitsBelow'  BY <1>1, <1>4, <1>5 DEF Overflow, FitsBelow
<1>8. LineInside'
  BY <1>1, <1>4, <1>6, <1>7 DEF TtyInv, LineInside
<1>9. ScrollInside'  BY <1>1 DEF ScrollInside
<1>. QED  BY <1>3, <1>8, <1>9 DEF TtyInv

LEMMA AmountKeeps ==
    ASSUME TtyAssumption, TtyInv, TakeAmount
    PROVE  TtyInv'
<1>1. /\ drawing = "amount" /\ amount' = Overflow /\ drawing' = "lower"
      /\ UNCHANGED <<windowed, Command, Text, RedrawText, Y, typed, eaten, wrapped, upset, astray, outputs>>
  BY DEF TakeAmount
<1>2. /\ LineAmount * Line \in Nat /\ Y \in Nat /\ FrameHeight \in Nat /\ wrapped \in Nat
      /\ wrapped * Line \in Nat /\ Line \in Nat /\ (wrapped <= 1 => wrapped * Line <= Line)
      /\ Overflow = Y + LineAmount * Line - FrameHeight
  BY PixelsAre DEF Overflow
<1>3. Y' \in Nat /\ amount' \in Int /\ wrapped' \in Nat /\ upset' \in BOOLEAN /\ astray' \in BOOLEAN
  BY <1>1, <1>2 DEF TtyInv, LineTypes
<1>4. TtyTypeOK' /\ LineTypes' /\ LineKept' /\ OutputKept' /\ PrintedOnce' /\ TextPrinted'
  <2>1. BeforePrint /\ BeforePrint'  BY <1>1 DEF BeforePrint
  <2>. QED  BY <1>1, <1>3, <2>1, LineStays
<1>5. LineAmount' = LineAmount /\ Overflow' = Overflow
  BY <1>1 DEF LineAmount, FeedsOf, Overflow
<1>6. ~upset => Fitting /\ Overflow > 0  BY <1>1 DEF TtyInv, LineInside
<1>7. LineInside'
  BY <1>1, <1>5, <1>6 DEF LineInside, Fitting
<1>8. ScrollInside'
  <2>. SUFFICES ASSUME ~upset, ~astray, ~(wrapped > 1)  PROVE amount' \in 0 .. FrameHeight
    BY <1>1 DEF ScrollInside
  <2>1. Y = 0 \/ Y + Line <= FrameHeight + wrapped * Line
    BY <1>1 DEF TtyInv, LineInside, Near
  <2>2. wrapped * Line <= Line  BY <1>2
  <2>3. LineAmount * Line <= FrameHeight /\ Overflow > 0  BY <1>6 DEF Fitting
  <2>. QED  BY <1>1, <1>2, <2>1, <2>2, <2>3
<1>. QED  BY <1>4, <1>7, <1>8 DEF TtyInv

LEMMA ScrollKeeps ==
    ASSUME TtyAssumption, TtyInv, ScrollUp
    PROVE  TtyInv'
<1>1. /\ drawing = "lower" /\ drawing' = AfterScroll /\ amount' = 0
      /\ AfterScroll \in {"text", "print"}
      /\ Y' = (IF Y < amount THEN 0 ELSE Y - amount)
      /\ UNCHANGED <<windowed, Command, Text, RedrawText, typed, eaten, wrapped, upset, astray, outputs>>
  BY DEF ScrollUp, AfterScroll
<1>2. /\ LineAmount * Line \in Nat /\ Y \in Nat /\ FrameHeight \in Nat /\ amount \in Int
      /\ Overflow = Y + LineAmount * Line - FrameHeight
  BY PixelsAre DEF Overflow
<1>3. Y' \in Nat /\ amount' \in Int /\ wrapped' \in Nat /\ upset' \in BOOLEAN /\ astray' \in BOOLEAN
  BY <1>1, <1>2 DEF TtyInv, TtyTypeOK, LineTypes
<1>4. TtyTypeOK' /\ LineTypes' /\ LineKept' /\ OutputKept' /\ PrintedOnce' /\ TextPrinted'
  <2>1. BeforePrint /\ BeforePrint'  BY <1>1 DEF BeforePrint
  <2>. QED  BY <1>1, <1>3, <2>1, LineStays
<1>5. LineAmount' = LineAmount  BY <1>1 DEF LineAmount, FeedsOf
<1>6. ~upset => LineAmount * Line <= FrameHeight /\ amount = Overflow
  BY <1>1 DEF TtyInv, LineInside, Fitting
<1>7. ~upset' => Y' + LineAmount * Line <= FrameHeight
  BY <1>1, <1>2, <1>6
<1>8. ~upset' => FitsBelow'  BY <1>5, <1>7 DEF FitsBelow
<1>9. LineInside'  BY <1>1, <1>8 DEF LineInside
<1>10. ScrollInside'  BY <1>1 DEF ScrollInside
<1>. QED  BY <1>4, <1>9, <1>10 DEF TtyInv

LEMMA TestKeeps ==
    ASSUME TtyAssumption, TtyInv, TestText
    PROVE  TtyInv'
<1>1. /\ drawing = "text" /\ drawing' \in {"print", "idle"}
      /\ drawing' = "print" => RedrawText /\ UNCHANGED <<wrapped, astray>>
      /\ drawing' = "idle" => ~RedrawText /\ wrapped' = 0 /\ astray' = upset
      /\ UNCHANGED <<windowed, Command, Text, RedrawText, Y, amount, typed, eaten, upset, outputs>>
  BY DEF TestText
<1>2. /\ LineAmount * Line \in Nat /\ Y \in Nat /\ FrameHeight \in Nat /\ Line \in Nat
      /\ Line <= LineAmount * Line /\ 0 * Line = 0
  BY PixelsAre
<1>3. Y' \in Nat /\ amount' \in Int /\ wrapped' \in Nat /\ upset' \in BOOLEAN /\ astray' \in BOOLEAN
  BY <1>1 DEF TtyInv, TtyTypeOK, LineTypes
<1>5. TtyTypeOK' /\ LineTypes' /\ LineKept' /\ OutputKept' /\ PrintedOnce' /\ TextPrinted'
  <2>1. BeforePrint /\ (BeforePrint' \/ (drawing' = "idle" /\ ~RedrawText))
    BY <1>1 DEF BeforePrint
  <2>. QED  BY <1>1, <1>3, <2>1, LineStays
<1>6. ~upset => Y + LineAmount * Line <= FrameHeight
  BY <1>1 DEF TtyInv, LineInside, FitsBelow
<1>7. LineAmount' = LineAmount  BY <1>1 DEF LineAmount, FeedsOf
<1>8. drawing' = "print" /\ ~upset' => FitsBelow'
  BY <1>1, <1>6, <1>7 DEF FitsBelow
<1>9. drawing' = "idle" /\ ~astray' => Near'
  BY <1>1, <1>2, <1>6 DEF Near
<1>10. LineInside'  BY <1>1, <1>8, <1>9 DEF LineInside
<1>11. ScrollInside'  BY <1>1 DEF ScrollInside
<1>. QED  BY <1>5, <1>10, <1>11 DEF TtyInv

LEMMA PrintKeeps ==
    ASSUME TtyAssumption, TtyInv, PrintText
    PROVE  TtyInv'
<1>. DEFINE fed == (FeedsOf(Text) + WrapsOf(Text)) * Line
            all == LineAmount * Line
            over == WrapsOf(Text) * Line
<1>1. /\ drawing = "print" /\ drawing' = "forget" /\ Y' = Y + fed
      /\ shown' = shown \cup Runs(Text) /\ typed' = <<>> /\ wrapped' = WrapsOf(Text)
      /\ UNCHANGED <<windowed, Command, Text, RedrawText, amount, ran, cleared, racing, eaten, upset, astray>>
  BY DEF PrintText
<1>2. /\ Y \in Nat /\ FrameHeight \in Nat /\ fed \in Nat /\ Line \in Nat /\ all \in Nat
      /\ over \in Nat /\ fed + Line = all + over /\ Line <= all /\ WrapsOf(Text) \in Nat
  BY PixelsAre
<1>3. ~upset => Y + all <= FrameHeight
  BY <1>1 DEF TtyInv, LineInside, FitsBelow
<1>4. wrapped' * Line = over  BY <1>1
<1>. HIDE DEF fed, all, over
<1>5. Y' \in Nat /\ wrapped' \in Nat  BY <1>1, <1>2
<1>6. ~upset' => Near' /\ Line <= FrameHeight  BY <1>1, <1>2, <1>3, <1>4 DEF Near
<1>7. <<>> \in Seq(Key) /\ Len(<<>>) = 0 /\ MaxLength \in Nat /\ Runs(Text) \subseteq 0 .. ran
  BY DEF TtyAssumption, LengthAssumption, TtyInv, TtyTypeOK
<1>8. TtyTypeOK' /\ LineTypes'
  <2>1. Runs(Text') = Runs(Text) /\ Outputs' = Outputs  BY <1>1 DEF Runs, Outputs
  <2>2. TtyTypeOK'  BY <1>1, <1>5, <1>7, <2>1 DEF TtyInv, TtyTypeOK
  <2>3. LineTypes'  BY <1>1, <1>7, <2>1 DEF TtyInv, LineTypes
  <2>. QED  BY <2>2, <2>3
<1>9. LineKept'
  BY <1>1 DEF TtyInv, LineKept, LineAsTyped, AfterPrompt, BeforePrint
<1>10. OutputKept' /\ PrintedOnce' /\ TextPrinted'
  BY <1>1 DEF TtyInv, OutputKept, PrintedOnce, BeforePrint, TextPrinted, Runs
<1>11. LineInside' /\ ScrollInside'
  BY <1>1, <1>6 DEF LineInside, ScrollInside
<1>. QED  BY <1>8, <1>9, <1>10, <1>11 DEF TtyInv

LEMMA DrawTextKeeps ==
    ASSUME TtyAssumption, TtyInv, DrawText
    PROVE  TtyInv'
<1>1. CASE DrawTextBegin
  <2>1. TtyTypeOK' /\ LineTypes'
    BY <1>1 DEF DrawTextBegin, TtyInv, TtyTypeOK, LineTypes, Outputs, Runs, screen, outputs
  <2>2. LineKept'
    BY <1>1 DEF DrawTextBegin, TtyInv, LineKept, LineAsTyped, AfterPrompt
  <2>3. OutputKept' /\ PrintedOnce' /\ TextPrinted'
    BY <1>1 DEF DrawTextBegin, TtyInv, OutputKept, PrintedOnce, BeforePrint, TextPrinted, outputs, Runs
  <2>4. LineInside' /\ ScrollInside'
    BY <1>1 DEF DrawTextBegin, TtyInv, LineInside, Near, ScrollInside
  <2>. QED  BY <2>1, <2>2, <2>3, <2>4 DEF TtyInv
<1>2. CASE Forget
  <2>1. Text' \in Seq(Outputs') /\ Runs(Text') = {}
    BY <1>2 DEF Forget, Forgotten, Runs
  <2>2. TtyTypeOK' /\ LineTypes'
    BY <1>2, <2>1 DEF Forget, TtyInv, TtyTypeOK, LineTypes, screen, outputs
  <2>3. LineKept'
    BY <1>2 DEF Forget, TtyInv, LineKept, LineAsTyped, AfterPrompt, BeforePrint
  <2>4. OutputKept' /\ PrintedOnce' /\ TextPrinted'
    BY <1>2, <2>1 DEF Forget, TtyInv, OutputKept, PrintedOnce, BeforePrint, TextPrinted, outputs
  <2>5. LineInside' /\ ScrollInside'
    BY <1>2 DEF Forget, TtyInv, LineInside, Near, ScrollInside, screen
  <2>. QED  BY <2>2, <2>3, <2>4, <2>5 DEF TtyInv
<1>3. CASE ResetCommand
  <2>1. <<>> \in Seq(Key) /\ Len(<<>>) = 0 /\ MaxLength \in Nat
    BY DEF TtyAssumption, LengthAssumption
  <2>2. TtyTypeOK' /\ LineTypes'
    BY <1>3, <2>1 DEF ResetCommand, Reset, TtyInv, TtyTypeOK, LineTypes, Outputs, Runs, screen, outputs
  <2>3. LineKept'
    BY <1>3 DEF ResetCommand, Reset, TtyInv, LineKept, LineAsTyped, AfterPrompt
  <2>4. OutputKept' /\ PrintedOnce' /\ TextPrinted'
    BY <1>3 DEF ResetCommand, TtyInv, OutputKept, PrintedOnce, BeforePrint, TextPrinted, outputs, Runs
  <2>5. LineInside' /\ ScrollInside'
    BY <1>3 DEF ResetCommand, TtyInv, LineInside, Near, ScrollInside, screen
  <2>. QED  BY <2>2, <2>3, <2>4, <2>5 DEF TtyInv
<1>4. CASE DrawDone
  <2>1. TtyTypeOK' /\ LineTypes'
    BY <1>4 DEF DrawDone, TtyInv, TtyTypeOK, LineTypes, Outputs, Runs, screen, outputs
  <2>2. LineKept'
    BY <1>4 DEF DrawDone, TtyInv, LineKept, LineAsTyped, AfterPrompt
  <2>3. OutputKept' /\ PrintedOnce' /\ TextPrinted'
    BY <1>4 DEF DrawDone, TtyInv, OutputKept, PrintedOnce, BeforePrint, TextPrinted, outputs, Runs
  <2>4. LineInside' /\ ScrollInside'
    BY <1>4 DEF DrawDone, TtyInv, LineInside, Near, ScrollInside, screen
  <2>. QED  BY <2>1, <2>2, <2>3, <2>4 DEF TtyInv
<1>. QED  BY <1>1, <1>2, <1>3, <1>4, MeasureKeeps, AmountKeeps, ScrollKeeps, TestKeeps,
            PrintKeeps DEF DrawText

LEMMA KeyPressKeeps ==
    ASSUME TtyAssumption, TtyInv, KeyPress
    PROVE  TtyInv'
<1>1. Command \in Seq(Key) /\ Len(Command) <= MaxLength /\ typed \in Seq(Key) /\ Len(typed) <= MaxLength
  BY DEF TtyInv, TtyTypeOK, LineTypes
<1>2. ASSUME NEW k \in Key, Type(k)  PROVE TtyInv'
  <2>1. /\ Typed(Command, k) \in Seq(Key) /\ Len(Typed(Command, k)) <= MaxLength
        /\ Typed(typed, k) \in Seq(Key) /\ Len(Typed(typed, k)) <= MaxLength
        /\ Command = typed => Typed(Command, k) = Typed(typed, k)
    BY <1>1, LinesAre
  <2>. QED  BY <1>2, <2>1, EditKeeps, ZenonT(60) DEF Type
<1>3. ASSUME Backspace  PROVE TtyInv'
  <2>1. /\ Erased(Command) \in Seq(Key) /\ Len(Erased(Command)) <= MaxLength
        /\ Erased(typed) \in Seq(Key) /\ Len(Erased(typed)) <= MaxLength
        /\ Command = typed => Erased(Command) = Erased(typed)
    BY <1>1, LinesAre
  <2>. QED  BY <1>3, <2>1, EditKeeps, ZenonT(60) DEF Backspace
<1>. QED  BY <1>2, <1>3, EnterKeeps, ClearKeeps DEF KeyPress

(* The text and the command line are right between any two steps of a DRAW *)
(* and any keys, for every length of the line and every screen: no output  *)
(* is lost or printed twice and the line is what was typed behind the      *)
(* prompt; the scrolling stays on the screen, and the prompt is visible but *)
(* for the lines the print began at the buffer's width, unless the outputs *)
(* were longer than the screen or an ENTER came between a DRAW's begin and *)
(* its print.                                                              *)
THEOREM OutputIsSafe == TtyAssumption => (TtySpec => []OutputSafe)
<1>. SUFFICES ASSUME TtyAssumption  PROVE TtySpec => []OutputSafe
  OBVIOUS
<1>1. TtyInit => TtyInv  BY TtyInitKeeps
<1>2. TtyInv /\ [TtyNext]_ttyVars => TtyInv'
  <2>. SUFFICES ASSUME TtyInv, [TtyNext]_ttyVars  PROVE TtyInv'
    OBVIOUS
  <2>1. CASE UNCHANGED ttyVars
    <3>1. /\ Runs(Text') = Runs(Text) /\ Outputs' = Outputs /\ LineAmount' = LineAmount
          /\ AfterPrompt' = AfterPrompt /\ BeforePrint' = BeforePrint
          /\ UNCHANGED <<windowed, Command, Text, RedrawText, drawing, typed, eaten>>
          /\ UNCHANGED <<Y, amount, wrapped, upset, astray, ran, shown, cleared, racing>>
      BY <2>1
      DEF ttyVars, screen, outputs, Runs, Outputs, LineAmount, FeedsOf, AfterPrompt, BeforePrint
    <3>2. TtyTypeOK' /\ LineTypes'
      BY <3>1 DEF TtyInv, TtyTypeOK, LineTypes
    <3>3. LineKept' /\ OutputKept' /\ PrintedOnce' /\ TextPrinted'
      BY <3>1 DEF TtyInv, LineKept, LineAsTyped, OutputKept, PrintedOnce, TextPrinted
    <3>4. LineInside' /\ ScrollInside'
      BY <3>1, SameInside DEF TtyInv
    <3>. QED  BY <3>2, <3>3, <3>4 DEF TtyInv
  <2>. QED  BY <2>1, DrawTextKeeps, KeyPressKeeps DEF TtyNext
<1>3. TtyInv => OutputSafe
  <2>. SUFFICES ASSUME TtyInv  PROVE OutputSafe
    OBVIOUS
  <2>1. LineAsTyped  BY DEF TtyInv, LineKept, LineAsTyped
  <2>2. PromptVisible
    BY DEF TtyInv, LineInside, Near, PromptVisible
  <2>. QED  BY <2>1, <2>2 DEF TtyInv, OutputSafe
<1>. QED  BY <1>1, <1>2, <1>3, PTL DEF TtySpec

-----------------------------------------------------------------------------
(* The calculator.  While a number is typed its digits bound it; before the *)
(* first operator PreviousNum is 0, which makes the first + right, and     *)
(* after one it is the expression's value, as long as nothing but + was    *)
(* pressed, or the operator is the first and does not subtract.            *)

CalcInv ==
    /\ ArithmeticRight
    /\ ~ClearLabel => Label < Power[length]
    /\ pending = NoOperator => PreviousNum = 0
    /\ pending # NoOperator => pending \in used
    /\ exact /\ pending = "+" /\ used = {"+"} => PreviousNum = value
    /\ exact /\ pending \in {"*", "/"} /\ ~chained => PreviousNum = value

(* The powers of ten, up to the label's length.                            *)
PowerOf(f, n) == IF n = 0 THEN 1 ELSE 10 * f[n - 1]

LEMMA PowerIs ==
    ASSUME CalcAssumption
    PROVE  /\ Power[0] = 1
           /\ \A n \in 1 .. MaxDigits : Power[n] = 10 * Power[n - 1]
<1>. DEFINE P(k) == \E f : f = [n \in 0 .. k |-> PowerOf(f, n)]
            Bad == {k \in Nat : ~P(k)}
<1>1. ASSUME Bad # {}  PROVE FALSE
  <2>1. PICK m \in Bad : \A k \in Bad : m <= k  BY <1>1, LeastIs
  <2>2. m \in Nat /\ ~P(m)  BY <2>1
  <2>3. CASE m = 0
    <3>. DEFINE f == [n \in 0 .. 0 |-> 1]
    <3>1. f = [n \in 0 .. 0 |-> PowerOf(f, n)]  BY DEF PowerOf
    <3>. QED  BY <2>2, <2>3, <3>1
  <2>4. CASE m # 0
    <3>1. m - 1 \in Nat /\ m - 1 \notin Bad  BY <2>1, <2>2, <2>4
    <3>2. PICK g : g = [n \in 0 .. m - 1 |-> PowerOf(g, n)]  BY <3>1
    <3>. DEFINE f == [n \in 0 .. m |-> IF n = m THEN 10 * g[m - 1] ELSE g[n]]
    <3>3. \A n \in 0 .. m : f[n] = PowerOf(f, n)
      <4>. TAKE n \in 0 .. m
      <4>1. CASE n = m
        <5>1. f[m] = 10 * g[m - 1] /\ f[m - 1] = g[m - 1]  BY <2>2, <2>4
        <5>. HIDE DEF f
        <5>. QED  BY <2>4, <4>1, <5>1 DEF PowerOf
      <4>2. CASE n # m
        <5>1. n \in 0 .. m - 1 /\ f[n] = g[n] /\ (n # 0 => f[n - 1] = g[n - 1])
          BY <2>2, <4>2
        <5>2. g[n] = PowerOf(g, n)  BY <3>2, <5>1
        <5>. HIDE DEF f
        <5>. QED  BY <5>1, <5>2 DEF PowerOf
      <4>. QED  BY <4>1, <4>2
    <3>4. f = [n \in 0 .. m |-> PowerOf(f, n)]
      <4>1. f = [n \in 0 .. m |-> f[n]]  OBVIOUS
      <4>. HIDE DEF f
      <4>. QED  BY <3>3, <4>1
    <3>. QED  BY <2>2, <3>4
  <2>. QED  BY <2>3, <2>4
<1>2. MaxDigits \in Nat  BY DEF CalcAssumption, DigitAssumption
<1>3. P(MaxDigits)  BY <1>1, <1>2
<1>4. Power = [n \in 0 .. MaxDigits |-> PowerOf(Power, n)]  BY <1>3, Zenon DEF Power, PowerOf
<1>5. \A n \in 0 .. MaxDigits : Power[n] = PowerOf(Power, n)  BY <1>4
<1>. QED  BY <1>2, <1>5 DEF PowerOf

(* They are numbers, and none is beyond a uint64_t.                        *)
LEMMA PowerInLong ==
    ASSUME CalcAssumption
    PROVE  \A n \in 0 .. MaxDigits : Power[n] \in Nat /\ Power[n] <= Long
<1>. DEFINE Bad == {n \in Nat : n <= MaxDigits /\ Power[n] \notin Nat}
            Over == {k \in Nat : k <= MaxDigits /\ ~(Power[MaxDigits - k] <= Long)}
<1>1. /\ MaxDigits \in Nat /\ Long \in Nat /\ Power[MaxDigits] <= Long /\ Power[0] = 1
      /\ \A n \in 1 .. MaxDigits : Power[n] = 10 * Power[n - 1]
  BY PowerIs DEF CalcAssumption, DigitAssumption, WordAssumption
<1>2. ASSUME Bad # {}  PROVE FALSE
  <2>1. PICK m \in Bad : \A k \in Bad : m <= k  BY <1>2, LeastIs
  <2>2. m # 0  BY <1>1, <2>1
  <2>3. m - 1 \in Nat /\ m - 1 \notin Bad /\ m \in 1 .. MaxDigits  BY <1>1, <2>1, <2>2
  <2>. QED  BY <1>1, <2>1, <2>3
<1>3. \A n \in 0 .. MaxDigits : Power[n] \in Nat  BY <1>1, <1>2
<1>4. ASSUME Over # {}  PROVE FALSE
  <2>1. PICK m \in Over : \A k \in Over : m <= k  BY <1>4, LeastIs
  <2>2. m # 0  BY <1>1, <2>1
  <2>3. m - 1 \in Nat /\ m - 1 \notin Over /\ m <= MaxDigits  BY <1>1, <2>1, <2>2
  <2>4. /\ MaxDigits - (m - 1) \in 1 .. MaxDigits /\ MaxDigits - m \in 0 .. MaxDigits
        /\ (MaxDigits - (m - 1)) - 1 = MaxDigits - m
    BY <1>1, <2>2, <2>3
  <2>5. Power[MaxDigits - (m - 1)] <= Long  BY <1>1, <2>3
  <2>6. Power[MaxDigits - (m - 1)] = 10 * Power[MaxDigits - m]  BY <1>1, <2>4
  <2>7. Power[MaxDigits - m] \in Nat  BY <1>3, <2>4
  <2>8. ~(Power[MaxDigits - m] <= Long)  BY <2>1
  <2>. QED  BY <1>1, <2>5, <2>6, <2>7, <2>8
<1>5. ASSUME NEW n \in 0 .. MaxDigits  PROVE Power[n] <= Long
  <2>1. MaxDigits - n \in Nat /\ MaxDigits - n <= MaxDigits /\ MaxDigits - (MaxDigits - n) = n
    BY <1>1
  <2>. QED  BY <1>4, <2>1
<1>. QED  BY <1>3, <1>5

(* What division leaves, and that nothing else leaves it.                  *)
LEMMA Divided ==
    ASSUME NEW n \in Int, NEW q \in Nat \ {0}
    PROVE  n = q * (n \div q) + (n % q) /\ n \div q \in Int /\ n % q \in 0 .. q - 1
  OBVIOUS

LEMMA LeftBy ==
    ASSUME NEW n \in Int, NEW q \in Nat \ {0}, NEW k \in Int, NEW r \in 0 .. q - 1, n = q * k + r
    PROVE  n % q = r
<1>1. r \in Int /\ 0 <= r /\ r < q  OBVIOUS
<1>. QED  BY <1>1

(* A number modulo 2^64 shows as it would modulo 2^32.                     *)
LEMMA ShownIsOfWord ==
    ASSUME CalcAssumption, NEW n \in Int
    PROVE  /\ Shown(n % Long) = n % Word /\ n % Word \in 0 .. Word - 1
           /\ n % Long \in 0 .. Long - 1
           /\ n \in 0 .. Word - 1 => n % Word = n
<1>1. Word \in Nat \ {0} /\ Long \in Nat \ {0} /\ Long % Word = 0
  BY DEF CalcAssumption, WordAssumption
<1>. DEFINE k == n \div Long
            j == Long \div Word
            m == n % Long
            z == m \div Word
            r == m % Word
<1>2. n = Long * k + m /\ k \in Int /\ m \in 0 .. Long - 1  BY <1>1, Divided
<1>3. Long = Word * j /\ j \in Int  BY <1>1, Divided
<1>4. m \in Int  BY <1>2
<1>5. m = Word * z + r /\ z \in Int /\ r \in 0 .. Word - 1  BY <1>1, <1>4, Divided
<1>. HIDE DEF k, j, m, z, r
<1>6. n = Word * (j * k + z) + r
  <2>1. Long * k = Word * (j * k)  BY <1>1, <1>2, <1>3
  <2>2. Word * (j * k) + Word * z = Word * (j * k + z)  BY <1>1, <1>2, <1>3, <1>5
  <2>3. Word * (j * k) \in Int /\ Word * z \in Int /\ r \in Int  BY <1>1, <1>2, <1>3, <1>5
  <2>. QED  BY <1>2, <1>5, <2>1, <2>2, <2>3
<1>7. n % Word = r
  <2>1. j * k + z \in Int  BY <1>2, <1>3, <1>5
  <2>. QED  BY <1>1, <1>5, <1>6, <2>1, LeftBy
<1>8. n \in 0 .. Word - 1 => n % Word = n  BY <1>1
<1>. QED  BY <1>2, <1>5, <1>7, <1>8 DEF m, r, Shown

LEMMA WordInLong ==
    ASSUME CalcAssumption
    PROVE  /\ Word \in Nat \ {0} /\ Long \in Nat \ {0} /\ Word <= Long
           /\ Garbage \in 0 .. Long - 1 /\ MaxDigits \in Nat \ {0} /\ MaxPresses \in Nat
           /\ Digit \subseteq 0 .. 9
<1>1. Word \in Nat \ {0} /\ Long \in Nat \ {0} /\ Long % Word = 0
  BY DEF CalcAssumption, WordAssumption
<1>2. Long = Word * (Long \div Word) /\ Long \div Word \in Int  BY <1>1, Divided
<1>3. Word <= Long
  <2>. DEFINE j == Long \div Word
  <2>1. Long = Word * j /\ j \in Int  BY <1>2
  <2>. HIDE DEF j
  <2>2. j >= 1  BY <1>1, <2>1
  <2>. QED  BY <1>1, <2>1, <2>2
<1>. QED  BY <1>1, <1>3 DEF CalcAssumption, DigitAssumption, GarbageAssumption

LEMMA DivSmaller ==
    ASSUME NEW a \in Nat, NEW n \in Nat \ {0}
    PROVE  a \div n \in 0 .. a
<1>. DEFINE k == a \div n
<1>1. a = n * k + (a % n) /\ k \in Int /\ a % n \in 0 .. n - 1  BY Divided
<1>2. PICK r \in 0 .. n - 1 : a = n * k + r  BY <1>1
<1>3. k \in Int  BY <1>1
<1>. HIDE DEF k
<1>4. k >= 0
  <2>. SUFFICES ASSUME k <= -1  PROVE FALSE  BY <1>3
  <2>1. n * k <= n * (-1)  BY <1>3
  <2>. QED  BY <1>2, <1>3, <2>1
<1>5. k <= n * k  BY <1>3, <1>4
<1>6. n * k <= a  BY <1>2, <1>3
<1>7. k <= a  BY <1>3, <1>5, <1>6
<1>. QED  BY <1>3, <1>4, <1>7 DEF k

(* What an expression comes to is a number, and one of a uint32_t if it    *)
(* was calculated.                                                         *)
LEMMA AppliedIsNumber ==
    ASSUME CalcAssumption, NEW op \in Operator \cup {NoOperator},
           NEW a \in 0 .. Long - 1, NEW n \in 0 .. Long - 1
    PROVE  Apply(op, a, n) \in 0 .. Long - 1
<1>1. Word \in Nat \ {0} /\ Long \in Nat \ {0} /\ Word <= Long  BY WordInLong
<1>2. a + n \in Int /\ a - n \in Int /\ a * n \in Int  BY <1>1
<1>3. \A m \in Int : m % Word \in 0 .. Long - 1  BY <1>1
<1>4. n # 0 => a \div n \in 0 .. Long - 1
  <2>. SUFFICES ASSUME n # 0  PROVE a \div n \in 0 .. Long - 1  OBVIOUS
  <2>1. a \in Nat /\ n \in Nat \ {0}  BY <1>1
  <2>2. a \div n \in 0 .. a  BY <2>1, DivSmaller
  <2>. QED  BY <1>1, <2>2
<1>5. 0 \in 0 .. Long - 1  BY <1>1
<1>6. CASE op = NoOperator  BY <1>6 DEF Apply, NoOperator
<1>7. CASE op = "+"  BY <1>2, <1>3, <1>7 DEF Apply, NoOperator
<1>8. CASE op = "-"  BY <1>2, <1>3, <1>8 DEF Apply, NoOperator
<1>9. CASE op = "*"  BY <1>2, <1>3, <1>9 DEF Apply, NoOperator
<1>10. CASE op = "/"  BY <1>4, <1>5, <1>10 DEF Apply, NoOperator
<1>. QED  BY <1>6, <1>7, <1>8, <1>9, <1>10 DEF Operator

LEMMA CalcInvInit ==
    ASSUME CalcAssumption, CalcInit
    PROVE  CalcInv
<1>1. Word \in Nat \ {0} /\ Long \in Nat \ {0} /\ MaxDigits \in Nat \ {0} /\ MaxPresses \in Nat
  BY WordInLong
<1>2. CalcTypeOK
  <2>1. 0 \in 0 .. Long - 1 /\ 1 \in 1 .. MaxDigits /\ 0 \in 0 .. Word - 1 /\ 0 \in 0 .. MaxPresses
    BY <1>1
  <2>2. used \subseteq Operator  BY DEF CalcInit
  <2>. QED  BY <2>1, <2>2, Zenon DEF CalcInit, CalcTypeOK
<1>3. ClearLabel = TRUE /\ PreviousNum = 0 /\ pending = NoOperator /\ done = FALSE  BY DEF CalcInit
<1>4. ~(pending \in {"*", "/"}) /\ pending # "+"  BY <1>3 DEF NoOperator
<1>. QED  BY <1>2, <1>3, <1>4 DEF CalcInv, ArithmeticRight, SumRight, ProductRight

(* A digit keeps the label inside a uint64_t.                              *)
LEMMA DigitsKeep ==
    ASSUME CalcAssumption, CalcInv, NEW d \in Digit, Digits(d),
           Pressed' \in Button \cup {NoButton}
    PROVE  CalcInv'
<1>1. /\ Long \in Nat \ {0} /\ MaxDigits \in Nat \ {0} /\ d \in 0 .. 9
      /\ Label \in 0 .. Long - 1 /\ length \in 1 .. MaxDigits /\ ClearLabel \in BOOLEAN
      /\ ~ClearLabel => Label < Power[length]
  BY WordInLong DEF CalcInv, ArithmeticRight, CalcTypeOK
<1>2. /\ Power[0] = 1 /\ \A n \in 1 .. MaxDigits : Power[n] = 10 * Power[n - 1]
      /\ \A n \in 0 .. MaxDigits : Power[n] \in Nat /\ Power[n] <= Long
  BY PowerIs, PowerInLong
<1>3. length' \in 1 .. MaxDigits /\ Label' \in Nat /\ Label' < Power[length']
  <2>1. CASE ClearLabel
    <3>1. 1 \in 1 .. MaxDigits /\ 1 - 1 = 0  BY <1>1
    <3>2. Power[1] = 10  BY <1>2, <3>1
    <3>3. Label' = d /\ length' = 1  BY <2>1 DEF Digits
    <3>. QED  BY <1>1, <3>1, <3>2, <3>3
  <2>2. CASE ~ClearLabel /\ RoomLeft
    <3>1. Label' = 10 * Label + d /\ length' = length + 1  BY <2>2 DEF Digits
    <3>2. length + 1 \in 1 .. MaxDigits /\ length \in 0 .. MaxDigits /\ (length + 1) - 1 = length
      BY <1>1, <2>2 DEF RoomLeft
    <3>3. Power[length + 1] = 10 * Power[length] /\ Power[length] \in Nat  BY <1>2, <3>2
    <3>4. Label < Power[length]  BY <1>1, <2>2
    <3>. QED  BY <1>1, <3>1, <3>2, <3>3, <3>4
  <2>3. CASE ~ClearLabel /\ ~RoomLeft
    <3>1. Label' = Label /\ length' = length  BY <2>3 DEF Digits
    <3>. QED  BY <1>1, <2>3, <3>1
  <2>. QED  BY <2>1, <2>2, <2>3
<1>4. Label' \in 0 .. Long - 1
  <2>1. Power[length'] \in Nat /\ Power[length'] <= Long  BY <1>1, <1>2, <1>3
  <2>. QED  BY <1>1, <1>3, <2>1
<1>5. /\ ClearLabel' = FALSE /\ entered' = TRUE /\ done' = FALSE
      /\ UNCHANGED <<PreviousNum, PreviousOperator, presses, value, pending, used, chained, exact>>
  BY DEF Digits
<1>6. CalcTypeOK'
  BY <1>3, <1>4, <1>5 DEF CalcInv, ArithmeticRight, CalcTypeOK
<1>. QED  BY <1>3, <1>5, <1>6 DEF CalcInv, ArithmeticRight, SumRight, ProductRight

LEMMA EqualsKeeps ==
    ASSUME CalcAssumption, CalcInv, Equals, presses < MaxPresses,
           Pressed' \in Button \cup {NoButton}
    PROVE  CalcInv'
<1>1. /\ Word \in Nat \ {0} /\ Long \in Nat \ {0} /\ Word <= Long
      /\ Garbage \in 0 .. Long - 1 /\ MaxPresses \in Nat
  BY WordInLong
<1>2. /\ Label \in 0 .. Long - 1 /\ PreviousNum \in 0 .. Word - 1 /\ value \in 0 .. Long - 1
      /\ pending \in Operator \cup {NoOperator} /\ pending = PreviousOperator
      /\ presses \in 0 .. MaxPresses /\ exact \in BOOLEAN /\ entered \in BOOLEAN
  BY DEF CalcInv, ArithmeticRight, CalcTypeOK
<1>3. /\ Label' = Result /\ PreviousNum' = AfterEquals /\ ClearLabel' = TRUE
      /\ PreviousOperator' = NoOperator /\ pending' = NoOperator /\ done' = TRUE
      /\ value' = Apply(pending, value, Label) /\ entered' = FALSE /\ presses' = presses + 1
      /\ exact' = /\ Label < Word
                  /\ pending # NoOperator => exact /\ entered
                  /\ pending = "/" => Label # 0
      /\ UNCHANGED <<length, used, chained>>
  BY DEF Equals, Operand
<1>4. /\ PreviousNum + Label \in Int /\ PreviousNum - Label \in Int /\ PreviousNum * Label \in Int
  BY <1>1, <1>2
<1>5. \A n \in Int : Shown(n % Long) = n % Word /\ n % Word \in 0 .. Long - 1
  <2>. TAKE n \in Int
  <2>1. Shown(n % Long) = n % Word /\ n % Word \in 0 .. Word - 1  BY ShownIsOfWord, Zenon
  <2>. QED  BY <1>1, <2>1
<1>6. Label # 0 => /\ Shown(PreviousNum \div Label) = PreviousNum \div Label
                   /\ PreviousNum \div Label \in 0 .. Long - 1
  <2>. SUFFICES ASSUME Label # 0
                PROVE  /\ Shown(PreviousNum \div Label) = PreviousNum \div Label
                       /\ PreviousNum \div Label \in 0 .. Long - 1
    OBVIOUS
  <2>1. PreviousNum \in Nat /\ Label \in Nat \ {0}  BY <1>1, <1>2
  <2>2. PreviousNum \div Label \in 0 .. PreviousNum  BY <2>1, DivSmaller
  <2>3. PreviousNum \div Label \in 0 .. Word - 1  BY <1>1, <1>2, <2>2
  <2>4. (PreviousNum \div Label) % Word = PreviousNum \div Label  BY <2>3, ShownIsOfWord
  <2>. QED  BY <1>1, <2>3, <2>4 DEF Shown
<1>7. Result \in 0 .. Long - 1
  <2>1. CASE pending = NoOperator  BY <1>2, <2>1 DEF Result, NoOperator
  <2>2. CASE pending = "+"  BY <1>2, <1>4, <1>5, <2>2 DEF Result
  <2>3. CASE pending = "-"  BY <1>2, <1>4, <1>5, <2>3 DEF Result
  <2>4. CASE pending = "*"  BY <1>2, <1>4, <1>5, <2>4 DEF Result
  <2>5. CASE pending = "/"  BY <1>1, <1>2, <1>6, <2>5 DEF Result
  <2>. QED  BY <1>2, <2>1, <2>2, <2>3, <2>4, <2>5 DEF Operator
<1>8. PreviousNum' = 0  BY <1>2, <1>3 DEF AfterEquals, CalcInv
<1>9. CalcTypeOK'
  <2>1. value' \in 0 .. Long - 1  BY <1>2, <1>3, AppliedIsNumber
  <2>2. presses' \in 0 .. MaxPresses  BY <1>1, <1>2, <1>3
  <2>3. PreviousNum' \in 0 .. Word - 1  BY <1>1, <1>8
  <2>. QED  BY <1>3, <1>7, <2>1, <2>2, <2>3 DEF CalcInv, ArithmeticRight, CalcTypeOK
<1>10. ASSUME exact', pending = NoOperator  PROVE Label' = value'
  BY <1>2, <1>3, <1>10 DEF Result, Apply, NoOperator
<1>11. SumRight'
  <2>. SUFFICES ASSUME exact', used = {"+"}, pending # NoOperator  PROVE Label' = value'
    BY <1>3, <1>10 DEF SumRight
  <2>1. pending = "+" /\ exact /\ PreviousNum = value  BY <1>3 DEF CalcInv
  <2>2. Label' = Shown((PreviousNum + Label) % Long)  BY <1>2, <1>3, <2>1 DEF Result
  <2>3. value' = (PreviousNum + Label) % Word  BY <1>3, <2>1 DEF Apply, NoOperator
  <2>. QED  BY <1>4, <1>5, <2>2, <2>3
<1>12. ProductRight'
  <2>. SUFFICES ASSUME exact', used \in {{"*"}, {"/"}}, ~chained, pending # NoOperator
                PROVE  Label' = value'
    BY <1>3, <1>10 DEF ProductRight
  <2>1. pending \in {"*", "/"} /\ exact /\ PreviousNum = value  BY <1>3 DEF CalcInv
  <2>2. CASE pending = "*"
    <3>1. Label' = Shown((PreviousNum * Label) % Long)  BY <1>2, <1>3, <2>2 DEF Result
    <3>2. value' = (PreviousNum * Label) % Word  BY <1>3, <2>1, <2>2 DEF Apply, NoOperator
    <3>. QED  BY <1>4, <1>5, <3>1, <3>2
  <2>3. CASE pending = "/"
    <3>1. Label # 0  BY <1>3, <2>3
    <3>2. Label' = Shown(PreviousNum \div Label)  BY <1>2, <1>3, <2>3, <3>1 DEF Result
    <3>3. value' = PreviousNum \div Label  BY <1>3, <2>1, <2>3, <3>1 DEF Apply, NoOperator
    <3>. QED  BY <1>6, <3>1, <3>2, <3>3
  <2>. QED  BY <2>1, <2>2, <2>3
<1>13. ~(pending' \in {"*", "/"}) /\ pending' # "+"  BY <1>3 DEF NoOperator
<1>. QED  BY <1>3, <1>8, <1>9, <1>11, <1>12, <1>13 DEF CalcInv, ArithmeticRight

LEMMA OperateKeeps ==
    ASSUME CalcAssumption, CalcInv, NEW op \in Operator, Operate(op), presses < MaxPresses,
           Pressed' \in Button \cup {NoButton}
    PROVE  CalcInv'
<1>1. /\ Word \in Nat \ {0} /\ Long \in Nat \ {0} /\ Word <= Long
      /\ Garbage \in 0 .. Long - 1 /\ MaxPresses \in Nat
  BY WordInLong
<1>2. /\ Label \in 0 .. Long - 1 /\ PreviousNum \in 0 .. Word - 1 /\ value \in 0 .. Long - 1
      /\ pending \in Operator \cup {NoOperator} /\ pending = PreviousOperator
      /\ presses \in 0 .. MaxPresses /\ exact \in BOOLEAN /\ entered \in BOOLEAN
      /\ used \subseteq Operator
  BY DEF CalcInv, ArithmeticRight, CalcTypeOK
<1>3. /\ Label' = IF op = "/" /\ Label = 0 THEN Garbage ELSE Shown(Combined(op))
      /\ PreviousNum' = Kept(op) /\ ClearLabel' = TRUE
      /\ PreviousOperator' = op /\ pending' = op /\ done' = FALSE
      /\ value' = Apply(pending, value, Label) /\ entered' = FALSE /\ presses' = presses + 1
      /\ exact' = /\ Label < Word
                  /\ pending # NoOperator => exact /\ entered
                  /\ pending = "/" => Label # 0
      /\ used' = IF pending = NoOperator THEN {op} ELSE used \cup {op}
      /\ chained' = (pending # NoOperator)
      /\ length' = length
  BY DEF Operate, Operand
<1>4. op # NoOperator /\ op \in {"+", "-", "*", "/"}  BY DEF Operator, NoOperator
<1>5. Combined(op) \in Int
  <2>1. /\ (PreviousNum + Label) % Long \in Int /\ (PreviousNum - Label) % Long \in Int
        /\ (PreviousNum * Label) % Long \in Int
    <3>1. PreviousNum + Label \in Int /\ PreviousNum - Label \in Int /\ PreviousNum * Label \in Int
      BY <1>1, <1>2
    <3>. QED  BY <1>1, <3>1
  <2>2. Label # 0 => PreviousNum \div Label \in Int  BY <1>1, <1>2
  <2>3. Garbage \in Int  BY <1>1
  <2>4. CASE op = "+"  BY <2>1, <2>4 DEF Combined
  <2>5. CASE op = "-"  BY <2>1, <2>5 DEF Combined
  <2>6. CASE op = "*"  BY <2>1, <2>6 DEF Combined
  <2>7. CASE op = "/"  BY <2>2, <2>3, <2>7 DEF Combined
  <2>. QED  BY <1>4, <2>4, <2>5, <2>6, <2>7
<1>6. CalcTypeOK'
  <2>1. \A n \in Int : n % Word \in 0 .. Word - 1 /\ n % Word \in 0 .. Long - 1  BY <1>1
  <2>2. Label' \in 0 .. Long - 1  BY <1>1, <1>3, <1>5, <2>1 DEF Shown
  <2>3. PreviousNum' \in 0 .. Word - 1
    <3>1. Label \in Int  BY <1>2
    <3>. QED  BY <1>3, <1>5, <2>1, <3>1 DEF Kept
  <2>4. value' \in 0 .. Long - 1  BY <1>2, <1>3, AppliedIsNumber
  <2>5. presses' \in 0 .. MaxPresses  BY <1>1, <1>2, <1>3
  <2>6. used' \subseteq Operator  BY <1>2, <1>3
  <2>. QED  BY <1>3, <2>2, <2>3, <2>4, <2>5, <2>6 DEF CalcInv, ArithmeticRight, CalcTypeOK
<1>7. Label < Word => Label % Word = Label /\ (0 + Label) % Long = Label  BY <1>1, <1>2
<1>8. ASSUME exact', op = "+", used' = {"+"}  PROVE PreviousNum' = value'
  <2>1. PreviousNum' = ((PreviousNum + Label) % Long) % Word  BY <1>3, <1>8 DEF Kept, Combined
  <2>2. CASE pending = NoOperator
    <3>1. PreviousNum = 0  BY <2>2 DEF CalcInv
    <3>2. value' = Label /\ Label < Word  BY <1>3, <1>8, <2>2 DEF Apply, NoOperator
    <3>. QED  BY <1>7, <2>1, <3>1, <3>2
  <2>3. CASE pending # NoOperator
    <3>1. pending \in used /\ used \subseteq {"+"}  BY <1>3, <1>8, <2>3 DEF CalcInv
    <3>2. pending = "+" /\ used = {"+"} /\ exact  BY <1>3, <1>8, <2>3, <3>1
    <3>3. PreviousNum = value  BY <3>2 DEF CalcInv
    <3>4. value' = (PreviousNum + Label) % Word  BY <1>3, <3>2, <3>3 DEF Apply, NoOperator
    <3>5. PreviousNum + Label \in Int  BY <1>2
    <3>6. Shown((PreviousNum + Label) % Long) = (PreviousNum + Label) % Word  BY <3>5, ShownIsOfWord
    <3>. QED  BY <2>1, <3>4, <3>6 DEF Shown
  <2>. QED  BY <2>2, <2>3
<1>9. ASSUME exact', op \in {"*", "/"}, ~chained'  PROVE PreviousNum' = value'
  <2>1. pending = NoOperator  BY <1>3, <1>9
  <2>2. value' = Label /\ Label < Word  BY <1>3, <1>9, <2>1 DEF Apply, NoOperator
  <2>3. PreviousNum' = Label % Word  BY <1>3, <1>9 DEF Kept
  <2>. QED  BY <1>7, <2>2, <2>3
<1>10. op \in used'  BY <1>3
<1>. QED  BY <1>3, <1>4, <1>6, <1>8, <1>9, <1>10
          DEF CalcInv, ArithmeticRight, SumRight, ProductRight

(* What = shows is right for every width of numbers, set of digits and     *)
(* length of the label: sums of numbers that were typed, and a product or  *)
(* a quotient of two.                                                      *)
THEOREM CalculatorIsRight == CalcAssumption => (CalcSpec => []ArithmeticRight)
<1>. SUFFICES ASSUME CalcAssumption  PROVE CalcSpec => []ArithmeticRight
  OBVIOUS
<1>1. CalcInit => CalcInv  BY CalcInvInit
<1>2. CalcInv /\ [CalcNext]_calcVars => CalcInv'
  <2>. SUFFICES ASSUME CalcInv, [CalcNext]_calcVars  PROVE CalcInv'
    OBVIOUS
  <2>1. ASSUME Pressed' \in Button \cup {NoButton},
               UNCHANGED <<Label, length, ClearLabel, PreviousNum, PreviousOperator, presses,
                           value, pending, used, chained, exact, entered, done>>
        PROVE  CalcInv'
    BY <2>1 DEF CalcInv, ArithmeticRight, CalcTypeOK, SumRight, ProductRight
  <2>2. CASE UNCHANGED calcVars
    BY <2>1, <2>2 DEF calcVars, CalcInv, ArithmeticRight, CalcTypeOK
  <2>3. CASE CalcNext
    <3>1. PICK b \in Button \cup {NoButton} :
            /\ Pressed' = b
            /\ \/ UNCHANGED <<Label, length, ClearLabel, PreviousNum, PreviousOperator, presses,
                              value, pending, used, chained, exact, entered, done>>
               \/ b # NoButton /\ b[1] = "digit" /\ Digits(b[2])
               \/ presses < MaxPresses /\ Equals
               \/ \E op \in Operator : presses < MaxPresses /\ Operate(op)
      BY <2>3, Zenon DEF CalcNext, MOUSE, Acts
    <3>2. b # NoButton /\ b[1] = "digit" => b[2] \in Digit  BY DEF Button
    <3>. QED  BY <2>1, <3>1, <3>2, DigitsKeep, EqualsKeeps, OperateKeeps
  <2>. QED  BY <2>2, <2>3
<1>3. CalcInv => ArithmeticRight  BY DEF CalcInv
<1>. QED  BY <1>1, <1>2, <1>3, PTL DEF CalcSpec

-----------------------------------------------------------------------------
(* The requests of a process: how far each function has got, and which    *)
(* slots hold what was pushed since.                                       *)
Pushing == access \in {"pushLoad", "pushFirst", "pushSlot", "pushAmount"}

(* Requests come from a counter, and no slot in use holds one twice.       *)
Numbered == /\ hand <= sent
            /\ \A k \in Filled : slots[k] <= sent /\ slots[k] \notin refused
            /\ \A id \in Id : id > sent => served[id] = 0 /\ id \notin refused /\ id \notin risky
            /\ \A k, l \in Filled : slots[k] = slots[l] => k = l

(* Between its accesses main code sees the amount it loaded, or everything *)
(* from there on was pushed by an interrupt and is a party of the race.    *)
PopAhead ==
    /\ access \in {"popFirst", "popAmount"} =>
          /\ RequestAmount >= loaded
          /\ \A k \in loaded .. RequestAmount - 1 : slots[k] \in risky
          /\ RequestAmount > loaded => slots[loaded - 1] \in risky
    /\ access = "popAmount" => hand = slots[loaded - 1]
    /\ access = "popSlot" =>
          /\ RequestAmount >= loaded - 1
          /\ \A k \in loaded - 1 .. RequestAmount - 1 : slots[k] \in risky
          /\ slots[loaded - 1] <= sent
          /\ slots[loaded - 1] \notin refused
          /\ slots[loaded - 1] \in risky \/ ~OnStack(slots[loaded - 1])

PushAhead ==
    /\ access \in {"pushFirst", "pushAmount"} =>
          /\ RequestAmount >= loaded
          /\ \A k \in loaded .. RequestAmount - 1 : slots[k] \in risky
          /\ RequestAmount > loaded => hand \in risky
    /\ access = "pushAmount" /\ RequestAmount = loaded => slots[loaded] = hand
    /\ access = "pushSlot" => RequestAmount > loaded
    /\ Pushing => /\ hand # None
                  /\ hand \notin refused
                  /\ \A k \in Filled : slots[k] = hand => access = "pushAmount" /\ k = loaded

IInv == TypeOK /\ InBounds /\ Numbered /\ PopAhead /\ PushAhead /\ ExactlyOnce

-----------------------------------------------------------------------------
LEMMA InvInit == Init => IInv
<1>. SUFFICES ASSUME Init PROVE IInv
  OBVIOUS
<1>. USE CapacityAssumption, SentAssumption DEF Init, Id, Slot, None
<1>1. TypeOK
  <2>1. slots \in [Slot -> Id \cup {None}] /\ served \in [Id -> Nat]
    OBVIOUS
  <2>2. RequestAmount \in 0 .. Capacity /\ loaded \in 0 .. Capacity /\ sent \in 0 .. MaxSent
    OBVIOUS
  <2>3. access \in Labels
    BY DEF Labels
  <2>. QED  BY <2>1, <2>2, <2>3 DEF TypeOK
<1>2. Filled = {} /\ 1 .. sent = {}
  BY DEF Filled
<1>3. InBounds /\ Numbered
  BY <1>1, <1>2 DEF InBounds, Numbered, TypeOK
<1>4. PopAhead /\ PushAhead
  BY <1>2 DEF PopAhead, PushAhead, Pushing
<1>5. ExactlyOnce
  BY <1>2 DEF ExactlyOnce
<1>. QED  BY <1>1, <1>3, <1>4, <1>5 DEF IInv

LEMMA PopTestStep == IInv /\ PopTest => IInv'
<1>. SUFFICES ASSUME IInv, PopTest PROVE IInv'
  OBVIOUS
<1>. USE CapacityAssumption, SentAssumption
     DEF IInv, PopTest, Poppable, Id, Slot, Labels, None, Filled
<1>1. TypeOK'
  BY DEF TypeOK, InBounds, PopAhead, PushAhead
<1>2. InBounds'
  BY DEF TypeOK, InBounds, PopAhead, PushAhead, Numbered
<1>3. Numbered'
  BY DEF TypeOK, InBounds, Numbered, PopAhead, PushAhead, OnStack, Pushing
<1>4. PopAhead'
  BY DEF TypeOK, InBounds, Numbered, PopAhead, PushAhead, OnStack, Pushing
<1>5. PushAhead'
  BY DEF TypeOK, InBounds, Numbered, PopAhead, PushAhead, OnStack, Pushing
<1>6. ExactlyOnce'
  BY DEF TypeOK, InBounds, Numbered, PopAhead, PushAhead, ExactlyOnce, OnStack, Entering, Leaving, Pushing
<1>. QED  BY <1>1, <1>2, <1>3, <1>4, <1>5, <1>6

LEMMA PopLoadStep == IInv /\ PopLoad => IInv'
<1>. SUFFICES ASSUME IInv, PopLoad PROVE IInv'
  OBVIOUS
<1>. USE CapacityAssumption, SentAssumption
     DEF IInv, PopLoad, Empty, Id, Slot, Labels, None, Filled
<1>1. TypeOK'
  BY DEF TypeOK, InBounds, PopAhead, PushAhead
<1>2. InBounds'
  BY DEF TypeOK, InBounds, PopAhead, PushAhead, Numbered
<1>3. Numbered'
  BY DEF TypeOK, InBounds, Numbered, PopAhead, PushAhead, OnStack, Pushing
<1>4. PopAhead'
  BY DEF TypeOK, InBounds, Numbered, PopAhead, PushAhead, OnStack, Pushing
<1>5. PushAhead'
  BY DEF TypeOK, InBounds, Numbered, PopAhead, PushAhead, OnStack, Pushing
<1>6. ExactlyOnce'
  BY DEF TypeOK, InBounds, Numbered, PopAhead, PushAhead, ExactlyOnce, OnStack, Entering, Leaving, Pushing
<1>. QED  BY <1>1, <1>2, <1>3, <1>4, <1>5, <1>6

LEMMA PopSlotStep == IInv /\ PopSlot => IInv'
<1>. SUFFICES ASSUME IInv, PopSlot PROVE IInv'
  OBVIOUS
<1>. USE CapacityAssumption, SentAssumption
     DEF IInv, PopSlot, Top, Id, Slot, Labels, None, Filled
<1>1. TypeOK'
  BY DEF TypeOK, InBounds, PopAhead, PushAhead
<1>2. InBounds'
  BY DEF TypeOK, InBounds, PopAhead, PushAhead, Numbered
<1>3. Numbered'
  BY SMTT(40) DEF TypeOK, InBounds, Numbered, PopAhead, PushAhead, OnStack, Pushing
<1>4. PopAhead'
  BY DEF TypeOK, InBounds, Numbered, PopAhead, PushAhead, OnStack, Pushing
<1>5. PushAhead'
  BY DEF TypeOK, InBounds, Numbered, PopAhead, PushAhead, OnStack, Pushing
<1>6. ExactlyOnce'
  <2>. DEFINE t == slots[loaded - 1]
  <2>1. t \in Id /\ t <= sent /\ loaded - 1 \in Slot
    BY DEF TypeOK, InBounds, Numbered, PopAhead
  <2>. SUFFICES ASSUME NEW id \in (1 .. sent) \ risky
                PROVE  /\ served'[id] = IF id \in refused \/ Entering(id)'
                                            \/ (OnStack(id)' /\ ~Leaving(id)')
                                            \/ (access' = "popSlot" /\ Leaving(id)')
                                         THEN 0 ELSE 1
                       /\ id \in refused => ~OnStack(id)' /\ ~Entering(id)'
    BY DEF ExactlyOnce
  <2>2. OnStack(id)' <=> OnStack(id)
    BY DEF OnStack
  <2>3. ~Entering(id) /\ ~Entering(id)'
    BY DEF Entering
  <2>4. CASE id # t
    <3>1. served'[id] = served[id] /\ ~Leaving(id) /\ ~Leaving(id)'
      BY <2>1, <2>4 DEF TypeOK, Leaving
    <3>. QED  BY <3>1, <2>2, <2>3 DEF ExactlyOnce
  <2>5. CASE id = t
    <3>1. served'[id] = served[id] + 1
      BY <2>1, <2>5 DEF TypeOK
    <3>2. CASE access = "popFirst"
      <4>1. OnStack(id)
        BY <3>2, <2>1, <2>5 DEF PopAhead, OnStack, TypeOK, InBounds
      <4>2. ~Leaving(id) /\ Leaving(id)'
        BY <3>2, <2>5 DEF Leaving
      <4>. QED  BY <3>1, <3>2, <4>1, <4>2, <2>2, <2>3 DEF ExactlyOnce
    <3>3. CASE access = "popSlot"
      <4>1. Leaving(id) /\ ~Leaving(id)'
        BY <3>3, <2>5 DEF Leaving
      <4>2. ~OnStack(id) /\ id \notin refused
        BY <3>3, <2>5 DEF PopAhead
      <4>. QED  BY <3>1, <3>3, <4>1, <4>2, <2>2, <2>3 DEF ExactlyOnce
    <3>. QED  BY <3>2, <3>3
  <2>. QED  BY <2>4, <2>5
<1>. QED  BY <1>1, <1>2, <1>3, <1>4, <1>5, <1>6

LEMMA PopAmountStep == IInv /\ PopAmount => IInv'
<1>. SUFFICES ASSUME IInv, PopAmount PROVE IInv'
  OBVIOUS
<1>. USE CapacityAssumption, SentAssumption
     DEF IInv, PopAmount, Top, Id, Slot, Labels, None
<1>0. /\ Filled = 0 .. RequestAmount - 1 /\ Filled' = 0 .. loaded - 2
      /\ loaded \in 1 .. Capacity /\ loaded <= RequestAmount /\ Filled' \subseteq Filled
      /\ RequestAmount \in 0 .. Capacity
  <2>1. loaded \in 1 .. Capacity /\ loaded <= RequestAmount /\ RequestAmount \in 0 .. Capacity
    BY DEF TypeOK, InBounds, PopAhead
  <2>2. Filled = 0 .. RequestAmount - 1
    BY DEF Filled
  <2>3. Filled' = 0 .. loaded - 2
    BY <2>1 DEF Filled
  <2>. QED  BY <2>1, <2>2, <2>3
<1>1. TypeOK'
  BY <1>0 DEF TypeOK
<1>2. InBounds'
  BY <1>0 DEF TypeOK, InBounds
<1>3. Numbered'
  BY <1>0 DEF Numbered
<1>4. PopAhead'
  <2>1. CASE access = "popFirst"
    <3>. DEFINE t == slots[loaded - 1]
    <3>1. loaded - 1 \in Filled /\ loaded - 1 \notin Filled'
      BY <1>0
    <3>2. t <= sent
      BY <3>1 DEF Numbered
    <3>3. ~OnStack(t)'
      BY <1>0, <3>1 DEF OnStack, Numbered
    <3>4. t \notin refused
      BY <3>1 DEF Numbered
    <3>. QED  BY <1>0, <2>1, <3>2, <3>3, <3>4 DEF PopAhead
  <2>. QED  BY <1>0, <2>1 DEF PopAhead
<1>5. PushAhead'
  BY <1>0 DEF PushAhead, Pushing
<1>6. ExactlyOnce'
  <2>. SUFFICES ASSUME NEW id \in (1 .. sent) \ risky
                PROVE  /\ served[id] = IF id \in refused \/ Entering(id)'
                                            \/ (OnStack(id)' /\ ~Leaving(id)')
                                            \/ (access' = "popSlot" /\ Leaving(id)')
                                         THEN 0 ELSE 1
                       /\ id \in refused => ~OnStack(id)' /\ ~Entering(id)'
    BY DEF ExactlyOnce
  <2>1. ~Entering(id) /\ ~Entering(id)'
    BY DEF Entering
  <2>2. OnStack(id)' => OnStack(id)
    BY <1>0 DEF OnStack
  <2>3. OnStack(id) /\ ~OnStack(id)' => id = slots[loaded - 1]
    BY <1>0 DEF OnStack, PopAhead
  <2>4. id = slots[loaded - 1] => OnStack(id) /\ ~OnStack(id)'
    BY <1>0 DEF OnStack, Numbered
  <2>. QED  BY <2>1, <2>2, <2>3, <2>4 DEF ExactlyOnce, Leaving, PopAhead
<1>. QED  BY <1>1, <1>2, <1>3, <1>4, <1>5, <1>6

LEMMA NoAnswerStep == IInv /\ NoAnswer => IInv'
<1>. SUFFICES ASSUME IInv, NoAnswer PROVE IInv'
  OBVIOUS
<1>. USE CapacityAssumption, SentAssumption
     DEF IInv, NoAnswer, Id, Slot, Labels, None, Filled
<1>1. TypeOK'
  BY DEF TypeOK, InBounds, PopAhead, PushAhead
<1>2. InBounds'
  BY DEF TypeOK, InBounds, PopAhead, PushAhead, Numbered
<1>3. Numbered'
  BY DEF TypeOK, InBounds, Numbered, PopAhead, PushAhead, OnStack, Pushing
<1>4. PopAhead'
  BY DEF TypeOK, InBounds, Numbered, PopAhead, PushAhead, OnStack, Pushing
<1>5. PushAhead'
  BY DEF TypeOK, InBounds, Numbered, PopAhead, PushAhead, OnStack, Pushing
<1>6. ExactlyOnce'
  BY DEF TypeOK, InBounds, Numbered, PopAhead, PushAhead, ExactlyOnce, OnStack, Entering, Leaving, Pushing
<1>. QED  BY <1>1, <1>2, <1>3, <1>4, <1>5, <1>6

LEMMA PushTestStep == IInv /\ PushTest => IInv'
<1>. SUFFICES ASSUME IInv, PushTest PROVE IInv'
  OBVIOUS
<1>. USE CapacityAssumption, SentAssumption
     DEF IInv, PushTest, Id, Slot, Labels, None, Filled
<1>1. TypeOK'
  BY DEF TypeOK, InBounds, PopAhead, PushAhead
<1>2. InBounds'
  BY DEF TypeOK, InBounds, PopAhead, PushAhead, Numbered
<1>3. Numbered'
  BY DEF TypeOK, InBounds, Numbered, PopAhead, PushAhead, OnStack, Pushing
<1>4. PopAhead'
  BY DEF TypeOK, InBounds, Numbered, PopAhead, PushAhead, OnStack, Pushing
<1>5. PushAhead'
  BY DEF TypeOK, InBounds, Numbered, PopAhead, PushAhead, OnStack, Pushing
<1>6. ExactlyOnce'
  BY DEF TypeOK, InBounds, Numbered, PopAhead, PushAhead, ExactlyOnce, OnStack, Entering, Leaving, Pushing
<1>. QED  BY <1>1, <1>2, <1>3, <1>4, <1>5, <1>6

LEMMA PushLoadStep == IInv /\ PushLoad => IInv'
<1>. SUFFICES ASSUME IInv, PushLoad PROVE IInv'
  OBVIOUS
<1>. USE CapacityAssumption, SentAssumption
     DEF IInv, PushLoad, StackFull, Id, Slot, Labels, None, Filled
<1>1. TypeOK'
  BY DEF TypeOK, PushAhead, Pushing
<1>2. InBounds'
  BY DEF TypeOK, InBounds, PopAhead, PushAhead, Numbered
<1>3. Numbered'
  BY DEF TypeOK, InBounds, Numbered, PopAhead, PushAhead, OnStack, Pushing
<1>4. PopAhead'
  BY DEF TypeOK, InBounds, Numbered, PopAhead, PushAhead, OnStack, Pushing
<1>5. PushAhead'
  BY DEF TypeOK, InBounds, Numbered, PopAhead, PushAhead, OnStack, Pushing
<1>6. ExactlyOnce'
  BY DEF TypeOK, InBounds, Numbered, PopAhead, PushAhead, ExactlyOnce, OnStack, Entering, Leaving, Pushing
<1>. QED  BY <1>1, <1>2, <1>3, <1>4, <1>5, <1>6

LEMMA PushSlotStep == IInv /\ PushSlot => IInv'
<1>. SUFFICES ASSUME IInv, PushSlot PROVE IInv'
  OBVIOUS
<1>. USE CapacityAssumption, SentAssumption
     DEF IInv, PushSlot, Id, Slot, Labels, None, Filled
<1>1. TypeOK'
  BY DEF TypeOK, InBounds, PopAhead, PushAhead
<1>2. InBounds'
  BY DEF TypeOK, InBounds, PushAhead, Numbered, Pushing
<1>3. Numbered'
  BY DEF TypeOK, InBounds, Numbered, PopAhead, PushAhead, OnStack, Pushing
<1>4. PopAhead'
  BY DEF TypeOK, InBounds, Numbered, PopAhead, PushAhead, OnStack, Pushing
<1>5. PushAhead'
  BY DEF TypeOK, InBounds, Numbered, PopAhead, PushAhead, OnStack, Pushing
<1>6. ExactlyOnce'
  <2>. SUFFICES ASSUME NEW id \in (1 .. sent) \ risky
                PROVE  /\ served[id] = IF id \in refused \/ Entering(id)'
                                            \/ (OnStack(id)' /\ ~Leaving(id)')
                                            \/ (access' = "popSlot" /\ Leaving(id)')
                                         THEN 0 ELSE 1
                       /\ id \in refused => ~OnStack(id)' /\ ~Entering(id)'
    BY DEF ExactlyOnce
  <2>1. ~Leaving(id) /\ ~Leaving(id)'
    BY DEF Leaving
  <2>2. loaded \in Slot /\ slots'[loaded] = hand /\ \A k \in Slot \ {loaded} : slots'[k] = slots[k]
    BY DEF TypeOK, InBounds
  <2>3. CASE access = "pushFirst"
    <3>1. Entering(id)' <=> Entering(id)
      BY <2>3 DEF Entering
    <3>2. Filled' = Filled /\ (loaded \in Filled => slots[loaded] \in risky /\ hand \in risky)
      BY <2>3, <2>2 DEF PushAhead, TypeOK
    <3>3. OnStack(id)' <=> OnStack(id)
      BY <3>2, <2>2, <2>3 DEF OnStack, TypeOK
    <3>. QED  BY <2>1, <2>3, <3>1, <3>3 DEF ExactlyOnce
  <2>4. CASE access = "pushSlot"
    <3>1. Entering(id) <=> id = hand
      BY <2>4 DEF Entering
    <3>2. ~Entering(id)'
      BY <2>4 DEF Entering
    <3>3. Filled' = Filled \cup {loaded} /\ loaded \notin Filled
      BY <2>4, <2>2 DEF PushAhead, TypeOK
    <3>4. OnStack(id)' <=> OnStack(id) \/ id = hand
      <4>1. Filled \subseteq Slot \ {loaded} /\ loaded \in Filled'
        <5>1. Filled \subseteq Slot
          BY DEF TypeOK
        <5>. HIDE DEF Filled
        <5>. QED  BY <5>1, <3>3
      <4>. HIDE DEF Filled
      <4>. QED  BY <4>1, <3>3, <2>2 DEF OnStack
    <3>. QED  BY <2>1, <2>4, <3>1, <3>2, <3>4 DEF ExactlyOnce, PushAhead, Pushing
  <2>. QED  BY <2>3, <2>4
<1>. QED  BY <1>1, <1>2, <1>3, <1>4, <1>5, <1>6

LEMMA PushAmountStep == IInv /\ PushAmount => IInv'
<1>. SUFFICES ASSUME IInv, PushAmount PROVE IInv'
  OBVIOUS
<1>. USE CapacityAssumption, SentAssumption
     DEF IInv, PushAmount, Id, Slot, Labels, None, Filled
<1>1. TypeOK'
  BY DEF TypeOK, InBounds, PopAhead, PushAhead
<1>2. InBounds'
  BY DEF TypeOK, InBounds, PushAhead, Numbered, Pushing
<1>3. Numbered'
  BY DEF TypeOK, InBounds, Numbered, PopAhead, PushAhead, OnStack, Pushing
<1>4. PopAhead'
  BY DEF TypeOK, InBounds, Numbered, PopAhead, PushAhead, OnStack, Pushing
<1>5. PushAhead'
  BY DEF TypeOK, InBounds, Numbered, PopAhead, PushAhead, OnStack, Pushing
<1>6. ExactlyOnce'
  <2>. SUFFICES ASSUME NEW id \in (1 .. sent) \ risky
                PROVE  /\ served[id] = IF id \in refused \/ Entering(id)'
                                            \/ (OnStack(id)' /\ ~Leaving(id)')
                                            \/ (access' = "popSlot" /\ Leaving(id)')
                                         THEN 0 ELSE 1
                       /\ id \in refused => ~OnStack(id)' /\ ~Entering(id)'
    BY DEF ExactlyOnce
  <2>1. ~Leaving(id) /\ ~Leaving(id)' /\ (Entering(id) <=> id = hand)
    BY DEF Leaving, Entering
  <2>2. loaded \in Slot /\ RequestAmount \in 0 .. Capacity /\ RequestAmount >= loaded
    BY DEF TypeOK, InBounds, PushAhead
  <2>3. Filled = 0 .. RequestAmount - 1
    OBVIOUS
  <2>4. CASE access = "pushFirst"
    <3>1. Filled' = 0 .. loaded - 1
      BY <2>4, <2>2
    <3>2. Entering(id)' <=> id = hand
      BY <2>4 DEF Entering
    <3>. HIDE DEF Filled
    <3>3. OnStack(id)' <=> OnStack(id)
      BY <3>1, <2>2, <2>3, <2>4 DEF OnStack, PushAhead
    <3>. QED  BY <2>1, <2>4, <3>2, <3>3 DEF ExactlyOnce
  <2>5. CASE access = "pushAmount"
    <3>1. Filled' = 0 .. loaded
      BY <2>5, <2>2
    <3>2. ~Entering(id)'
      BY <2>5 DEF Entering
    <3>. HIDE DEF Filled
    <3>3. CASE RequestAmount = loaded
      <4>1. OnStack(id)' <=> OnStack(id) \/ id = hand
        BY <3>1, <3>3, <2>2, <2>3, <2>5 DEF OnStack, PushAhead
      <4>. QED  BY <2>1, <2>5, <3>2, <4>1 DEF ExactlyOnce, PushAhead, Pushing
    <3>4. CASE RequestAmount > loaded
      <4>1. id # hand
        BY <2>5, <3>4 DEF PushAhead
      <4>2. OnStack(id)' <=> OnStack(id)
        BY <3>1, <3>4, <2>2, <2>3, <2>5 DEF OnStack, PushAhead
      <4>. QED  BY <2>1, <2>5, <3>2, <4>1, <4>2 DEF ExactlyOnce
    <3>. QED  BY <3>3, <3>4, <2>2
  <2>. QED  BY <2>4, <2>5
<1>. QED  BY <1>1, <1>2, <1>3, <1>4, <1>5, <1>6

LEMMA InterruptPushStep == IInv /\ InterruptPush => IInv'
<1>. SUFFICES ASSUME IInv, InterruptPush PROVE IInv'
  OBVIOUS
<1>. USE CapacityAssumption, SentAssumption DEF IInv, Id, Slot, None
<1>. DEFINE n == sent + 1
<1>0. /\ n \in Id /\ sent' = n /\ n \notin refused /\ n \notin risky /\ served[n] = 0
      /\ hand < n /\ \A k \in Filled : slots[k] < n
      /\ hand' = hand /\ access' = access /\ loaded' = loaded /\ served' = served
      /\ sent \in Nat
  <2>1. n \in Id /\ sent' = n /\ sent \in Nat /\ n > sent
    BY DEF InterruptPush, TypeOK
  <2>2. n \notin refused /\ n \notin risky /\ served[n] = 0
    BY <2>1 DEF Numbered
  <2>3. hand < n
    BY <2>1 DEF Numbered, TypeOK
  <2>4. \A k \in Filled : slots[k] < n
    BY <2>1 DEF Numbered, TypeOK, Filled
  <2>5. hand' = hand /\ access' = access /\ loaded' = loaded /\ served' = served
    BY DEF InterruptPush
  <2>. QED  BY <2>1, <2>2, <2>3, <2>4, <2>5
<1>1. CASE minimized \/ StackFull
  <2>1. /\ refused' = refused \cup {n} /\ risky' = risky /\ RequestAmount' = RequestAmount
        /\ slots' = slots /\ minimized' = minimized /\ Filled' = Filled
    BY <1>1 DEF InterruptPush, Filled
  <2>2. TypeOK' /\ InBounds'
    BY <1>0, <2>1 DEF TypeOK, InBounds
  <2>3. Numbered'
    BY <1>0, <2>1 DEF TypeOK, Numbered, Filled
  <2>4. PopAhead' /\ PushAhead'
    <3>1. OnStack(slots[loaded - 1])' <=> OnStack(slots[loaded - 1])
      BY <1>0, <2>1 DEF OnStack
    <3>2. PopAhead'
      BY <1>0, <2>1, <3>1 DEF TypeOK, InBounds, PopAhead
    <3>3. PushAhead'
      BY <1>0, <2>1 DEF TypeOK, PushAhead, Pushing
    <3>. QED  BY <3>2, <3>3
  <2>5. ExactlyOnce'
    BY <1>0, <2>1 DEF TypeOK, Numbered, PopAhead, ExactlyOnce, OnStack, Entering, Leaving
  <2>. QED  BY <2>2, <2>3, <2>4, <2>5
<1>2. CASE ~(minimized \/ StackFull)
  <2>1. /\ refused' = refused /\ minimized' = minimized /\ RequestAmount' = RequestAmount + 1
        /\ slots' = [slots EXCEPT ![RequestAmount] = n]
        /\ risky' = IF Between THEN risky \cup {n} \cup Disturbed ELSE risky
        /\ RequestAmount \in Slot
    BY <1>2 DEF InterruptPush, StackFull, Raised, TypeOK
  <2>2. Filled' = Filled \cup {RequestAmount} /\ RequestAmount \notin Filled
    BY <1>0, <2>1 DEF Filled, TypeOK, PushAhead
  <2>3. /\ slots'[RequestAmount] = n /\ \A k \in Slot \ {RequestAmount} : slots'[k] = slots[k]
        /\ Filled \subseteq Slot \ {RequestAmount}
    BY <2>1, <2>2 DEF TypeOK, Filled
  <2>4. Disturbed \subseteq 1 .. sent \/ ~Between
    BY DEF Between, Disturbed, InBounds, Numbered, PopAhead, PushAhead, Pushing, TypeOK, Filled
  <2>5. risky \subseteq risky' /\ risky' \subseteq 1 .. n
    <3>1. risky \subseteq 1 .. sent
      BY DEF Numbered, TypeOK
    <3>2. (1 .. sent) \cup {n} = 1 .. n
      BY <1>0
    <3>. QED  BY <2>1, <2>4, <3>1, <3>2
  <2>6. TypeOK'
    BY <1>0, <2>1, <2>5 DEF TypeOK
  <2>7. InBounds'
    BY <1>0, <2>1, <2>2, <2>3 DEF TypeOK, InBounds
  <2>8. Numbered'
    <3>1. hand' <= sent'
      BY <1>0 DEF TypeOK
    <3>2. \A k \in Filled' : slots'[k] <= sent' /\ slots'[k] \notin refused'
      BY <1>0, <2>1, <2>2, <2>3 DEF TypeOK, Numbered
    <3>3. \A id \in Id : id > sent' => served'[id] = 0 /\ id \notin refused' /\ id \notin risky'
      BY <1>0, <2>1, <2>5 DEF TypeOK, Numbered
    <3>4. \A k, l \in Filled' : slots'[k] = slots'[l] => k = l
      BY <1>0, <2>1, <2>2, <2>3 DEF TypeOK, Numbered
    <3>. QED  BY <3>1, <3>2, <3>3, <3>4 DEF Numbered
  <2>9. PopAhead'
    <3>1. CASE access \in {"popFirst", "popAmount"}
      BY <3>1, <1>0, <2>1, <2>2, <2>3, <2>5, SMTT(40)
         DEF TypeOK, InBounds, PopAhead, Between, Disturbed
    <3>2. CASE access = "popSlot"
      <4>. DEFINE t == slots'[loaded - 1]
      <4>1. slots[loaded - 1] \in risky' /\ n \in risky' /\ loaded - 1 \in Slot /\ RequestAmount >= loaded - 1
        BY <3>2, <2>1 DEF InBounds, TypeOK, Between, Disturbed, PopAhead
      <4>2. t \in {n, slots[loaded - 1]}
        BY <4>1, <2>3
      <4>3. t <= n /\ t \notin refused /\ t \in risky'
        <5>1. slots[loaded - 1] <= sent /\ slots[loaded - 1] \notin refused /\ slots[loaded - 1] \in Nat
          BY <3>2, <4>1 DEF PopAhead, TypeOK
        <5>. QED  BY <5>1, <4>1, <4>2, <1>0
      <4>4. \A k \in loaded - 1 .. RequestAmount : slots'[k] \in risky'
        BY <3>2, <4>1, <2>1, <2>3, <2>5 DEF PopAhead, TypeOK, InBounds
      <4>. QED  BY <3>2, <4>1, <4>3, <4>4, <1>0, <2>1 DEF PopAhead, TypeOK
    <3>. QED  BY <3>1, <3>2, <1>0 DEF PopAhead
  <2>10. PushAhead'
    BY <1>0, <2>1, <2>2, <2>3, <2>5, SMTT(40)
       DEF TypeOK, InBounds, Numbered, PushAhead, Between, Disturbed, Pushing
  <2>11. ExactlyOnce'
    BY <1>0, <2>1, <2>2, <2>3, <2>5, SMTT(40)
       DEF TypeOK, InBounds, Numbered, PopAhead, PushAhead, ExactlyOnce, OnStack,
           Entering, Leaving, Between, Disturbed
  <2>. QED  BY <2>6, <2>7, <2>8, <2>9, <2>10, <2>11
<1>. QED  BY <1>1, <1>2

LEMMA MinimizeStep == IInv /\ Minimize => IInv'
<1>. SUFFICES ASSUME IInv, Minimize PROVE IInv'
  OBVIOUS
<1>. USE CapacityAssumption, SentAssumption
     DEF IInv, Minimize, Id, Slot, Labels, None, Filled
<1>1. TypeOK'
  BY DEF TypeOK, InBounds, PopAhead, PushAhead
<1>2. InBounds'
  BY DEF TypeOK, InBounds, PopAhead, PushAhead, Numbered
<1>3. Numbered'
  BY DEF TypeOK, InBounds, Numbered, PopAhead, PushAhead, OnStack, Pushing
<1>4. PopAhead'
  BY DEF TypeOK, InBounds, Numbered, PopAhead, PushAhead, OnStack, Pushing
<1>5. PushAhead'
  BY DEF TypeOK, InBounds, Numbered, PopAhead, PushAhead, OnStack, Pushing
<1>6. ExactlyOnce'
  BY ZenonT(60) DEF TypeOK, InBounds, Numbered, PopAhead, PushAhead, ExactlyOnce, OnStack, Entering, Leaving, Pushing
<1>. QED  BY <1>1, <1>2, <1>3, <1>4, <1>5, <1>6

LEMMA InvNext == IInv /\ [Next]_vars => IInv'
<1>. SUFFICES ASSUME IInv, [Next]_vars PROVE IInv'
  OBVIOUS
<1>1. CASE UNCHANGED vars
  BY <1>1 DEF vars, IInv, TypeOK, InBounds, Numbered, PopAhead, PushAhead, ExactlyOnce,
              Filled, OnStack, Entering, Leaving, Pushing
<1>2. CASE PopRequest
  BY <1>2, PopTestStep, PopLoadStep, PopSlotStep, PopAmountStep DEF PopRequest
<1>3. CASE PushRequest
  BY <1>3, PushTestStep, PushLoadStep, PushSlotStep, PushAmountStep DEF PushRequest
<1>4. CASE NoAnswer \/ InterruptPush \/ Minimize
  BY <1>4, NoAnswerStep, InterruptPushStep, MinimizeStep
<1>. QED  BY <1>1, <1>2, <1>3, <1>4 DEF Next, Main

LEMMA InvAlways == Spec => []IInv
  BY InvInit, InvNext, PTL DEF Spec

-----------------------------------------------------------------------------
(* RequestAmount stays within the array whatever is pushed between two     *)
(* accesses of PopRequest or PushRequest.                                  *)
THEOREM TypeCorrect == Spec => []TypeOK
  BY InvAlways, PTL DEF IInv

(* Neither function reads or writes a slot outside Requests, nor reads one *)
(* that no push has filled.                                                *)
THEOREM StaysInBounds == Spec => []InBounds
  BY InvAlways, PTL DEF IInv

(* A request that was not party to a race is served exactly once, waits or *)
(* was refused, for every capacity and any number of requests.             *)
THEOREM ServedExactlyOnce == Spec => []ExactlyOnce
  BY InvAlways, PTL DEF IInv

-----------------------------------------------------------------------------
(* The refinement: a step is a push or a pop of the abstract stack where it*)
(* stores RequestAmount, a race, or a stutter.                             *)

LEMMA PromiseInit == Init => Promise!Init
<1>. SUFFICES ASSUME Init PROVE Promise!Init
  OBVIOUS
<1>1. risky = {} /\ RequestAmount = 0
  BY DEF Init
<1>2. Stack = <<>>
  BY <1>1 DEF Stack
<1>. QED  BY <1>1, <1>2 DEF Promise!Init

LEMMA PromiseNext == IInv /\ IInv' /\ [Next]_vars => [Promise!Next]_<<Stack, risky # {}>>
<1>. SUFFICES ASSUME IInv, IInv', [Next]_vars PROVE [Promise!Next]_<<Stack, risky # {}>>
  OBVIOUS
<1>. USE CapacityAssumption, SentAssumption DEF Id, Slot, None
<1>1. risky \subseteq risky'
  BY DEF Next, Main, PopRequest, PushRequest, PopTest, PopLoad, PopSlot, PopAmount, NoAnswer,
         PushTest, PushLoad, PushSlot, PushAmount, InterruptPush, Minimize, vars
<1>2. CASE risky' # {}
  BY <1>2 DEF Promise!Next, Promise!Race
<1>3. CASE risky' = {} /\ RequestAmount' = RequestAmount /\ \A k \in 0 .. RequestAmount - 1 :
              (IF access' = "pushSlot" /\ k = loaded' THEN hand' ELSE slots'[k])
                 = (IF access = "pushSlot" /\ k = loaded THEN hand ELSE slots[k])
  <2>1. risky = {} /\ RequestAmount \in Nat
    BY <1>1, <1>3 DEF IInv, TypeOK
  <2>2. \A k \in 1 .. RequestAmount : k - 1 \in 0 .. RequestAmount - 1
    BY <2>1
  <2>3. Stack' = Stack
    BY <1>3, <2>1, <2>2 DEF Stack
  <2>. QED  BY <1>3, <2>1, <2>3
<1>4. CASE risky' = {} /\ PopAmount
  <2>1. risky = {} /\ loaded = RequestAmount /\ RequestAmount \in 1 .. Capacity /\ RequestAmount' = RequestAmount - 1
    BY <1>1, <1>4 DEF PopAmount, Top, IInv, TypeOK, InBounds, PopAhead
  <2>2. Stack = [k \in 1 .. RequestAmount |-> slots[k - 1]]
    BY <2>1, <1>4 DEF Stack, PopAmount
  <2>3. Stack' = [k \in 1 .. RequestAmount - 1 |-> slots[k - 1]]
    BY <2>1, <1>4 DEF Stack, PopAmount
  <2>4. Stack \in Seq(Id \cup {None}) /\ Len(Stack) = RequestAmount
    BY <2>1, <2>2 DEF IInv, TypeOK
  <2>5. Stack' = SubSeq(Stack, 1, Len(Stack) - 1) /\ Stack # <<>>
    BY <2>1, <2>2, <2>3, <2>4
  <2>. QED  BY <1>4, <2>1, <2>5 DEF Promise!Next, Promise!Pop
<1>5. CASE risky' = {} /\ PushAmount
  <2>1. /\ risky = {} /\ loaded = RequestAmount /\ RequestAmount \in Slot /\ RequestAmount' = RequestAmount + 1
        /\ hand \in Id /\ access # "pushSlot"
    BY <1>1, <1>5 DEF PushAmount, IInv, TypeOK, InBounds, PushAhead, Pushing
  <2>2. Stack = [k \in 1 .. RequestAmount |-> slots[k - 1]]
    BY <2>1 DEF Stack
  <2>3. (IF access' = "pushSlot" /\ RequestAmount = loaded' THEN hand' ELSE slots'[RequestAmount]) = hand
    BY <2>1, <1>5 DEF PushAmount, IInv, PushAhead
  <2>4. Stack' = [k \in 1 .. RequestAmount + 1 |-> IF k = RequestAmount + 1 THEN hand ELSE slots[k - 1]]
    BY <2>1, <2>3, <1>5 DEF Stack, PushAmount
  <2>5. Stack \in Seq(Id \cup {None}) /\ Len(Stack) = RequestAmount
    BY <2>1, <2>2 DEF IInv, TypeOK
  <2>6. Stack' = Append(Stack, hand)
    BY <2>1, <2>2, <2>4, <2>5
  <2>. QED  BY <1>5, <2>1, <2>5, <2>6 DEF Promise!Next, Promise!Push
<1>6. CASE risky' = {} /\ InterruptPush /\ ~(minimized \/ StackFull)
  <2>1. /\ risky = {} /\ RequestAmount \in Slot /\ RequestAmount' = RequestAmount + 1 /\ ~Between
        /\ slots' = [slots EXCEPT ![RequestAmount] = sent + 1] /\ sent + 1 \in Id
        /\ access' = access /\ loaded' = loaded /\ hand' = hand
    BY <1>1, <1>6 DEF InterruptPush, Raised, StackFull, IInv, TypeOK
  <2>2. access = "pushSlot" => loaded \in 0 .. RequestAmount - 1
    BY <2>1 DEF IInv, PushAhead, TypeOK
  <2>3. Stack \in Seq(Id \cup {None}) /\ Len(Stack) = RequestAmount
    BY <2>1 DEF Stack, IInv, TypeOK
  <2>4. Stack' = Append(Stack, sent + 1)
    <3>1. Stack = [k \in 1 .. RequestAmount |-> IF access = "pushSlot" /\ k - 1 = loaded
                                         THEN hand ELSE slots[k - 1]]
      BY <2>1 DEF Stack
    <3>2. Stack' = [k \in 1 .. RequestAmount + 1 |-> IF access = "pushSlot" /\ k - 1 = loaded
                                              THEN hand ELSE slots'[k - 1]]
      BY <2>1, <1>6 DEF Stack
    <3>3. slots'[RequestAmount] = sent + 1 /\ \A k \in 1 .. RequestAmount : slots'[k - 1] = slots[k - 1]
      BY <2>1 DEF IInv, TypeOK
    <3>. QED  BY <3>1, <3>2, <3>3, <2>1, <2>2, <2>3
  <2>. QED  BY <1>6, <2>1, <2>3, <2>4 DEF Promise!Next, Promise!Push
<1>7. CASE risky' = {} /\ ~PopAmount /\ ~PushAmount /\ ~(InterruptPush /\ ~(minimized \/ StackFull))
  <2>1. RequestAmount' = RequestAmount
    BY <1>7 DEF Next, Main, PopRequest, PushRequest, PopTest, PopLoad, PopSlot, NoAnswer,
           PushTest, PushLoad, PushSlot, InterruptPush, Minimize, vars
  <2>2. CASE PushSlot
    <3>1. /\ loaded \in Slot /\ RequestAmount \in 0 .. Capacity /\ hand' = hand /\ loaded' = loaded
          /\ slots' = [slots EXCEPT ![loaded] = hand] /\ access' # "pushSlot"
          /\ risky' = risky /\ slots \in [Slot -> Id \cup {None}]
      BY <2>2 DEF PushSlot, IInv, TypeOK, InBounds
    <3>2. access = "pushFirst" => loaded = RequestAmount
      BY <1>7, <3>1 DEF IInv, TypeOK, PushAhead
    <3>3. \A k \in 0 .. RequestAmount - 1 :
              slots'[k] = IF access = "pushSlot" /\ k = loaded THEN hand ELSE slots[k]
      BY <3>1, <3>2, <2>2 DEF PushSlot
    <3>. QED  BY <1>3, <1>7, <2>1, <3>1, <3>3
  <2>3. CASE ~PushSlot
    <3>1. slots' = slots
      BY <1>7, <2>3 DEF Next, Main, PopRequest, PushRequest, PopTest, PopLoad, PopSlot, NoAnswer,
             PushTest, PushLoad, InterruptPush, Minimize, vars
    <3>2. access' = "pushSlot" <=> access = "pushSlot"
      BY <1>7, <2>3 DEF Next, Main, PopRequest, PushRequest, PopTest, PopLoad, PopSlot, NoAnswer,
             PushTest, PushLoad, InterruptPush, Minimize, vars
    <3>3. access = "pushSlot" => loaded' = loaded /\ hand' = hand
      BY <1>7, <2>3 DEF Next, Main, PopRequest, PushRequest, PopTest, PopLoad, PopSlot, NoAnswer,
             PushTest, PushLoad, InterruptPush, Minimize, vars
    <3>. QED  BY <1>3, <1>7, <2>1, <3>1, <3>2, <3>3
  <2>. QED  BY <2>2, <2>3
<1>. QED  BY <1>2, <1>4, <1>5, <1>6, <1>7

(* The functions, access by access and interrupted anywhere, implement the *)
(* atomic stack that ProcessHandler takes them for, up to the first race.  *)
THEOREM ImplementsTheStack == Spec => ImplementsRequests
<1>1. IInv /\ [Next]_vars => [Promise!Next]_<<Stack, risky # {}>>
  BY InvNext, PromiseNext
<1>. QED  BY PromiseInit, InvAlways, <1>1, PTL DEF Spec, ImplementsRequests, Promise!Spec

(* PushRequest and PopRequest stay inside of Requests and serve a request  *)
(* once, for any capacity, unless an interrupt raced with it.              *)
THEOREM StackIsSafe == Spec => []StackSafe
  BY InvAlways, PTL DEF IInv, StackSafe
=============================================================================
