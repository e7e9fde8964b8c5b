-------------------------------- MODULE Tetris --------------------------------
(***************************************************************************)
(* The game.  Ticks and keys are messages of the timer and the keyboard    *)
(* interrupt and run to their end; DRAW is performed by the main loop, and *)
(* it is DRAW that performs the animations, which clear lines and reset    *)
(* the game.  Keys play on while an animation runs.                        *)
(*                                                                         *)
(* Of a block only its place is kept, and of drawing nothing.  One step    *)
(* each: the test of one line, the shift down on one line, ClearGrid.      *)
(***************************************************************************)
EXTENDS Integers, FiniteSets

CONSTANTS Width, Height,   \* GRID_WIDTH, GRID_HEIGHT
          Types,           \* the types that are generated, seven in the source
          Half,            \* where Left begins, 5 in the source
          Byte,            \* the numbers of a uint8_t, 256
          Speed,           \* AnimationSpeed, 2 in the source
          MaxPieces        \* bounds the pieces generated

GridAssumption == Width \in Nat \ {0} /\ Height \in Nat \ {0}
CounterAssumption == /\ Half \in Nat /\ Speed \in Nat \ {0} /\ Byte \in Nat \ {0, 1}
                     /\ Half < Byte
PiecesAssumption == MaxPieces \in Nat

VARIABLES game,    \* [grid, type, rot, pos, anim, count]
          draw,    \* where DRAW is
          y,       \* LineClearAnimation's line
          found,   \* and its LineFound
          made,    \* pieces generated
          tally,   \* blocks written less blocks cleared, since the last Reset
          odd      \* what a player did to the animations since then

gameVars == <<game, draw, y, found, made, tally, odd>>

Piece == [LIGHT_BLUE |-> {<<-1, 0>>, <<0, 0>>, <<1, 0>>, <<2, 0>>},
          DARK_BLUE  |-> {<<0, 1>>, <<0, 0>>, <<1, 0>>, <<2, 0>>},
          ORANGE     |-> {<<-1, 0>>, <<0, 0>>, <<1, 0>>, <<1, 1>>},
          YELLOW     |-> {<<1, 1>>, <<0, 0>>, <<1, 0>>, <<0, 1>>},
          PURPLE     |-> {<<-1, 0>>, <<0, 0>>, <<0, 1>>, <<1, 0>>},
          GREEN      |-> {<<-1, 0>>, <<0, 0>>, <<0, 1>>, <<1, 1>>},
          RED        |-> {<<-1, 1>>, <<0, 1>>, <<0, 0>>, <<1, 0>>}]

TypesAssumption == Types \subseteq DOMAIN Piece

Area == (0 .. Width - 1) \X (0 .. Height - 1)

Rotation == 0 .. 3   \* RotationSteps modulo 4, of which a uint8_t's range is a multiple

RotatePoint(p, steps) ==
    CASE steps = 0 -> p
      [] steps = 1 -> <<p[2], -p[1]>>
      [] steps = 2 -> <<-p[1], -p[2]>>
      [] steps = 3 -> <<-p[2], p[1]>>

GetShape(type, steps) ==
    IF type = "EMPTY" THEN {} ELSE {RotatePoint(p, steps) : p \in Piece[type]}

Blocks(type, steps, pos) == {<<pos[1] + p[1], pos[2] + p[2]>> : p \in GetShape(type, steps)}

BlocksOf(g) == Blocks(g.type, g.rot, g.pos)

Start == <<Width \div 2, 0>>

(* A new piece is inside of the grid.                                      *)
StartAssumption == \A t \in Types : Blocks(t, 0, Start) \subseteq Area

StartAnimation(g, a) == [g EXCEPT !.anim = a, !.count = 0]

GameInit == /\ game = [grid |-> {}, type |-> "EMPTY", rot |-> 0, pos |-> <<0, 0>>, anim |-> "splash", count |-> 0]
        /\ draw = "idle"
        /\ y = 0 /\ found = FALSE
        /\ made = 0 /\ tally = 0 /\ odd = {}

-----------------------------------------------------------------------------
(* CurrentPiece                                                            *)

Fits(g, blocks) == blocks \subseteq Area /\ blocks \cap g.grid = {}

Generate(g, t) ==
    LET new == [g EXCEPT !.type = t, !.rot = 0, !.pos = Start]
    IN  IF BlocksOf(new) \cap g.grid = {} THEN new ELSE StartAnimation(new, "over")

Generated(g, t) == IF g.type = "EMPTY" THEN Generate(g, t) ELSE g

CanMove(g, off) == Fits(g, Blocks(g.type, g.rot, <<g.pos[1] + off[1], g.pos[2] + off[2]>>))

Move(g, off) ==
    IF CanMove(g, off) THEN [g EXCEPT !.pos = <<@[1] + off[1], @[2] + off[2]>>] ELSE g

Rotate(g) ==
    LET next == (g.rot + 1) % 4
    IN  IF Fits(g, Blocks(g.type, next, g.pos)) THEN [g EXCEPT !.rot = next] ELSE g

Write(g) == [g EXCEPT !.grid = @ \cup BlocksOf(g)]

Landed(g, t) == Generate(StartAnimation(Write(g), "clear"), t)

-----------------------------------------------------------------------------
(* TICK and KEYPRESS                                                       *)

New(g) == IF g.type = "EMPTY" THEN 1 ELSE 0

Played(g) == IF g.anim = "clear" \/ (g.anim = "over" /\ g.type # "EMPTY") \/ draw # "idle"
             THEN odd \cup {"played"} ELSE odd

(* One step down, which TICK and the key s take.                           *)
Down ==
    \E t, u \in Types :
        LET g == Generated(game, t)
        IN  IF CanMove(g, <<0, 1>>)
            THEN /\ made + New(game) <= MaxPieces
                 /\ game' = Move(g, <<0, 1>>)
                 /\ made' = made + New(game)
                 /\ UNCHANGED tally
            ELSE /\ made + New(game) < MaxPieces
                 /\ game' = Landed(g, u)
                 /\ made' = made + New(game) + 1
                 /\ tally' = tally + Cardinality(BlocksOf(g))

TICK ==
    /\ game.anim = "none"
    /\ Down
    /\ odd' = Played(game)
    /\ UNCHANGED <<draw, y, found>>

KeyS ==
    /\ Down
    /\ odd' = Played(game)
    /\ UNCHANGED <<draw, y, found>>

KeyAD ==
    \E t \in Types, off \in {<<-1, 0>>, <<1, 0>>} :
        /\ made + New(game) <= MaxPieces
        /\ game' = Move(Generated(game, t), off)
        /\ made' = made + New(game)
        /\ odd' = Played(game)
        /\ UNCHANGED <<draw, y, found, tally>>

KeyR ==
    \E t \in Types :
        /\ made + New(game) <= MaxPieces
        /\ game' = Rotate(Generated(game, t))
        /\ made' = made + New(game)
        /\ odd' = Played(game)
        /\ UNCHANGED <<draw, y, found, tally>>

KeyEnter ==
    /\ game.anim # "none"
    /\ game' = StartAnimation(game, "none")
    /\ odd' = IF game.anim = "splash" /\ draw = "idle" THEN odd
              ELSE IF game.anim = "over" /\ game.count > 0 /\ draw = "idle" THEN odd
              ELSE odd \cup {"entered"}
    /\ UNCHANGED <<draw, y, found, made, tally>>

-----------------------------------------------------------------------------
(* DRAW                                                                    *)

Left == (Half - (game.count \div Speed)) % Byte

Full(g, row) == \A x \in 0 .. Width - 1 : <<x, row>> \in g.grid

Animates == game.anim # "none"

DrawBegin ==
    /\ draw = "idle"
    /\ Animates
    /\ draw' = "call"
    /\ UNCHANGED <<game, y, found, made, tally, odd>>

(* The animation is called through a pointer, which may be null by now.    *)
CallAnimation ==
    /\ draw = "call"
    /\ draw' = CASE game.anim = "none" -> "fault"
                 [] game.anim = "splash" -> "count"
                 [] game.anim = "over" -> IF game.count <= 1 THEN "reset" ELSE "count"
                 [] game.anim = "clear" -> "line"
    /\ y' = 0
    /\ found' = FALSE
    /\ UNCHANGED <<game, made, tally, odd>>

ResetPiece ==
    /\ draw = "reset"
    /\ game' = [game EXCEPT !.type = "EMPTY"]
    /\ draw' = "grid"
    /\ UNCHANGED <<y, found, made, tally, odd>>

ClearGrid ==
    /\ draw = "grid"
    /\ game' = [game EXCEPT !.grid = {}]
    /\ tally' = 0
    /\ odd' = {}
    /\ draw' = "count"
    /\ UNCHANGED <<y, found, made>>

FindLine ==
    /\ draw = "line"
    /\ y < Height
    /\ found' = (found \/ Full(game, y))
    /\ IF Full(game, y) /\ Left = 0
       THEN draw' = "shift" /\ y' = y
       ELSE draw' = "line" /\ y' = y + 1
    /\ UNCHANGED <<game, made, tally, odd>>

(* Slip: the loop starts a line too high: the full line stays. *)
ShiftedAbove(g, row) == {b \in g.grid : b[2] >= row \/ b[2] = 0}
                        \cup {<<b[1], b[2] + 1>> : b \in {c \in g.grid : c[2] + 1 < row}}

(* Line 0 is copied and not emptied.                                       *)
Shifted(g, row) == {b \in g.grid : b[2] > row \/ b[2] = 0}
                   \cup {<<b[1], b[2] + 1>> : b \in {c \in g.grid : c[2] < row}}

ShiftLines ==
    /\ draw = "shift"
    /\ game' = [game EXCEPT !.grid = Shifted(game, y)]
    /\ tally' = tally - Width
    /\ odd' = IF \E b \in game.grid : b[2] = 0 THEN odd \cup {"topped"} ELSE odd
    /\ draw' = "line"
    /\ y' = y + 1
    /\ UNCHANGED <<found, made>>

Ended == ~found

EndLines ==
    /\ draw = "line"
    /\ y = Height
    /\ draw' = IF Ended THEN "stop" ELSE "count"
    /\ UNCHANGED <<game, y, found, made, tally, odd>>

StopAnimation ==
    /\ draw = "stop"
    /\ game' = StartAnimation(game, "none")
    /\ draw' = "count"
    /\ UNCHANGED <<y, found, made, tally, odd>>

(* AnimationCounter++, kept small: modulo what Left can tell apart in      *)
(* LineClearAnimation, and no higher than 2 elsewhere.                     *)
Counted(g) == IF g.anim = "clear" THEN (g.count + 1) % (Speed * Byte)
              ELSE IF g.count < 2 THEN g.count + 1 ELSE g.count

CountFrame ==
    /\ draw = "count"
    /\ game' = [game EXCEPT !.count = Counted(game)]
    /\ draw' = "idle"
    /\ UNCHANGED <<y, found, made, tally, odd>>

Draw == \/ DrawBegin \/ CallAnimation \/ ResetPiece \/ ClearGrid
        \/ FindLine \/ ShiftLines \/ EndLines \/ StopAnimation \/ CountFrame

Interrupt == draw # "fault" /\ (TICK \/ KeyS \/ KeyAD \/ KeyR \/ KeyEnter)

GameNext == Draw \/ Interrupt

GameSpec == GameInit /\ [][GameNext]_gameVars /\ WF_gameVars(Draw)

-----------------------------------------------------------------------------
Games == [grid : SUBSET Area, type : Types \cup {"EMPTY"}, rot : Rotation, pos : Area,
          anim : {"none", "splash", "over", "clear"}, count : 0 .. Speed * Byte]

GameTypeOK ==
    /\ game \in Games
    /\ draw \in {"idle", "call", "fault", "reset", "grid", "line", "shift", "stop", "count"}
    /\ y \in 0 .. Height
    /\ found \in BOOLEAN
    /\ made \in 0 .. MaxPieces /\ tally \in Int
    /\ odd \subseteq {"played", "entered", "topped"}

(* Every block of the falling piece is inside of the grid, whatever line   *)
(* clearing, resetting and keys do at the same time: Write, Move and       *)
(* DrawOutline index Grid with it.                                         *)
PieceInside == BlocksOf(game) \subseteq Area

(* The falling piece and the grid do not overlap until the game is over,   *)
(* as long as no key moved it during an animation, ENTER cut none short    *)
(* and no line was cleared with blocks in line 0.                          *)
PieceApart == game.anim # "over" /\ odd = {} => BlocksOf(game) \cap game.grid = {}

(* With the same exceptions no block appears and none gets lost: the grid  *)
(* has the blocks of the pieces that landed less those of cleared lines.   *)
BlocksKept == odd = {} /\ game.anim # "over" /\ draw # "grid" => Cardinality(game.grid) = tally

(* With the same exceptions the next piece falls only when full lines are  *)
(* gone.                                                                   *)
LinesCleared == game.anim = "none" /\ odd = {} => \A row \in 0 .. Height - 1 : ~Full(game, row)

(* DRAW calls no animation through a null pointer unless an ENTER came     *)
(* after its test.                                                         *)
CalledLive == draw = "fault" => "entered" \in odd

(* The clearing of lines comes to an end: a full line is found by the      *)
(* frame in which Left is 0.                                               *)
ClearEnds == (game.anim = "clear") ~> (game.anim # "clear")

(* The game between the keys, the ticks and the loop.                      *)
GameSafe == GameTypeOK /\ PieceInside /\ PieceApart /\ BlocksKept /\ LinesCleared /\ CalledLive
=============================================================================
