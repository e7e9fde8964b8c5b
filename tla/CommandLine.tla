----------------------------- MODULE CommandLine -----------------------------
(***************************************************************************)
(* The tty and the terminal: keys edit Command and ENTER runs it, all in   *)
(* keyboard interrupts, while a DRAW that the main loop performs prints    *)
(* what commands left in Text and clears Command for the next one.  The    *)
(* prompt is part of Text, so what is typed before the DRAW goes to the    *)
(* old Command.                                                            *)
(*                                                                         *)
(* A character's place on the screen is left out but for the line the      *)
(* prompt is on; Text is the sequence of outputs that wait in it, each the *)
(* line feeds in it and the lines that Print begins by itself, at the      *)
(* buffer's width.  FrameHeight is without the terminal's margins.         *)
(***************************************************************************)
EXTENDS Integers, SequencesExt

CONSTANTS Key,          \* characters that keys give
          MaxLength,    \* of Command, 63 in the source
          Line,         \* pixels of a line, 16 in the source
          FrameHeight,  \* of the frame buffer
          Lines,        \* line feeds a command's output may have
          Wraps,        \* lines it may take beyond those, at the buffer's width
          MaxRuns       \* bounds the commands of one run

LengthAssumption == MaxLength \in Nat
HeightAssumption == Line \in Nat \ {0} /\ FrameHeight \in Nat /\ Lines \subseteq Nat /\ Wraps \subseteq Nat
RunsAssumption == MaxRuns \in Nat
TtyAssumption == LengthAssumption /\ HeightAssumption /\ RunsAssumption

VARIABLES windowed,     \* the terminal runs, not the tty
          Command,
          Text,         \* outputs: [run, feeds, wraps]
          RedrawText,
          Y,            \* CursorPos.Y
          drawing,      \* the next step of a DRAW, "idle" outside
          amount,       \* Amount, to scroll up by; a negative one is unsigned and huge
          ran,          \* commands run so far
          typed,        \* what was typed since the prompt was printed
          shown,        \* the runs whose output was printed
          cleared,      \* the runs whose output a clear dropped
          racing,       \* the runs during the printing of a DRAW and behind it
          eaten,        \* a key came in between the prompt and Command's reset
          wrapped,      \* lines the last print took beyond its line feeds
          upset,        \* the Text of this DRAW is too long, or an ENTER came before its print
          astray        \* the last DRAW was upset

screen == <<Y, amount, wrapped, upset, astray>>
outputs == <<ran, shown, cleared, racing>>
ttyVars == <<windowed, Command, Text, RedrawText, drawing, typed, eaten, screen, outputs>>

Output(run, feeds, wraps) == [run |-> run, feeds |-> feeds, wraps |-> wraps]

(* After INIT: the welcome and the first prompt.                           *)
TtyInit == /\ windowed \in BOOLEAN
           /\ Command = <<>>
           /\ \E n \in Lines, w \in Wraps : Text = <<Output(0, n, w)>>
           /\ RedrawText = TRUE
           /\ Y = 0
           /\ drawing = "idle"
           /\ amount = 0
           /\ ran = 0
           /\ typed = <<>>
           /\ shown = {} /\ cleared = {} /\ racing = {}
           /\ eaten = FALSE /\ wrapped = 0 /\ upset = FALSE /\ astray = FALSE

-----------------------------------------------------------------------------
(* The keyboard interrupt: KEYPRESS                                        *)

Room(s) == Len(s) < MaxLength

Typed(s, k) == IF Room(s) THEN Append(s, k) ELSE s

Erased(s) == IF s = <<>> THEN s ELSE Front(s)

AfterPrompt == drawing \in {"forget", "command"}

BeforePrint == drawing \in {"measure", "amount", "lower", "text", "print"}

Racing == drawing \in {"print", "forget", "command", "done"}

Type(k) ==
    /\ Command' = Typed(Command, k)
    /\ typed' = Typed(typed, k)
    /\ eaten' = (eaten \/ AfterPrompt)
    /\ UNCHANGED <<windowed, Text, RedrawText, drawing, screen, outputs>>

Backspace ==
    /\ Command' = Erased(Command)
    /\ typed' = Erased(typed)
    /\ eaten' = (eaten \/ AfterPrompt)
    /\ UNCHANGED <<windowed, Text, RedrawText, drawing, screen, outputs>>

(* Slip: the output replaces what waits. *)
WrittenOver(text, output) == <<output>>

Written(text, output) == Append(text, output)

(* ENTER: the echo, the command's output and the next prompt.  Command     *)
(* stays as it is.                                                         *)
Enter(n, w) ==
    /\ ran < MaxRuns
    /\ ran' = ran + 1
    /\ Text' = Written(Text, Output(ran + 1, n + 2, w))
    /\ RedrawText' = TRUE
    /\ racing' = IF Racing THEN racing \cup {ran + 1} ELSE racing
    /\ upset' = (upset \/ BeforePrint)
    /\ UNCHANGED <<windowed, Command, Y, drawing, amount, typed, shown, cleared, eaten, wrapped, astray>>

Runs(s) == {s[i].run : i \in DOMAIN s}

(* ENTER with the command clear: its message CLEAR empties Text and Command*)
(* and puts the prompt at the top, before the prompt itself is appended.   *)
EnterClear ==
    /\ ran < MaxRuns
    /\ ran' = ran + 1
    /\ Text' = <<Output(ran + 1, 1, 0)>>
    /\ Command' = <<>>
    /\ typed' = <<>>
    /\ Y' = 0
    /\ cleared' = cleared \cup Runs(Text)
    /\ RedrawText' = TRUE
    /\ racing' = IF Racing THEN racing \cup {ran + 1} \cup Runs(Text) ELSE racing
    /\ upset' = (upset \/ BeforePrint)
    /\ UNCHANGED <<windowed, drawing, amount, shown, eaten, wrapped, astray>>

-----------------------------------------------------------------------------
(* DRAW, performed by the loop.  The timer asks for one twice a second.    *)

Total(v) == LET sum[n \in 0 .. Len(v)] == IF n = 0 THEN 0 ELSE sum[n - 1] + v[n]
            IN  sum[Len(v)]

FeedsOf(s) == Total([n \in 1 .. Len(s) |-> s[n].feeds])

WrapsOf(s) == Total([n \in 1 .. Len(s) |-> s[n].wraps])

LineAmount == FeedsOf(Text) + 1

(* The tty tests RedrawText before it scrolls, the terminal behind that.   *)
Draws == windowed \/ RedrawText

AfterScroll == IF windowed THEN "text" ELSE "print"

DrawTextBegin ==
    /\ drawing = "idle"
    /\ Draws
    /\ upset' = FALSE
    /\ drawing' = "measure"
    /\ UNCHANGED <<windowed, Command, Text, RedrawText, Y, amount, typed, eaten, wrapped, astray, outputs>>

Overflow == Y + LineAmount * Line - FrameHeight

(* Text is measured once for the test and once for Amount.                 *)
Measure ==
    /\ drawing = "measure"
    /\ upset' = (upset \/ LineAmount * Line > FrameHeight)
    /\ drawing' = IF Overflow > 0 THEN "amount" ELSE AfterScroll
    /\ UNCHANGED <<windowed, Command, Text, RedrawText, Y, amount, typed, eaten, wrapped, astray, outputs>>

TakeAmount ==
    /\ drawing = "amount"
    /\ amount' = Overflow
    /\ drawing' = "lower"
    /\ UNCHANGED <<windowed, Command, Text, RedrawText, Y, typed, eaten, wrapped, upset, astray, outputs>>

ScrollUp ==
    /\ drawing = "lower"
    /\ Y' = IF Y < amount THEN 0 ELSE Y - amount
    /\ amount' = 0
    /\ drawing' = AfterScroll
    /\ UNCHANGED <<windowed, Command, Text, RedrawText, typed, eaten, wrapped, upset, astray, outputs>>

(* The terminal's test of RedrawText.  What it scrolled behind the last    *)
(* print put the prompt where it belongs.                                  *)
TestText ==
    /\ drawing = "text"
    /\ \/ RedrawText /\ drawing' = "print" /\ UNCHANGED <<wrapped, astray>>
       \/ ~RedrawText /\ drawing' = "idle" /\ wrapped' = 0 /\ astray' = upset
    /\ UNCHANGED <<windowed, Command, Text, RedrawText, Y, amount, typed, eaten, upset, outputs>>

(* Print begins a new line at each line feed and at the buffer's width.    *)
PrintText ==
    /\ drawing = "print"
    /\ shown' = shown \cup Runs(Text)
    /\ Y' = Y + (FeedsOf(Text) + WrapsOf(Text)) * Line
    /\ wrapped' = WrapsOf(Text)
    /\ typed' = <<>>
    /\ drawing' = "forget"
    /\ UNCHANGED <<windowed, Command, Text, RedrawText, amount, ran, cleared, racing, eaten, upset, astray>>

Forgotten == <<>>

Forget ==
    /\ drawing = "forget"
    /\ Text' = Forgotten
    /\ drawing' = "command"
    /\ UNCHANGED <<windowed, Command, RedrawText, typed, eaten, screen, outputs>>

Reset == <<>>

ResetCommand ==
    /\ drawing = "command"
    /\ Command' = Reset
    /\ drawing' = "done"
    /\ UNCHANGED <<windowed, Text, RedrawText, typed, eaten, screen, outputs>>

DrawDone ==
    /\ drawing = "done"
    /\ RedrawText' = FALSE
    /\ astray' = upset
    /\ drawing' = "idle"
    /\ UNCHANGED <<windowed, Command, Text, Y, amount, typed, eaten, wrapped, upset, outputs>>

DrawText == \/ DrawTextBegin \/ Measure \/ TakeAmount \/ ScrollUp \/ TestText
            \/ PrintText \/ Forget \/ ResetCommand \/ DrawDone

KeyPress == \/ (\E k \in Key : Type(k)) \/ Backspace
            \/ (\E n \in Lines, w \in Wraps : Enter(n, w)) \/ EnterClear

TtyNext == DrawText \/ KeyPress

TtySpec == TtyInit /\ [][TtyNext]_ttyVars /\ WF_ttyVars(DrawText)

-----------------------------------------------------------------------------
TtyTypeOK == /\ Len(Command) <= MaxLength
             /\ Runs(Text) \subseteq 0 .. ran
             /\ RedrawText \in BOOLEAN
             /\ Y \in Nat /\ amount \in Int /\ wrapped \in Nat
             /\ drawing \in {"idle", "measure", "amount", "lower", "text", "print",
                             "forget", "command", "done"}
             /\ ran \in 0 .. MaxRuns
             /\ Len(typed) <= MaxLength
             /\ shown \cup cleared \cup racing \subseteq 0 .. ran

(* With the last output drawn the input line is what was typed behind the  *)
(* prompt: nothing of the command before it is left, and nothing is lost   *)
(* unless a key came while DRAW had printed the prompt but not yet reset   *)
(* Command.                                                                *)
LineAsTyped == drawing = "idle" /\ ~RedrawText /\ ~eaten => Command = typed

(* No output gets lost: it is printed, waits for a DRAW that will come, or *)
(* was cleared, unless its ENTER came while a DRAW printed or behind that. *)
OutputKept ==
    /\ (0 .. ran) \ racing \subseteq shown \cup cleared \cup Runs(Text)
    /\ Runs(Text) \subseteq racing \/ RedrawText

(* No output is printed twice: what is in Text before a DRAW prints has   *)
(* not been shown, unless it came while an earlier DRAW printed or behind  *)
(* that.                                                                   *)
PrintedOnce == drawing = "idle" \/ BeforePrint => Runs(Text) \cap shown \subseteq racing

(* ScrollUp is not asked to move by more than the frame buffer's height,   *)
(* which would clear memory in front of it, unless the last print took two *)
(* lines or more beyond its line feeds, the outputs of this DRAW or of the *)
(* last one take more lines than the screen has, or an ENTER came in       *)
(* before their print.                                                     *)
ScrollInside == drawing = "lower" => amount \in 0 .. FrameHeight \/ wrapped > 1 \/ upset \/ astray

(* With the latter exceptions the prompt is on the screen after each DRAW, *)
(* but for the lines that the outputs took beyond their line feeds: the    *)
(* terminal scrolls those in the next DRAW, the tty when it prints again.  *)
PromptVisible ==
    drawing = "idle" /\ ~RedrawText /\ ~astray => Y + Line <= FrameHeight + wrapped * Line

(* The output of a command that is not racing appears in the end, however  *)
(* the keys go on.                                                         *)
OutputAppears ==
    \A id \in 0 .. MaxRuns :
        (id \in Runs(Text)) ~> (id \in shown \cup cleared \cup racing)

(* The command line and the text between the steps of a DRAW.              *)
OutputSafe == TtyTypeOK /\ LineAsTyped /\ OutputKept /\ PrintedOnce /\ ScrollInside /\ PromptVisible
=============================================================================
