-------------------------------- MODULE Panic --------------------------------
(***************************************************************************)
(* The ways the kernel stops: Debug::Error, which the exception handlers   *)
(* of Handlers.cpp and the constructor of Process call, and the commands   *)
(* shutdown and restart.  Each draws its last texts on the screen itself   *)
(* and executes HLT for ever.  A text is where it was begun; its characters,  *)
(* at Scale 3, follow from that, and what is drawn later hides it.         *)
(* The calls are lists of steps; a call never returns to what it stopped,  *)
(* so a second one replaces the steps of the first.                        *)
(***************************************************************************)
EXTENDS Integers, Sequences

CONSTANTS Screens,     \* sizes of the screen, <<width, height>>
          Exceptions,  \* messages of the exceptions' handlers
          Jokes,       \* the ErrorJokes that Ticks picks from
          Numbers      \* what ToString makes of the numbers shown

VARIABLES size,        \* GetScreenSize()
          steps,       \* what is left of the call that stops the kernel
          stopping,    \* that call, or "run"
          enabled,     \* the interrupt flag
          nmi,         \* a non-maskable interrupt was taken: it blocks all others, its handler never returns
          shown,       \* texts drawn since the screen was cleared
          cursor,      \* CursorPos
          power

panicVars == <<size, steps, stopping, enabled, nmi, shown, cursor, power>>

StartPoint == <<100, 50>>
Unknown == "Program of unknown type started"
NMI == "None Maskable Interrupt"
Safe == "It is now safe to turn off your computer"
-----------------------------------------------------------------------------
CLI == <<"CLI">>
Clear == <<"Clear">>
Reset == <<"Reset">>
MoveTo(point) == <<"At", point>>
Say(text) == <<"Say", text>>

LineAt(k) == MoveTo(<<StartPoint[1], StartPoint[2] + 48 * k>>)

Error(message, joke, number) ==
    <<CLI, Clear, LineAt(0), Say("KERNEL PANIC!"), LineAt(1), Say("// "), Say(joke),
      LineAt(3), Say("ERROR: "), Say("'"), Say(message), Say("'"),
      LineAt(5), Say("OS_VERSION = "), Say("Electric_OS 19/02/2022"),
      LineAt(7), Say("Time: "), LineAt(8), Say("Ticks = "), Say(number),
      LineAt(9), Say("Current Time = "), Say("23"), Say(":"), Say("59"), Say(":"), Say("59"),
      LineAt(11), Say("Memory: "), LineAt(12), Say("Used Heap = "), Say(number), Say(" KB"),
      LineAt(13), Say("Free Heap = "), Say(number), Say(" KB"),
      LineAt(14), Say("Locked Pages = "), Say(number), LineAt(15), Say("Free Pages = "), Say(number),
      LineAt(17), Say("System Halted!"), LineAt(18), Say("Please manually reboot your machine.")>>

\* What an error writes besides its message, its joke and the numbers.
Captions == {"KERNEL PANIC!", "// ", "ERROR: ", "'", "OS_VERSION = ", "Electric_OS 19/02/2022",
             "Time: ", "Ticks = ", "Current Time = ", "23", ":", "59", "Memory: ", "Used Heap = ",
             " KB", "Free Heap = ", "Locked Pages = ", "Free Pages = ", "System Halted!",
             "Please manually reboot your machine."}

\* A text of n characters, drawn a third down the screen; division cuts towards zero.
Centred(n) == MoveTo(<<size[1] \div 2 - (n * 24) \div 2, size[2] \div 3>>)
Farewell == <<Clear, Centred(14), Say("Please wait..."), CLI>>
SafeNow == <<Clear, Centred(40), Say(Safe)>>
CommandShutdown == Farewell \o SafeNow
CommandRestart == Farewell \o <<Reset>> \o SafeNow

WrapsSigned(point) == point[1] + 48 > size[1]  \* Slip: compared as signed numbers.

\* Where the next character is drawn: a new line when it would end outside the screen.
\* The comparison is unsigned, a point far enough left of the screen wraps too.
Wraps(point) == point[1] + 48 > size[1] \/ point[1] + 48 < 0
Place(point) == IF Wraps(point) THEN <<0, point[2] + 48>> ELSE point

\* The point of the i-th character of a text printed from a point on: how many more fit
\* into its line, and how many fit into each line after that.
Fit(x) == (size[1] - 48 - x) \div 24 + 1
Point(from, i) ==
    LET first == Place(from)
        over == i - 1 - Fit(first[1])
    IN IF over < 0 THEN <<first[1] + 24 * (i - 1), first[2]>>
       ELSE <<24 * (over % Fit(0)), first[2] + 48 * (1 + over \div Fit(0))>>
\* The messages can be told from all else that is written.
WordsAssumption == /\ Exceptions \cap (Jokes \cup Numbers \cup Captions) = {}
                   /\ {"Please wait...", Safe} \cap (Exceptions \cup Jokes \cup Numbers) = {}
                   /\ {"run", "shutdown", "restart"} \cap Exceptions = {}
\* How many characters texts have; the messages fit into two lines of the smallest screen.
LengthAssumption ==
    /\ \A text \in Jokes \cup Numbers \cup Captions : Len(text) \in Nat \ {0}
    /\ \A message \in Exceptions \cup {Unknown, NMI} : Len(message) \in 1..38
    /\ Len("ERROR: ") = 7 /\ Len("'") = 1 /\ Len("Please wait...") = 14 /\ Len(Safe) = 40
\* No screen is so wide that Centred(40) begins left of it by less than two characters,
\* where the text would not wrap.
ScreensAssumption == \A s \in Screens : /\ s[1] \in Nat /\ s[1] >= 640 /\ s[1] \notin 864..959
                                        /\ s[2] \in Nat /\ s[2] >= 480
PanicAssumption == WordsAssumption /\ LengthAssumption /\ ScreensAssumption
-----------------------------------------------------------------------------
PanicInit == /\ size \in Screens /\ steps = <<>> /\ stopping = "run" /\ enabled \in BOOLEAN /\ nmi = FALSE
        /\ shown = <<>> /\ cursor = <<0, 0>> /\ power = "on"

Stop(call, todo) == stopping' = call /\ steps' = todo /\ UNCHANGED <<size, shown, cursor, power>>

\* An exception, of a program or of a handler; its gate clears the flag.
Exception == /\ stopping = "run" /\ enabled' = FALSE /\ UNCHANGED nmi
             /\ \E message \in Exceptions, joke \in Jokes, number \in Numbers :
                    Stop(message, Error(message, joke, number))

\* The constructor of Process, called by the loop of the kernel or by a handler, finds a
\* type it does not know.  The programs of this version all have one it knows.
UnknownType == /\ stopping = "run" /\ UNCHANGED <<enabled, nmi>>
               /\ \E joke \in Jokes, number \in Numbers : Stop(Unknown, Error(Unknown, joke, number))

\* A key or a click on the system menu.
Command == /\ enabled /\ enabled' = FALSE /\ UNCHANGED nmi
           /\ \/ Stop("shutdown", CommandShutdown)
              \/ Stop("restart", CommandRestart)

NonMaskable == /\ ~nmi /\ power = "on" /\ nmi' = TRUE /\ enabled' = FALSE
               /\ \E joke \in Jokes, number \in Numbers : Stop(NMI, Error(NMI, joke, number))

Do(op) == stopping # "run" /\ power = "on" /\ steps # <<>> /\ Head(steps)[1] = op /\ steps' = Tail(steps)

DoCLI == Do("CLI") /\ enabled' = FALSE /\ UNCHANGED <<size, stopping, nmi, shown, cursor, power>>
DoClear == Do("Clear") /\ shown' = <<>> /\ UNCHANGED <<size, stopping, enabled, nmi, cursor, power>>
DoAt == Do("At") /\ cursor' = Head(steps)[2] /\ UNCHANGED <<size, stopping, enabled, nmi, shown, power>>
DoSay == /\ Do("Say")
           /\ LET text == Head(steps)[2]
                  last == Point(cursor, Len(text))
              IN /\ shown' = Append(shown, [text |-> text, from |-> cursor])
                 /\ cursor' = <<last[1] + 24, last[2]>>
           /\ UNCHANGED <<size, stopping, enabled, nmi, power>>

\* ResetSystem, which returns when the firmware cannot.
DoReset == /\ Do("Reset") /\ power' \in {"on", "reset"}
           /\ UNCHANGED <<size, stopping, enabled, nmi, shown, cursor>>

Draw == DoCLI \/ DoClear \/ DoAt \/ DoSay \/ DoReset
PanicNext == Exception \/ UnknownType \/ Command \/ NonMaskable \/ Draw

\* The processor executes the steps of the call it is in.
PanicSpec == PanicInit /\ [][PanicNext]_panicVars /\ WF_panicVars(Draw)
-----------------------------------------------------------------------------
Halted == stopping # "run" /\ steps = <<>>
Failed == stopping \notin {"run", "shutdown", "restart"}

\* The text at place k of shown can be read: all of it is on the screen and nothing was drawn over it.
Overlap(p, q) == p[1] < q[1] + 24 /\ q[1] < p[1] + 24 /\ p[2] < q[2] + 48 /\ q[2] < p[2] + 48
InScreen(p) == p[1] \in 0..(size[1] - 24) /\ p[2] \in 0..(size[2] - 48)
Area(drawn) == {Point(drawn.from, i) : i \in 1..Len(drawn.text)}
Readable(text) ==
    \E k \in DOMAIN shown :
        /\ shown[k].text = text
        /\ LET later == UNION {Area(shown[j]) : j \in (k + 1)..Len(shown)}
           IN \A p \in Area(shown[k]) : InScreen(p) /\ \A q \in later : ~Overlap(p, q)

PanicTypeOK == /\ size \in Screens /\ enabled \in BOOLEAN /\ nmi \in BOOLEAN /\ power \in {"on", "reset"}
          /\ stopping \in {"run", "shutdown", "restart", Unknown, NMI} \cup Exceptions
          /\ \A k \in DOMAIN steps : steps[k][1] \in {"CLI", "Clear", "Reset", "At", "Say"}
          /\ cursor[1] \in -480..(size[1] - 24) /\ cursor[2] \in Nat

(* "Halts the system, clears the interupt flag and prints the given         *)
(* message" (Debug.h:6): when the kernel has stopped, the message of the    *)
(* call that stopped it can be read, whatever the length of the joke above  *)
(* it and of the numbers below it made their lines wrap.                    *)
MessageReadable == Halted /\ Failed => Readable(stopping)

(* Only one call's texts are on the screen when it stops: a shutdown or an  *)
(* error that another one cut short leaves nothing behind.                  *)
NothingLeft == Halted /\ Failed => ~Readable("Please wait...") /\ ~Readable(Safe)
                                   /\ \A message \in Exceptions \ {stopping} : ~Readable(message)

(* A machine that says that it may be turned off says so readably.          *)
SafeReadable == Halted /\ ~Failed /\ power = "on" => Readable(Safe)

(* Once stopped, the kernel stays so, and so does its screen: but for a     *)
(* non-maskable interrupt nothing wakes the processor.                      *)
StaysHalted == [][Halted /\ nmi' = nmi => UNCHANGED panicVars]_panicVars

(* Every call that stops the kernel gets to its HLT, or to the reset.       *)
Halts == stopping # "run" ~> (Halted \/ power = "reset")

(* However errors, shutdowns and restarts cut each other short, the kernel *)
(* stops for good, with the message of the one that stopped it, readably.  *)
StopsReadably == /\ [](PanicTypeOK /\ MessageReadable /\ NothingLeft /\ SafeReadable)
                 /\ StaysHalted
=============================================================================
