-------------------------------- MODULE Shell --------------------------------
(***************************************************************************)
(* System: a line is split into words, a word is hashed, and the hash      *)
(* looked up in a table; the commands that act on processes and variables, *)
(* which interrupts run, and what main code does meanwhile: it takes the   *)
(* font, which a command may set, and starts the topbar and the tty step   *)
(* by step.  What else set can set, DrawMouse, is left out, and so is what *)
(* the mouse does to processes.                                            *)
(*                                                                         *)
(* Characters are their codes, since hashes and numbers are made of them.  *)
(***************************************************************************)
EXTENDS CString

CONSTANTS Argument,     \* what may follow a command
          FirstID,      \* the IDs that are given already
          MaxID,        \* bounds the processes started
          FontAmount    \* fonts the boot loader found

(* So short that no number wraps.                                          *)
ArgumentAssumption == \A a \in Argument : /\ a \in Seq(1 .. 127) /\ Len(a) \in 1 .. 9
IDAssumption == FirstID \in Nat \ {0} /\ MaxID \in Nat /\ FirstID <= MaxID /\ MaxID < 10^9
FontAssumption == FontAmount \in 1 .. 255
ShellAssumption == ArgumentAssumption /\ IDAssumption /\ FontAssumption

Commands == [set      |-> <<115, 101, 116>>,
             list     |-> <<108, 105, 115, 116>>,
             help     |-> <<104, 101, 108, 112>>,
             time     |-> <<116, 105, 109, 101>>,
             date     |-> <<100, 97, 116, 101>>,
             kill     |-> <<107, 105, 108, 108>>,
             clear    |-> <<99, 108, 101, 97, 114>>,
             start    |-> <<115, 116, 97, 114, 116>>,
             restart  |-> <<114, 101, 115, 116, 97, 114, 116>>,
             shutdown |-> <<115, 104, 117, 116, 100, 111, 119, 110>>,
             suicide  |-> <<115, 117, 105, 99, 105, 100, 101>>,
             heapvis  |-> <<104, 101, 97, 112, 118, 105, 115>>,
             sysfetch |-> <<115, 121, 115, 102, 101, 116, 99, 104>>]

StartableProcesses ==
            [tty        |-> <<116, 116, 121>>,
             desktop    |-> <<100, 101, 115, 107, 116, 111, 112>>,
             topbar     |-> <<116, 111, 112, 98, 97, 114>>,
             systemmenu |-> <<115, 121, 115, 116, 101, 109, 109, 101, 110, 117>>,
             startmenu  |-> <<115, 116, 97, 114, 116, 109, 101, 110, 117>>,
             terminal   |-> <<116, 101, 114, 109, 105, 110, 97, 108>>,
             calculator |-> <<99, 97, 108, 99, 117, 108, 97, 116, 111, 114>>,
             tetris     |-> <<116, 101, 116, 114, 105, 115>>]

SettableVars == [drawmouse |-> <<100, 114, 97, 119, 109, 111, 117, 115, 101>>,
                 font      |-> <<102, 111, 110, 116>>]

VARIABLES line,       \* the last line that ran, an array that ends with 0
          ran,        \* the command it ran, or "none"
          started,    \* the program that it was to start, or "none"
          answer,     \* the ID that start answered, or 0
          Processes,  \* the processes, [id, program]
          killed,     \* the ID that it was to kill, or 0
          NewID,
          opening,    \* the desktop's animation plays
          SelectedFont,
          font,       \* the main code in GetFont: "idle", "tested", or "beyond" its end
          raced,      \* a font was set since the test
          starting,   \* the main code in StartProcess, "idle" outside
          loading,    \* the program that it starts
          own,        \* the ID that it took
          changed,    \* a command changed the list that it searches or pushes to
          mixed       \* what came of that: "twin", "id", "lost"

fontVars == <<SelectedFont, font, raced>>
loop == <<starting, loading, own, changed, mixed>>
shellVars == <<line, ran, started, answer, Processes, killed, NewID, opening, fontVars, loop>>

Process(id, program) == [id |-> id, program |-> program]

-----------------------------------------------------------------------------
(* The entries of a table with the hash of the word; the first is taken.   *)
Found(hashes, s) == LET hash == HashWord(s) IN {n \in DOMAIN hashes : hashes[n] = hash}

CommandHash == [n \in DOMAIN Commands |-> HashWord(Commands[n])]
ProcessHash == [n \in DOMAIN StartableProcesses |-> HashWord(StartableProcesses[n])]
VarHash     == [n \in DOMAIN SettableVars |-> HashWord(SettableVars[n])]

-----------------------------------------------------------------------------
ShellInit == /\ line = <<>> /\ ran = "none" /\ started = "none" /\ answer = 0
             /\ Processes = {Process(FirstID, "tty")}
             /\ killed = 0
             /\ NewID = FirstID
             /\ opening = FALSE
             /\ SelectedFont = 0
             /\ font = "idle" /\ raced = FALSE
             /\ starting = "idle" /\ loading = "none" /\ own = 0 /\ changed = FALSE /\ mixed = {}

Lines == {Commands[n] : n \in DOMAIN Commands}
         \cup {Commands[n] \o <<Space>> \o a : n \in {"set", "kill", "start"}, a \in Argument}
         \cup {Commands["kill"] \o <<Space>> \o ToString(id) : id \in FirstID .. MaxID}
         \cup {Commands["start"] \o <<Space>> \o StartableProcesses[p] : p \in DOMAIN StartableProcesses}
         \cup {Commands["set"] \o <<Space>> \o SettableVars[v] \o <<Space>> \o a :
                 v \in DOMAIN SettableVars, a \in Argument}

(* What each line is for.                                                  *)
CommandOf == [s \in Lines |-> Found(CommandHash, s)]
ProgramOf == [s \in Lines |-> Found(ProcessHash, NextWord(s))]
NumberOf  == [s \in Lines |-> ToInt(NextWord(s))]

Byte(n) == n % 256

CommandSet(s) ==
    LET variable == NextWord(s)
        value == Byte(ToInt(NextWord(variable)))
        named(v) == v \in Found(VarHash, variable)
    IN  /\ SelectedFont' = IF named("font") THEN value ELSE SelectedFont
        /\ raced' = (raced \/ (named("font") /\ font = "tested"))
        /\ started' = "none" /\ answer' = 0 /\ killed' = 0
        /\ UNCHANGED <<Processes, NewID>>

(* FULLSCREEN is the type of two programs.                                 *)
Fullscreen == {"tty", "desktop"}

Running(program) == \E q \in Processes : q.program = program

Replaced(program) == IF program \in Fullscreen THEN {q \in Processes : q.program \in Fullscreen} ELSE {}

Construct(program) ==
    /\ NewID < MaxID
    /\ NewID' = NewID + 1
    /\ Processes' = (Processes \ Replaced(program)) \cup {Process(NewID + 1, program)}

(* Slip: a program that runs is started once more. *)
StartProcessTwice(program) == Construct(program) /\ answer' = NewID + 1

StartProcess(program) ==
    IF Running(program)
    THEN answer' = 0 /\ UNCHANGED <<Processes, NewID>>
    ELSE Construct(program) /\ answer' = NewID + 1

CommandStart(s) ==
    /\ \/ /\ ProgramOf[s] = {}
          /\ started' = "none" /\ answer' = 0
          /\ UNCHANGED <<Processes, NewID>>
       \/ \E program \in ProgramOf[s] :
            /\ started' = program
            /\ StartProcess(program)
    /\ killed' = 0
    /\ UNCHANGED <<SelectedFont, raced>>

Named(id) == {q \in Processes : q.id = id}

(* The first process with the ID goes; two that are twins in all are one here. *)
Killing(id) == IF Named(id) = {} THEN {Processes}
               ELSE {Processes \ {q} : q \in Named(id)}
                    \cup (IF {"twin", "id"} \subseteq mixed THEN {Processes} ELSE {})

KillProcess(id) == /\ Processes' \in Killing(id)
                   /\ killed' = id
                   /\ started' = "none" /\ answer' = 0

CommandKill(s) ==
    /\ KillProcess(NumberOf[s])
    /\ UNCHANGED <<NewID, SelectedFont, raced>>

Shells == {q \in Processes : q.program \in {"tty", "terminal"}}

(* LastMessagedProcess is the tty or terminal that passed the line on.     *)
CommandSuicide ==
    /\ \E self \in Shells : KillProcess(self.id)
    /\ UNCHANGED <<NewID, SelectedFont, raced>>

(* The other commands only make text; see CommandOutput and Clock.         *)
Acting == {"set", "start", "kill", "suicide"}

System(s) ==
    /\ line' = s
    /\ LET found == CommandOf[s]
       IN  ran' \in IF found = {} THEN {"none"} ELSE found
    /\ CASE ran' = "set" -> CommandSet(s)
         [] ran' = "start" -> CommandStart(s)
         [] ran' = "kill" -> CommandKill(s)
         [] ran' = "suicide" -> CommandSuicide
         [] ran' \notin Acting ->
                /\ started' = "none" /\ answer' = 0 /\ killed' = 0
                /\ UNCHANGED <<Processes, NewID, SelectedFont, raced>>
    /\ UNCHANGED font

-----------------------------------------------------------------------------
(* GetFont, called by drawing code                                         *)

Missing == SelectedFont >= FontAmount

TestFont == /\ font # "tested" /\ starting = "idle"
            /\ SelectedFont' = IF Missing THEN 0 ELSE SelectedFont
            /\ font' = "tested"
            /\ raced' = FALSE
            /\ UNCHANGED <<line, ran, started, answer, Processes, killed, NewID, opening, loop>>

ReadFont == /\ font = "tested"
            /\ \/ SelectedFont < FontAmount /\ font' = "idle" /\ raced' = FALSE
               \/ Missing /\ font' = "beyond" /\ UNCHANGED raced
            /\ UNCHANGED <<line, ran, started, answer, Processes, killed, NewID, opening, SelectedFont, loop>>

(* What the command does to a start of the loop that it came into: the search goes wrong, *)
(* the program is started twice, the ID is read too late, or Push stores where the list   *)
(* has moved.                                                                             *)
Disturb ==
    /\ changed' = (changed \/ (starting \in {"search", "store"} /\ Processes' # Processes))
    /\ mixed' = mixed
         \cup {"twin" : q \in {p \in Processes' \ Processes : p.program = loading
                                                         /\ starting \notin {"idle", "search"}}}
         \cup (IF starting = "read" /\ NewID' # NewID THEN {"id"} ELSE {})
    /\ UNCHANGED <<starting, loading, own>>

(* A tty or a terminal passes on a line with ENTER; the INIT message starts*)
(* the desktop's animation.                                                *)
Enter(s) == /\ Shells # {}
            /\ System(s)
            /\ opening' = (opening \/ (started' = "desktop" /\ answer' # 0))
            /\ Disturb

-----------------------------------------------------------------------------
(* StartProcess in the loop, with interrupts on                            *)

Begin(program) ==
    /\ starting = "idle" /\ font # "tested"
    /\ starting' = "search" /\ loading' = program
    /\ UNCHANGED <<line, ran, started, answer, Processes, killed, NewID, opening, fontVars,
                   own, changed, mixed>>

(* When the desktop's animation ends it starts the topbar.                 *)
OpenAnimation ==
    /\ opening /\ Running("desktop")
    /\ \E program \in Found(ProcessHash, StartableProcesses["topbar"]) : Begin(program)

(* Loop starts a tty when no process is left.                              *)
Restart == Processes = {} /\ Begin("tty")

(* The animation is over when its start is.                                *)
Finish == /\ starting' = "idle" /\ changed' = FALSE
          /\ opening' = (opening /\ loading # "topbar")

(* A search of a list that was changed may miss the program, or have found *)
(* what is gone.                                                           *)
Search ==
    /\ starting = "search"
    /\ \E found \in {Running(loading)} \cup (IF changed THEN BOOLEAN ELSE {}) :
          \/ found /\ Finish /\ UNCHANGED mixed
          \/ /\ ~found
             /\ starting' = "number" /\ changed' = FALSE
             /\ mixed' = mixed \cup (IF Running(loading) THEN {"twin"} ELSE {})
             /\ UNCHANGED opening
    /\ UNCHANGED <<line, ran, started, answer, Processes, killed, NewID, fontVars, loading, own>>

IncrementID ==
    /\ starting = "number" /\ NewID < MaxID
    /\ NewID' = NewID + 1
    /\ starting' = "read"
    /\ UNCHANGED <<line, ran, started, answer, Processes, killed, opening, fontVars,
                   loading, own, changed, mixed>>

ReadID ==
    /\ starting = "read"
    /\ own' = NewID
    /\ starting' = "push"
    /\ UNCHANGED <<line, ran, started, answer, Processes, killed, NewID, opening, fontVars,
                   loading, changed, mixed>>

(* Push raises Size and then stores at its end.  Nothing is replaced: the  *)
(* topbar is not FULLSCREEN, and with the tty there is nothing else.       *)
RaiseSize ==
    /\ starting = "push"
    /\ starting' = "store"
    /\ UNCHANGED <<line, ran, started, answer, Processes, killed, NewID, opening, fontVars,
                   loading, own, changed, mixed>>

(* If the list was changed in between, Size was: another is overwritten, or a place is left *)
(* as it was, which ProcessTable has and this model has not.                                *)
Store ==
    /\ starting = "store"
    /\ \E over \in {{}} \cup (IF changed THEN {{q} : q \in Processes} ELSE {}) :
          Processes' = (Processes \ over) \cup {Process(own, loading)}
    /\ mixed' = mixed \cup (IF changed THEN {"lost"} ELSE {})
    /\ Finish
    /\ UNCHANGED <<line, ran, started, answer, killed, NewID, fontVars, loading, own>>

LoopStarts == OpenAnimation \/ Restart \/ Search \/ IncrementID \/ ReadID \/ RaiseSize \/ Store

ShellNext == \/ \E s \in Lines : Enter(s)
             \/ LoopStarts
             \/ TestFont \/ ReadFont

ShellSpec == ShellInit /\ [][ShellNext]_shellVars

-----------------------------------------------------------------------------
ShellTypeOK == /\ line \in Lines \cup {<<>>}
               /\ ran \in DOMAIN Commands \cup {"none"}
               /\ started \in DOMAIN StartableProcesses \cup {"none"}
               /\ answer \in {0} \cup FirstID .. MaxID
               /\ \A q \in Processes : q = Process(q.id, q.program) /\ q.program \in DOMAIN StartableProcesses
               /\ \A q \in Processes : q.id \in FirstID .. NewID
               /\ NewID \in FirstID .. MaxID
               /\ opening \in BOOLEAN
               /\ SelectedFont \in 0 .. 255
               /\ font \in {"idle", "tested", "beyond"}
               /\ raced \in BOOLEAN
               /\ starting \in {"idle", "search", "number", "read", "push", "store"}
               /\ loading \in {"none", "topbar", "tty"}
               /\ own \in {0} \cup FirstID .. MaxID
               /\ changed \in BOOLEAN /\ mixed \subseteq {"twin", "id", "lost"}

Runs(name) == line # <<>> /\ FirstWord(line) = Commands[name]

(* A command that is typed is the one that runs, and start starts the      *)
(* program that is named: no two names of a table have the same hash.      *)
NamedRuns == /\ \A n \in DOMAIN Commands : Runs(n) => ran = n
             /\ \A p \in DOMAIN StartableProcesses :
                    ran = "start" /\ NextWord(line) = StartableProcesses[p] => started = p

(* kill with an ID as list shows it is for the process of that ID.         *)
KillsListed == \A id \in FirstID .. MaxID :
                   ran = "kill" /\ NextWord(line) = ToString(id) => killed = id

(* The ID that start answers is the one of the program it was to start,    *)
(* which the topbar keeps for a later kill, and of no other, unless a start*)
(* came while the loop had counted NewID up for its own and not yet read   *)
(* it; once a command has come into a Push of the loop the list is not what*)
(* it should be, and nothing is said of it.                                *)
AnswerNamesIt ==
    answer # 0 /\ started # "none" /\ "lost" \notin mixed =>
        /\ Process(answer, started) \in Processes
        /\ \A q \in Processes : q.id = answer => q.program = started \/ "id" \in mixed

(* No program runs twice, unless a command started the one that the loop   *)
(* was starting, or came into its search; one at most has the whole screen.*)
(* Both are said of a list that no Push of the loop has spoilt.            *)
NoneTwice == "lost" \notin mixed =>
             \A q, r \in Processes :
                 /\ q.program = r.program => q = r \/ "twin" \in mixed
                 /\ {q.program, r.program} \subseteq Fullscreen => q = r

\* A number as it is typed: zeroes in front do not count.
IsNumber(s, id) == \E i \in 1 .. Len(s) : SubSeq(s, i, Len(s)) = ToString(id)
                                            /\ \A j \in 1 .. i - 1 : s[j] = 48

(* Of commands and the loop, a process goes only by suicide, by a kill with*)
(* its ID, or as the one on the whole screen that the other such program   *)
(* replaces, unless kill has something else than a number behind it: kill  *)
(* alone is for the process of ID 60, which its last character makes.  A   *)
(* Push of the loop that a command came into may overwrite one.            *)
GoneWasKilled ==
    [][\A q \in Processes \ Processes' :
          \/ ran' = "suicide"
          \/ started' \in Fullscreen /\ q.program \in Fullscreen \ {started'}
          \/ ran' = "kill" /\ IsNumber(NextWord(line'), q.id)
          \/ ran' = "kill" /\ \E i \in DOMAIN NextWord(line') : NextWord(line')[i] \notin 48 .. 57
          \/ "lost" \in mixed']_shellVars

(* Drawing uses a font that there is, unless one was set after the test.   *)
FontExists == font = "beyond" => raced

(* A command does what was typed, to whom it was typed for.                *)
ShellRight == /\ [](ShellTypeOK /\ NamedRuns /\ KillsListed /\ AnswerNamesIt /\ NoneTwice /\ FontExists)
              /\ GoneWasKilled
=============================================================================
