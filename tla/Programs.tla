------------------------------ MODULE Programs ------------------------------
(***************************************************************************)
(* The programs of Electric_OS as the process handler sees them: the type  *)
(* and depth their INIT message asks for and what they may answer to the   *)
(* other messages.  What they draw and compute is left out; the processes  *)
(* their handlers start and kill are actions of ProcessHandler.            *)
(***************************************************************************)
EXTENDS Integers

CONSTANTS Installed,      \* the shipped programs this instance has
          Guests,         \* programs written against STL/Process.h
          GuestRequests   \* the answers they may give, to any message

Shipped == {"tty", "desktop", "topbar", "systemmenu", "startmenu",
            "terminal", "calculator", "tetris"}

(* STL/Process/Process.h: the requests, the window types. *)
Request == {"SUCCESS", "RESET", "CLEAR", "DRAW", "KILL"}
Type    == {"FULLSCREEN", "WINDOWED", "FRAMELESSWINDOW", "MINIMIZED"}

ASSUME ProgramsAssumption == /\ "tty" \in Installed
                             /\ Installed \subseteq Shipped
                             /\ "desktop" \in Installed => "topbar" \in Installed
                             /\ Guests \cap (Shipped \cup {"none"}) = {}
                             /\ GuestRequests \subseteq Request

Program == Installed \cup Guests

(* A Procedure: type and depth are what INIT asks for; tick, key, mouse and*)
(* draw are the answers to these messages while no animation plays; opening*)
(* is the number of frames of the animation that INIT starts.              *)
Quiet   == [type  |-> "WINDOWED", depth |-> 1, opening |-> "none",
            tick  |-> {"SUCCESS"}, key  |-> {"SUCCESS"},
            mouse |-> {"SUCCESS"}, draw |-> {"SUCCESS"}]

Tty        == [Quiet EXCEPT !.type = "FULLSCREEN", !.depth = 0,
                            !.tick = {"SUCCESS", "DRAW"}, !.key = {"DRAW"}]
Desktop    == [Quiet EXCEPT !.type = "FULLSCREEN", !.depth = 0, !.opening = "many"]
Topbar     == [Quiet EXCEPT !.type = "FRAMELESSWINDOW", !.opening = "many",
                            !.tick = {"SUCCESS", "DRAW"}, !.mouse = {"DRAW"}]
SystemMenu == [Quiet EXCEPT !.type = "FRAMELESSWINDOW", !.opening = "one",
                            !.mouse = {"RESET", "DRAW"}]
StartMenu  == [Quiet EXCEPT !.type = "FRAMELESSWINDOW", !.opening = "one",
                            !.mouse = {"DRAW"}]
Terminal   == [Quiet EXCEPT !.tick = {"SUCCESS", "DRAW"}, !.key = {"DRAW"}]
Calculator == [Quiet EXCEPT !.key = {"DRAW"}, !.mouse = {"DRAW"}]
Tetris     == [Quiet EXCEPT !.tick = {"SUCCESS", "DRAW"}, !.key = {"DRAW"},
                            !.mouse = {"DRAW"}, !.draw = {"SUCCESS", "DRAW"}]
Guest      == [Quiet EXCEPT !.tick = GuestRequests, !.key = GuestRequests,
                            !.mouse = GuestRequests, !.draw = GuestRequests]

Procedure(p) ==
    CASE p = "tty"        -> Tty
      [] p = "desktop"    -> Desktop
      [] p = "topbar"     -> Topbar
      [] p = "systemmenu" -> SystemMenu
      [] p = "startmenu"  -> StartMenu
      [] p = "terminal"   -> Terminal
      [] p = "calculator" -> Calculator
      [] p = "tetris"     -> Tetris
      [] OTHER            -> Guest

InitType(p)  == Procedure(p).type
InitDepth(p) == Procedure(p).depth
Animated     == {p \in Program : Procedure(p).opening # "none"}

(* The answers, playing telling whether the opening animation still runs   *)
(* and ended whether this frame was its last.                              *)
TickReplies(p, playing) == IF playing THEN {"DRAW"} ELSE Procedure(p).tick
DrawReplies(p, ended)   == IF ended THEN {"DRAW"} ELSE Procedure(p).draw
KeyReplies(p)           == Procedure(p).key
MouseReplies(p)         == Procedure(p).mouse
ClearReplies(p)         == IF p \in Guests THEN GuestRequests ELSE {"SUCCESS"}
KillReplies(p)          == IF p \in Guests THEN GuestRequests ELSE {"SUCCESS"}

MayEnd(p, playing)  == playing /\ Procedure(p).opening # "none"
MustEnd(p, playing) == playing /\ Procedure(p).opening = "one"

(* Programs a handler may start from its message: a typed command line, a  *)
(* button of the start menu.                                               *)
CommandLine      == {"tty", "terminal"}
StartMenuEntries == Installed \cap {"calculator", "terminal", "tetris"}
=============================================================================
