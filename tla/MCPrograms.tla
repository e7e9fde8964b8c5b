---------------------------- MODULE MCPrograms ----------------------------
(***************************************************************************)
(* What interrupts do to the main code of a process: the stack of requests,*)
(* tty's command line, tetris, and the string that both of the former use. *)
(* The models share no state, so that their interleavings would add        *)
(* nothing: a behaviour is that of one part, and the others stay as they   *)
(* begin.                                                                  *)
(***************************************************************************)
EXTENDS RequestStack, CommandLine, Tetris, GrowingString

VARIABLE part

ASSUME TtyAssumption
ASSUME GridAssumption /\ CounterAssumption
ASSUME PiecesAssumption /\ TypesAssumption /\ StartAssumption
ASSUME BlockAssumption /\ SizeAssumption

-----------------------------------------------------------------------------
PartInit == /\ part \in {"requests", "tty", "tetris", "string"}
            /\ Init
            /\ TtyInit /\ (part # "tty" => Text = <<Output(0, 1, 0)>> /\ ~windowed)
            /\ GameInit
            /\ StringInit /\ (part # "string" => \A b \in Block : zeros[b] = {})

partVars == <<part, vars, ttyVars, gameVars, stringVars>>

Alone(p) == part = p /\ UNCHANGED part

PartNext ==
    \/ Alone("requests") /\ Next /\ UNCHANGED <<ttyVars, gameVars, stringVars>>
    \/ Alone("tty") /\ TtyNext /\ UNCHANGED <<vars, gameVars, stringVars>>
    \/ Alone("tetris") /\ GameNext /\ UNCHANGED <<vars, ttyVars, stringVars>>
    \/ Alone("string") /\ StringNext /\ UNCHANGED <<vars, ttyVars, gameVars>>

(* Main code of one process goes on, whatever interrupts do.               *)
PartSpec ==
    /\ PartInit /\ [][PartNext]_partVars
    /\ WF_vars(part = "requests" /\ Main)
    /\ WF_ttyVars(part = "tty" /\ DrawText)
    /\ WF_gameVars(part = "tetris" /\ Draw)
    /\ WF_stringVars(part = "string" /\ MainCode)

-----------------------------------------------------------------------------
(* Whatever main code has begun it ends: requests are served, outputs      *)
(* appear, lines are cleared and a string is printed.                      *)
WorkEnds == /\ Drained
            /\ part = "tty" => OutputAppears
            /\ part = "tetris" => ClearEnds
            /\ part = "string" => PrintEnds
=============================================================================
