---------------------------- MODULE MCCommands ----------------------------
(***************************************************************************)
(* What is typed and what comes of it: the keyboard, the commands of a     *)
(* shell, the tables and the numbers they print, and the calculator's      *)
(* buttons.  The models share no state, so that their interleavings would  *)
(* add nothing: a behaviour is that of one part, and the others stay as    *)
(* they begin.  Those of processes and of fonts are parts of the shell that *)
(* are checked one by one; together they are in the theorem.               *)
(***************************************************************************)
EXTENDS KeyBoard, Shell, Calculator, CommandOutput

VARIABLE part

-----------------------------------------------------------------------------
(* Two digits, five bits for a 32 bit word, so that products overflow it.  *)
MCDigit == {0, 7}

(* Arguments that are a letter, whose value is FontAmount, a number beyond *)
(* a byte, and a digit with a space.                                       *)
MCArgument == {<<108>>, <<51, 48, 48>>, <<54, 32>>}

ASSUME CalcAssumption
ASSUME ShellAssumption
ASSUME OutputAssumption

-----------------------------------------------------------------------------
PartInit == /\ part \in {"keyboard", "calculator", "shell", "fonts", "output", "sysfetch"}
            /\ KeyInit /\ (part # "keyboard" => ~typing)
            /\ CalcInit /\ ShellInit /\ OutputInit
            /\ FetchInit /\ (part # "sysfetch" => field = "Ticks")

partVars == <<part, keyVars, calcVars, shellVars, outVars, fetchVars>>

Alone(p) == part = p /\ UNCHANGED part

PartNext ==
    \/ Alone("keyboard") /\ KeyNext /\ UNCHANGED <<calcVars, shellVars, outVars, fetchVars>>
    \/ Alone("calculator") /\ CalcNext /\ UNCHANGED <<keyVars, shellVars, outVars, fetchVars>>
    \/ Alone("shell") /\ ShellNext /\ UNCHANGED fontVars /\ UNCHANGED <<keyVars, calcVars, outVars, fetchVars>>
    \/ Alone("fonts") /\ ShellNext /\ UNCHANGED <<Processes, loop>> /\ UNCHANGED <<keyVars, calcVars, outVars, fetchVars>>
    \/ Alone("output") /\ OutputNext /\ UNCHANGED <<keyVars, calcVars, shellVars, fetchVars>>
    \/ Alone("sysfetch") /\ FetchNext /\ UNCHANGED <<keyVars, calcVars, shellVars, outVars>>

PartSpec == PartInit /\ [][PartNext]_partVars
=============================================================================
