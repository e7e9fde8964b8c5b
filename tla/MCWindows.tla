----------------------------- MODULE MCWindows -----------------------------
(***************************************************************************)
(* A desktop, a menu and a window on a small screen.                       *)
(***************************************************************************)
EXTENDS Windows

CONSTANTS desktop, menu, window

MCType  == desktop :> "FULLSCREEN" @@ menu :> "FRAMELESSWINDOW" @@ window :> "WINDOWED"
MCSize  == desktop :> <<12, 9>> @@ menu :> <<2, 2>> @@ window :> <<9, 1>>
MCPlace == desktop :> <<0, 0>> @@ menu :> <<1, 5>> @@ window :> <<2, 5>>
MCSpots == {<<9, 3>>, <<4, 3>>, <<6, 3>>, <<2, 6>>, <<10, 7>>}

(* MovingWindowPosDelta is not read but while a window is moved.           *)
MCView == <<list, type, pos, focus, moving,
            IF moving = None THEN <<0, 0>> ELSE delta, redraw, pending, shown>>

MCTitle == [p \in Proc |-> 2]
=============================================================================
