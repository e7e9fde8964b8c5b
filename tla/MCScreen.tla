----------------------------- MODULE MCScreen -----------------------------
(***************************************************************************)
(* The screen: the flags, buffers and cursor of the compositor, and the    *)
(* operations on one frame buffer.  The models share no state, so that     *)
(* their interleavings would add nothing: a behaviour is that of one part, *)
(* and the other stays as it begins.                                       *)
(***************************************************************************)
EXTENDS Compositor, Framebuffer, TLC

CONSTANTS Here, There   \* places of the cursor

VARIABLE part

-----------------------------------------------------------------------------
(* A small buffer with characters of two by two.                           *)
SmallInk == {<<0, 0>>, <<1, 1>>}
SmallCorner == {<<-1, 1>>, <<0, 0>>, <<1, 1>>, <<4, 1>>, <<3, 3>>, <<5, 4>>, <<2, 5>>}

ASSUME FramebufferAssumption

-----------------------------------------------------------------------------
PartInit == /\ part \in {"buffers", "pixels"}
            /\ Init /\ (part # "buffers" => mouse = Origin)
            /\ BufferInit /\ (part # "pixels" => cursor = <<0, 0>>)

partVars  == <<part, vars, bufferVars>>

Alone(p) == part = p /\ UNCHANGED part

PartNext ==
    \/ Alone("buffers") /\ Next /\ UNCHANGED bufferVars
    \/ Alone("pixels") /\ BufferNext /\ UNCHANGED vars

(* The places besides (0, 0) are interchangeable.                          *)
Places == Permutations(Place \ {Origin})

PartSpec == PartInit /\ [][PartNext]_partVars
=============================================================================
