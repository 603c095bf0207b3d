------------------------------- MODULE Canvas -------------------------------
(***************************************************************************)
(* What the graphics hardware promises its callers: each call takes effect *)
(* at once and as a whole, in the order of the calls.                      *)
(***************************************************************************)
EXTENDS Figures

CONSTANT Programs     \* the sequences of calls a program may make

VARIABLES
  screen,     \* the colour of every pixel
  colours,    \* the RGB value of every palette number
  todo,       \* the calls still to be made
  seen        \* the colours read so far

canvasVars == <<screen, colours, todo, seen>>

Init ==
  /\ screen = [p \in Pixel |-> 0]
  /\ colours = [c \in Colour |-> 0]
  /\ todo \in Programs
  /\ seen = <<>>

NextCall ==
  /\ todo # <<>>
  /\ todo' = Tail(todo)
  /\ screen' = Paint(screen, Head(todo))
  /\ colours' = Programmed(colours, Head(todo))
  /\ seen' = seen \o Read(screen, Head(todo))

Spec == Init /\ [][NextCall]_canvasVars
=============================================================================
