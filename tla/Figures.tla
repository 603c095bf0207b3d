------------------------------ MODULE Figures ------------------------------
(***************************************************************************)
(* What the primitive calls mean, in closed form: the pixels of each, the  *)
(* palette entry it programs, the colour it reads.  A line has a pixel for *)
(* every step of its longer side but the last, the nearest to the ideal    *)
(* line.                                                                   *)
(***************************************************************************)
EXTENDS GraphicsCalls

Clip(x, y) == <<x % Cols, y % Rows>>

Larger(a, b) == IF a > b THEN a ELSE b
Span(a) == IF a < 0 THEN -a ELSE a
Way(a) == IF a < 0 THEN -1 ELSE IF a = 0 THEN 0 ELSE 1

LinePixels(c) ==
  LET dx == c.X2 - c.X1
      dy == c.Y2 - c.Y1
      long == Larger(Span(dx), Span(dy))
      minor(d, k) == Way(d) * ((2 * Span(d) * k + long) \div (2 * long))
  IN  {IF Span(dy) > Span(dx)
         THEN Clip(c.X1 + minor(dx, k), c.Y1 + k * Way(dy))
         ELSE Clip(c.X1 + k * Way(dx), c.Y1 + minor(dy, k)) : k \in 0..long-1}

(* A vertical line has its pixels in the pair of columns of X1, in odd     *)
(* rows in the odd column and in even rows in the even one.                *)
PixelsOf(c) ==
  CASE c.Command = PutAPixelCmd -> {Clip(c.X1, c.Y1)}
    [] c.Command = DrawHLineCmd -> {Clip(x, c.Y1) : x \in c.X1..Larger(c.X1, c.X2)}
    [] c.Command = DrawVLineCmd ->
         {Clip(c.X1 - (c.X1 % 2) + (y % 2), y) : y \in c.Y1..Larger(c.Y1, c.Y2)}
    [] c.Command = DrawLineCmd  -> LinePixels(c)
    [] OTHER                    -> {}

Paint(s, c) ==
  LET drawn == PixelsOf(c)
  IN  [p \in DOMAIN s |-> IF p \in drawn THEN c.Colour ELSE s[p]]

Programmed(s, c) ==
  IF c.Command = ProgramPaletteColour
  THEN [s EXCEPT ![c.Colour] = c.X1 * 2^16 + c.Y1]
  ELSE s

Read(s, c) ==
  IF c.Command = GetAPixelCmd THEN <<s[Clip(c.X1, c.Y1)]>> ELSE <<>>
=============================================================================
