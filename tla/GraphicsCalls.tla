---------------------------- MODULE GraphicsCalls ----------------------------
(***************************************************************************)
(* The primitive calls of software/main/gui/graphics.c.  A call is written *)
(* as the values of the registers it sets: a function of Register, as the  *)
(* controller's own registers are, so that both have the same meaning.     *)
(***************************************************************************)
EXTENDS Integers, Sequences

CONSTANTS
  Cols, Rows,      \* pixels an address can name: 1024 and 512
  Colour           \* palette numbers

ASSUME ScreenAssumption ==
  /\ Cols \in Nat \ {0} /\ Rows \in Nat \ {0} /\ Cols % 2 = 0
  /\ Colour \subseteq Nat /\ 0 \in Colour

Pixel == (0..Cols-1) \X (0..Rows-1)

Register == {"Command", "X1", "Y1", "X2", "Y2", "Colour"}

(* The commands of graphics.h.                                             *)
DrawHLineCmd == 1
DrawVLineCmd == 2
DrawLineCmd == 3
PutAPixelCmd == 10
GetAPixelCmd == 11
ProgramPaletteColour == 16

Call(command, x1, x2, y1, y2, colour) ==
  [Command |-> command, X1 |-> x1, X2 |-> x2, Y1 |-> y1, Y2 |-> y2,
   Colour |-> colour]

WriteAPixel(x, y, colour) == Call(PutAPixelCmd, x, 0, y, 0, colour)
ReadAPixel(x, y) == Call(GetAPixelCmd, x, 0, y, 0, 0)
DrawHLine(x1, x2, y, colour) == Call(DrawHLineCmd, x1, x2, y, 0, colour)
DrawVLine(x, y1, y2, colour) == Call(DrawVLineCmd, x, 0, y1, y2, colour)
DrawLine(x1, x2, y1, y2, colour) == Call(DrawLineCmd, x1, x2, y1, y2, colour)

(* The number goes to the colour register, the halves of the RGB value to  *)
(* the coordinates.                                                        *)
ProgramPalette(number, rgb) ==
  Call(ProgramPaletteColour, rgb \div 2^16, 0, rgb % 2^16, 0, number)

PrimitiveCall ==
  [Command : {DrawHLineCmd, DrawVLineCmd, DrawLineCmd, PutAPixelCmd,
              GetAPixelCmd, ProgramPaletteColour},
   X1 : Nat, X2 : Nat, Y1 : Nat, Y2 : Nat, Colour : Colour]

(* The registers a call writes, in the order it writes them.               *)
Arguments(call) ==
  CASE call.Command = PutAPixelCmd         -> <<"X1", "Y1", "Colour">>
    [] call.Command = GetAPixelCmd         -> <<"X1", "Y1">>
    [] call.Command = ProgramPaletteColour -> <<"Colour", "X1", "Y1">>
    [] call.Command = DrawHLineCmd         -> <<"X1", "X2", "Y1", "Colour">>
    [] call.Command = DrawVLineCmd         -> <<"X1", "Y1", "Y2", "Colour">>
    [] OTHER                               -> <<"X1", "X2", "Y1", "Y2", "Colour">>
=============================================================================
