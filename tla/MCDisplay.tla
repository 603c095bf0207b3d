------------------------------ MODULE MCDisplay ------------------------------
(***************************************************************************)
(* Small instances of Display for TLC: a screen of a few pixels and the    *)
(* pictures drawn on it, chosen by the configurations MCDisplay_*.cfg.     *)
(***************************************************************************)
EXTENDS Display

CONSTANTS BOLDED_RECT_THICKNESS, BG_COLOUR, BLACK, XRES, YRES,
          FONT2_XPIXELS, FONT2_YPIXELS, FONT_SPACING_2

(* Characters of 2 x 2 pixels for the digits 0 to 2, no two alike.         *)
Font ==
  [c \in 0..2 |-> [bit \in (0..1) \X (0..1) |->
     CASE c = 0 -> TRUE
       [] c = 1 -> bit[2] = 1
       [] c = 2 -> bit[1] = bit[2]]]

Draw == INSTANCE Drawings

Blank(colour) == [p \in Pixel |-> colour]
On(base, pixels, colour) == [p \in Pixel |-> IF p \in pixels THEN colour ELSE base[p]]
PaintAll(base, cs) == Draw!FoldLeft(Paint, base, cs)

----------------------------------------------------------------------------
(* A line as it is meant: at each step of the longer side the pixel whose  *)
(* distance from the ideal line is at most half a pixel, the far one of    *)
(* two equally near.                                                       *)
Ideal(x1, x2, y1, y2) ==
  LET dx == Span(x2 - x1)
      dy == Span(y2 - y1)
      long == Larger(dx, dy)
      short == IF dx > dy THEN dy ELSE dx
      near(k, m) == LET off == 2 * (m * long - k * short)
                    IN  -long < off /\ off <= long
  IN  {<<x1 + Way(x2 - x1) * s[1], y1 + Way(y2 - y1) * s[2]>> :
         s \in {t \in (0..dx) \X (0..dy) :
                  IF dy > dx THEN t[2] < dy /\ near(t[2], t[1])
                             ELSE t[1] < dx /\ near(t[1], t[2])}}

Spread == {0, 1, 4, 6, 7}
HardwareLines ==
  {[calls |-> <<DrawLine(3, x, 3, y, 1)>>,
    meant |-> On(Blank(0), Ideal(3, x, 3, y), 1)] : x \in Spread, y \in Spread}
SoftwareLines ==
  {[calls |-> Draw!Line(3, 3, e[1], e[2], 1),
    meant |-> On(Blank(0), Ideal(3, e[1], 3, e[2]), 1)] :
      e \in {<<7, 5>>, <<0, 2>>, <<5, 0>>, <<3, 3>>}}

(* A button is pressed and released on a white screen.                     *)
Button == [x1 |-> 3, x2 |-> 4, y1 |-> 3, y2 |-> 4, colour |-> BLACK]
PressedAndReleased ==
  [calls |-> Draw!clear_screen \o Draw!draw_rectangle(Button, "EMPTY")
             \o Draw!draw_rectangle(Button, "BOLDED") \o Draw!reset_button(Button),
   meant |-> PaintAll(Blank(BG_COLOUR), Draw!draw_rectangle(Button, "EMPTY"))]

(* A counter goes from 20 to 12.                                           *)
Digits(a, b) ==
  {<<1 + q[2], 2 + q[1]>> : q \in {r \in (0..1) \X (0..1) : Font[a][r]}}
  \cup {<<1 + FONT_SPACING_2 + q[2], 2 + q[1]>> : q \in {r \in (0..1) \X (0..1) : Font[b][r]}}
Cells == ({1, 2} \cup {1 + FONT_SPACING_2, 2 + FONT_SPACING_2}) \X {2, 3}
CounterGoesOn ==
  [calls |-> Draw!draw_counter([x |-> 1, y |-> 2], 20)
             \o Draw!draw_counter([x |-> 1, y |-> 2], 12),
   meant |-> On(On(Blank(0), Cells, BG_COLOUR), Digits(1, 2), BLACK)]

(* A camera image with pixels at the threshold: 7+1+1, 7+0+1, 0+7+2, ...   *)
Camera == [p \in {0} \X (0..7) |-> <<229, 225, 30, 29, 255, 0, 255, 224>>[p[2] + 1]]
SilhouetteShown ==
  [calls |-> Draw!draw_silhouette(0, 5, 8, 1, Camera),
   meant |-> On(Blank(0), {<<x, 5>> : x \in {1, 3, 5, 7}}, BG_COLOUR)]

(* The palette is programmed, a box filled, straight lines drawn, a pixel  *)
(* of each colour read back.                                               *)
Mixed ==
  [calls |-> Draw!initialize_colour_space(<<0, 16777215>>)
             \o Draw!draw_rectangle([x1 |-> 1, x2 |-> 4, y1 |-> 2, y2 |-> 4, colour |-> 1], "FILLED")
             \o <<ReadAPixel(4, 3), ReadAPixel(4, 4)>>
             \o Draw!HLine(5, 1, 2, 1) \o Draw!VLine(7, 5, 2, 1)
             \o Draw!draw_line([x |-> 0, y |-> 7, len |-> 3, colour |-> 1], "HORIZONTAL"),
   meant |-> On(Blank(0), (1..4) \X {2, 3} \cup {<<5, 1>>, <<6, 1>>}
                          \cup {<<7, 5>>, <<7, 6>>} \cup (0..3) \X {7}, 1)]

(* The screen the program starts with: labels lie on top of the buttons,   *)
(* lines and counters beside them.                                         *)
Gui ==
  LET start == [x1 |-> 1, x2 |-> 4, y1 |-> 0, y2 |-> 3, colour |-> 4]
      stop  == [x1 |-> 5, x2 |-> 6, y1 |-> 0, y2 |-> 1, colour |-> 4]
  IN  [colours |-> <<255>>, AUTO_SORT_BTN |-> start, STOP_BTN |-> stop,
       boxes |-> <<start, stop>>,
       labels |-> <<[x |-> 2, y |-> 1, colour |-> BLACK, text |-> <<2>>]>>,
       counters |-> <<[x |-> 1, y |-> 4]>>,
       CENTER_LINE |-> [x |-> 7, y |-> 1, len |-> 0, colour |-> BLACK],
       TOP_RIGHT_LINE |-> [x |-> 0, y |-> 6, len |-> 5, colour |-> BLACK],
       BTM_RIGHT_LINE |-> [x |-> 2, y |-> 7, len |-> 3, colour |-> BLACK]]
FirstScreen ==
  [calls |-> Draw!clear_screen \o Draw!draw_screen(Gui),
   meant |-> On(PaintAll(Blank(BG_COLOUR),
                         Draw!draw_rectangle(Gui.AUTO_SORT_BTN, "FILLED")
                         \o Draw!draw_rectangle(Gui.STOP_BTN, "FILLED")
                         \o Draw!draw_rectangle(Gui.AUTO_SORT_BTN, "EMPTY")
                         \o Draw!draw_rectangle(Gui.STOP_BTN, "EMPTY")),
                {<<2, 1>>, <<3, 2>>} \cup {1, 2, 4, 5} \X {4, 5}
                \cup {<<7, 1>>} \cup (0..5) \X {6} \cup (2..5) \X {7}, BLACK)]

AllPictures ==
  HardwareLines \cup SoftwareLines
  \cup {FirstScreen, PressedAndReleased, CounterGoesOn, SilhouetteShown, Mixed}

----------------------------------------------------------------------------
(* A rectangle as its comment has it: the outline of x1..x2, y1..y2.       *)
Outline(r) ==
  {p \in (r.x1..r.x2) \X (r.y1..r.y2) :
     p[1] \in {r.x1, r.x2} \/ p[2] \in {r.y1, r.y2}}
Box == [x1 |-> 1, x2 |-> 5, y1 |-> 2, y2 |-> 6, colour |-> 1]
RectanglePicture ==
  {[calls |-> Draw!draw_rectangle(Box, "EMPTY"),
    meant |-> On(Blank(0), Outline(Box), 1)]}
=============================================================================
