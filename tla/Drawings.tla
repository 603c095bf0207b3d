------------------------------ MODULE Drawings ------------------------------
(***************************************************************************)
(* The figures of software/main/gui: each function is the sequence of      *)
(* primitive calls it makes.  A bitmap (a character of Font2, a camera     *)
(* image) is the function of its set bits.                                 *)
(***************************************************************************)
EXTENDS GraphicsCalls, SequencesExt, Functions

CONSTANTS BOLDED_RECT_THICKNESS,    \* 3
          BG_COLOUR, BLACK,         \* white and black
          XRES, YRES,
          Font,                     \* a bitmap for each character
          FONT2_XPIXELS, FONT2_YPIXELS, FONT_SPACING_2

(* The calls of a for loop.                                                *)
Loop(first, last, body(_)) ==
  FlattenSeq([i \in 1..(last - first + 1) |-> body(first + i - 1)])

Rectangle(x1, x2, y1, y2, colour) ==
  <<DrawHLine(x1, x2, y1, colour), DrawHLine(x1, x2, y2, colour),
    DrawVLine(x1, y1, y2, colour), DrawVLine(x2, y1, y2, colour)>>

FilledRectangle(x1, x2, y1, y2, colour) ==
  Loop(y1, y2 - 1, LAMBDA y : <<DrawHLine(x1, x2, y, colour)>>)

BoldedRectangle(x1, x2, y1, y2, thickness, colour) ==
  Loop(0, thickness - 1,
       LAMBDA i : Rectangle(x1 - i, x2 + i, y1 - i, y2 + i, colour))

(* rect is a record [x1, x2, y1, y2, colour].                              *)
draw_rectangle(rect, fill) ==
  CASE fill = "EMPTY"  -> Rectangle(rect.x1, rect.x2, rect.y1, rect.y2, rect.colour)
    [] fill = "FILLED" -> FilledRectangle(rect.x1, rect.x2, rect.y1, rect.y2, rect.colour)
    [] fill = "BOLDED" -> BoldedRectangle(rect.x1, rect.x2, rect.y1, rect.y2,
                                          BOLDED_RECT_THICKNESS, BLACK)

(* Mutant: only the innermost ring is cleared.                             *)
clear_bolded_rectangle_Thin(rect) ==
  BoldedRectangle(rect.x1, rect.x2, rect.y1, rect.y2, 1, BG_COLOUR)

clear_bolded_rectangle(rect) ==
  BoldedRectangle(rect.x1, rect.x2, rect.y1, rect.y2, BOLDED_RECT_THICKNESS, BG_COLOUR)

reset_button(rect) == clear_bolded_rectangle(rect) \o draw_rectangle(rect, "EMPTY")

draw_line(line, direction) ==
  IF direction = "HORIZONTAL"
  THEN <<DrawHLine(line.x, line.x + line.len, line.y, line.colour)>>
  ELSE <<DrawVLine(line.x, line.y, line.y + line.len, line.colour)>>

(* colours: the entries of ColourPaletteData that are programmed.          *)
initialize_colour_space(colours) ==
  [i \in 1..Len(colours) |-> ProgramPalette(i - 1, colours[i])]

clear_screen == Loop(0, YRES - 1, LAMBDA y : <<DrawHLine(0, XRES - 1, y, BG_COLOUR)>>)

----------------------------------------------------------------------------
(* The software lines.                                                     *)
HLine(x1, y1, length, colour) ==
  Loop(x1, x1 + length - 1, LAMBDA i : <<WriteAPixel(i, y1, colour)>>)

VLine(x1, y1, length, colour) ==
  Loop(y1, y1 + length - 1, LAMBDA i : <<WriteAPixel(x1, i, colour)>>)

abs(a) == IF a < 0 THEN -a ELSE a
sign(a) == IF a < 0 THEN -1 ELSE IF a = 0 THEN 0 ELSE 1

(* state[i] is the point and the error the i-th pass of the main loop      *)
(* starts with.  The inner loop takes 2 * dx off the error until it is     *)
(* negative: error \div (2 * dx) + 1 times, for an error that is not.      *)
Line(x1, y1, x2, y2, colour) ==
  LET interchange == abs(y2 - y1) > abs(x2 - x1)
      dx == IF interchange THEN abs(y2 - y1) ELSE abs(x2 - x1)
      dy == IF interchange THEN abs(x2 - x1) ELSE abs(y2 - y1)
      s1 == sign(x2 - x1)
      s2 == sign(y2 - y1)
      inner(error) == IF error >= 0 THEN error \div (2 * dx) + 1 ELSE 0
      pass(st) ==
        LET n == inner(st.error)
        IN  [x |-> st.x + (IF interchange THEN n * s1 ELSE s1),
             y |-> st.y + (IF interchange THEN s2 ELSE n * s2),
             error |-> st.error - 2 * dx * n + 2 * dy]
      state[i \in 1..dx] ==
        IF i = 1 THEN [x |-> x1, y |-> y1, error |-> 2 * dy - dx]
                 ELSE pass(state[i - 1])
  IN  [i \in 1..dx |-> WriteAPixel(state[i].x, state[i].y, colour)]

----------------------------------------------------------------------------
(* A character is drawn only if it is printable and starts on the screen;  *)
(* the pixels between its bits are erased or left alone.                   *)
OutGraphicsCharFont2(x, y, colour, background, c, erase) ==
  IF x > XRES - 1 \/ y > YRES - 1 \/ c \notin DOMAIN Font
  THEN <<>>
  ELSE Loop(0, FONT2_YPIXELS - 1, LAMBDA row :
         Loop(0, FONT2_XPIXELS - 1, LAMBDA column :
           IF Font[c][row, column]
           THEN <<WriteAPixel(x + column, y + row, colour)>>
           ELSE IF erase
           THEN <<WriteAPixel(x + column, y + row, background)>>
           ELSE <<>>))

WriteStringFont2(x, y, colour, background, string, erase) ==
  Loop(1, Len(string), LAMBDA i :
    OutGraphicsCharFont2(x + (i - 1) * FONT_SPACING_2, y, colour, background,
                         string[i], erase))

(* Two digits, the first of them 0 below ten.                              *)
draw_counter(p, count) ==
  WriteStringFont2(p.x, p.y, BLACK, BG_COLOUR,
                   <<count \div 10, count % 10>>, TRUE)

draw_text(txt) ==
  WriteStringFont2(txt.x, txt.y, txt.colour, BLACK, txt.text, FALSE)

reset_counters(locations) ==
  Loop(1, Len(locations), LAMBDA i : draw_counter(locations[i], 0))

(* gui: the buttons, boxes, labels, counters and lines of gui.h and gui.c. *)
draw_screen(gui) ==
  initialize_colour_space(gui.colours)
  \o draw_rectangle(gui.AUTO_SORT_BTN, "FILLED")
  \o draw_rectangle(gui.STOP_BTN, "FILLED")
  \o Loop(1, Len(gui.boxes), LAMBDA i : draw_rectangle(gui.boxes[i], "EMPTY"))
  \o Loop(1, Len(gui.labels), LAMBDA i : draw_text(gui.labels[i]))
  \o reset_counters(gui.counters)
  \o draw_line(gui.CENTER_LINE, "VERTICAL")
  \o draw_line(gui.TOP_RIGHT_LINE, "HORIZONTAL")
  \o draw_line(gui.BTM_RIGHT_LINE, "HORIZONTAL")

(* OutGraphicsImage: every pixel is drawn, in the colour of its own entry  *)
(* of the map or in the background.                                        *)
OutGraphicsImage(x, y, x_size, y_size, img, colour_map) ==
  Loop(0, y_size - 1, LAMBDA row :
    Loop(0, x_size - 1, LAMBDA column :
      <<WriteAPixel(x + column, y + row,
          IF img[row, column] THEN colour_map[row * x_size + column] ELSE BG_COLOUR)>>))

(* draw_silhouette: a camera pixel is 3 bits of red, 3 of green and 2 of   *)
(* blue; bright ones are set.                                              *)
Bright(pixel) == ((pixel \div 32) % 8) + ((pixel \div 4) % 8) + (pixel % 4) > 8
Silhouette(camera) == [p \in DOMAIN camera |-> Bright(camera[p])]
draw_silhouette(x, y, size_x, size_y, camera) ==
  OutGraphicsImage(x, y, size_x, size_y, Silhouette(camera),
                   [i \in 0..(size_x * size_y - 1) |-> BLACK])
=============================================================================
