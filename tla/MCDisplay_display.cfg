SPECIFICATION Spec
INVARIANT TypeOK
INVARIANT DrawnAsMeant
INVARIANT ArgumentsHeld
INVARIANT PaletteWrittenInBlanking
INVARIANT SyncInBlanking
INVARIANT BlankMeansDark
PROPERTY DrawsAsCalled
PROPERTY ProgramEnds
CONSTANTS
  Pictures <- AllPictures
  Cols = 8
  Rows = 8
  Colour = {0, 1, 4}
  B = 1
  C = 1
  D = 1
  E = 1
  P = 1
  Q = 1
  R = 1
  S = 1
  BOLDED_RECT_THICKNESS = 2
  BG_COLOUR = 1
  BLACK = 0
  XRES = 8
  YRES = 8
  FONT2_XPIXELS = 2
  FONT2_YPIXELS = 2
  FONT_SPACING_2 = 3
