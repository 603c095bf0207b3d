------------------------- MODULE GraphicsController -------------------------
(***************************************************************************)
(* GraphicsController.vhd and the video memory it writes: every operator   *)
(* that primes variables is one process or one state of the design, all of *)
(* them take the same clock edge (GraphicsClock).                          *)
(*                                                                         *)
(* The load enables of the working registers have no default in the        *)
(* process that drives them, so they are latches; every path back to Idle  *)
(* leaves them off, and a state is modelled by the registers it loads.     *)
(* The background colour, which nothing reads, is left out; coordinates    *)
(* are far from the limits of their 16 bits.                               *)
(***************************************************************************)
EXTENDS Bridge, LcdTiming, GraphicsCalls

VARIABLES
  regs,               \* the registers the processor writes
  CommandWritten_H, Idle_H, CurrentState,
  w,                  \* working registers X, Y, dX, ... of the line states
  sram,               \* output registers to the video memory
  frame,              \* the video memory: a colour for each pixel
  sram_q,             \* its output: the two pixels of the address
  Colour_Latch,
  pallette_port,      \* output registers to the palette memory
  palette             \* the palette: number -> RGB

controllerRegs ==
  <<regs, CommandWritten_H, Idle_H, CurrentState, w, sram, frame, sram_q,
    Colour_Latch, pallette_port, palette>>

State == {"Idle", "ProcessCommand", "PalletteReProgram", "DrawPixel",
          "ReadPixel", "ReadPixel1", "ReadPixel2",
          "DrawHline", "DrawHline1", "DrawHline2",
          "DrawVline", "DrawVline1", "DrawVline2",
          "DrawLine", "DrawLine1", "DrawLine2", "DrawLine3", "DrawLine4",
          "DrawLine5", "DrawLine6"}

NoWork == [X |-> 0, Y |-> 0, dX |-> 0, dY |-> 0, s1 |-> 0, s2 |-> 0,
           Interchange |-> FALSE, Err |-> 0, Counter |-> 0,
           SwapX |-> 0, SwapY |-> 0]
NoAccess == [write |-> FALSE, x |-> 0, y |-> 0, colour |-> 0]
NoEntry == [write |-> FALSE, number |-> 0, rgb |-> 0]

GraphicsTypeOK ==
  /\ regs \in [Register -> Int]
  /\ CommandWritten_H \in BOOLEAN /\ Idle_H \in BOOLEAN
  /\ CurrentState \in State
  /\ w \in [X : Int, Y : Int, dX : Nat, dY : Nat,
            s1 : {-1, 0, 1}, s2 : {-1, 0, 1}, Interchange : BOOLEAN,
            Err : Int, Counter : Nat, SwapX : Nat, SwapY : Nat]
  /\ sram \in [write : BOOLEAN, x : 0..Cols-1, y : 0..Rows-1, colour : Int]
  /\ frame \in [Pixel -> Colour]
  /\ sram_q \in Colour \X Colour
  /\ Colour_Latch \in Colour
  /\ pallette_port \in [write : BOOLEAN, number : Int, rgb : Int]
  /\ palette \in [Colour -> Int]

GraphicsInit ==
  /\ regs = [r \in Register |-> IF r = "Colour" THEN 4 ELSE 0]
  /\ CommandWritten_H = TRUE
  /\ Idle_H = TRUE
  /\ CurrentState = "Idle"
  /\ w = NoWork
  /\ sram = NoAccess
  /\ frame = [p \in Pixel |-> 0]
  /\ sram_q = <<0, 0>>
  /\ Colour_Latch = 0
  /\ pallette_port = NoEntry
  /\ palette = [c \in Colour |-> 0]

----------------------------------------------------------------------------
(* The registers the processor writes and the status it reads.             *)
LoadRegisters ==
  regs' = [r \in Register |-> IF Writes(r) THEN bus.data ELSE regs[r]]

CommandWritten ==
  CommandWritten_H' = \/ Writes("Command")
                      \/ CommandWritten_H /\ CurrentState # "ProcessCommand"

(* Mutant: Idle does not clear the busy status.                            *)
BusyIdle_NotCleared == Idle_H' = (Idle_H /\ CurrentState # "ProcessCommand")

(* Mutant: the status says idle while a command waits in ProcessCommand,   *)
(* and busy only while a figure is half drawn.                             *)
BusyIdle_Early == Idle_H' = (CurrentState \notin {"DrawHline", "DrawHline1"})

BusyIdle ==
  Idle_H' = (CurrentState # "ProcessCommand" /\ (Idle_H \/ CurrentState = "Idle"))

(* The value on the bus while the processor reads.                         *)
DataOutToCPU ==
  IF bus.reg = "Command" THEN (IF Idle_H THEN 1 ELSE 0) ELSE Colour_Latch

----------------------------------------------------------------------------
(* The memories.  An address names the pair of pixels at an even column;   *)
(* a write enables the byte of one of the two.                             *)
VideoMemory ==
  /\ frame' = IF sram.write THEN [frame EXCEPT ![<<sram.x, sram.y>>] = sram.colour]
                            ELSE frame
  /\ LET pair == sram.x - (sram.x % 2)
     IN  sram_q' = <<frame[<<pair, sram.y>>], frame[<<pair + 1, sram.y>>]>>

(* One entry is written in a clock.  Its first contents, which come from a *)
(* file beside the code, are zeros here: no property is about them.        *)
PaletteMemory ==
  palette' = IF pallette_port.write
               THEN [palette EXCEPT ![pallette_port.number] = pallette_port.rgb]
               ELSE palette

(* The output registers: the byte is the low bit of select.                *)
Access(write, x, y, select) ==
  sram' = [write |-> write, x |-> ((x % Cols) - (x % 2)) + (select % 2),
           y |-> y % Rows, colour |-> IF write THEN regs["Colour"] ELSE 0]
Plots(x, y) == Access(TRUE, x, y, x)
NoPlot == sram' = NoAccess

----------------------------------------------------------------------------
(* The states: what each puts into the output and working registers.       *)
In(state, next) == CurrentState = state /\ CurrentState' = next

(* Not before the bus has let go of the command register.                  *)
Leaves == CommandWritten_H /\ ~enable
AtIdle ==
  /\ In("Idle", IF Leaves THEN "ProcessCommand" ELSE "Idle")
  /\ NoPlot /\ UNCHANGED w

FirstState(command) ==
  CASE command = PutAPixelCmd         -> "DrawPixel"
    [] command = GetAPixelCmd         -> "ReadPixel"
    [] command = ProgramPaletteColour -> "PalletteReProgram"
    [] command = DrawHLineCmd         -> "DrawHline"
    [] command = DrawVLineCmd         -> "DrawVline"
    [] command = DrawLineCmd          -> "DrawLine"
    [] OTHER                          -> "Idle"
AtProcessCommand ==
  /\ In("ProcessCommand", FirstState(regs["Command"]))
  /\ NoPlot /\ UNCHANGED w

AtPalletteReProgram ==
  /\ In("PalletteReProgram", IF V_Sync_out THEN "PalletteReProgram" ELSE "Idle")
  /\ NoPlot /\ UNCHANGED w

AtDrawPixel ==
  /\ In("DrawPixel", "Idle")
  /\ Plots(regs["X1"], regs["Y1"]) /\ UNCHANGED w

(* Mutant: the colour is taken without the wait for the synchronous RAM.   *)
AtReadPixel_NoWait ==
  /\ \/ /\ In("ReadPixel", "ReadPixel2")
        /\ Access(FALSE, regs["X1"], regs["Y1"], 0)
     \/ In("ReadPixel2", "Idle") /\ NoPlot
  /\ UNCHANGED w

AtReadPixel ==
  /\ \/ /\ In("ReadPixel", "ReadPixel1")
        /\ Access(FALSE, regs["X1"], regs["Y1"], 0)
     \/ In("ReadPixel1", "ReadPixel2") /\ NoPlot
     \/ In("ReadPixel2", "Idle") /\ NoPlot
  /\ UNCHANGED w

AtDrawHline ==
  \/ /\ In("DrawHline", "DrawHline1")
     /\ w' = [w EXCEPT !.X = regs["X1"]] /\ NoPlot
  \/ /\ In("DrawHline1", "DrawHline2")
     /\ Plots(w.X, regs["Y1"]) /\ UNCHANGED w
  \/ /\ w.X < regs["X2"] /\ In("DrawHline2", "DrawHline1")
     /\ w' = [w EXCEPT !.X = @ + 1] /\ NoPlot
  \/ /\ w.X >= regs["X2"] /\ In("DrawHline2", "Idle")
     /\ NoPlot /\ UNCHANGED w

AtDrawVline ==
  \/ /\ In("DrawVline", "DrawVline1")
     /\ w' = [w EXCEPT !.Y = regs["Y1"]] /\ NoPlot
  \/ /\ In("DrawVline1", "DrawVline2")
     /\ Access(TRUE, regs["X1"], w.Y, w.Y) /\ UNCHANGED w
  \/ /\ w.Y < regs["Y2"] /\ In("DrawVline2", "DrawVline1")
     /\ w' = [w EXCEPT !.Y = @ + 1] /\ NoPlot
  \/ /\ w.Y >= regs["Y2"] /\ In("DrawVline2", "Idle")
     /\ NoPlot /\ UNCHANGED w

----------------------------------------------------------------------------
(* Bresenham's line: the states DrawLine to DrawLine6.                     *)
Magnitude(a) == IF a < 0 THEN -a ELSE a
Sign(a) == IF a < 0 THEN -1 ELSE IF a = 0 THEN 0 ELSE 1

LineSetUp ==
  LET dx == regs["X2"] - regs["X1"]
      dy == regs["Y2"] - regs["Y1"]
  IN  /\ In("DrawLine", "DrawLine1")
      /\ w' = [w EXCEPT !.X = regs["X1"], !.Y = regs["Y1"],
                        !.dX = Magnitude(dx), !.dY = Magnitude(dy),
                        !.s1 = Sign(dx), !.s2 = Sign(dy),
                        !.Interchange = FALSE, !.Counter = 1]
      /\ NoPlot

LineSwap ==
  \/ /\ In("DrawLine1", IF w.dX = 0 /\ w.dY = 0 THEN "Idle" ELSE "DrawLine2")
     /\ w' = IF w.dY > w.dX
               THEN [w EXCEPT !.SwapX = w.dX, !.SwapY = w.dY, !.Interchange = TRUE]
               ELSE w
     /\ NoPlot
  \/ /\ In("DrawLine2", "DrawLine3")
     /\ w' = IF w.Interchange THEN [w EXCEPT !.dX = w.SwapY, !.dY = w.SwapX] ELSE w
     /\ NoPlot

LineError ==
  /\ In("DrawLine3", "DrawLine4")
  /\ w' = [w EXCEPT !.Err = 2 * w.dY - w.dX]
  /\ NoPlot

LinePlot ==
  \/ /\ w.Counter <= w.dX /\ In("DrawLine4", "DrawLine5")
     /\ w' = [w EXCEPT !.Counter = @ + 1] /\ Plots(w.X, w.Y)
  \/ /\ w.Counter > w.dX /\ In("DrawLine4", "Idle")
     /\ NoPlot /\ UNCHANGED w

(* One step along the minor axis for each time the error is not negative,  *)
(* then one along the major axis.                                          *)
MinorStep(r) == IF r.Interchange THEN [r EXCEPT !.X = @ + r.s1] ELSE [r EXCEPT !.Y = @ + r.s2]
MajorStep(r) == IF r.Interchange THEN [r EXCEPT !.Y = @ + r.s2] ELSE [r EXCEPT !.X = @ + r.s1]

LineSteps ==
  /\ \/ /\ w.Err >= 0 /\ In("DrawLine5", "DrawLine5")
        /\ w' = [MinorStep(w) EXCEPT !.Err = @ - 2 * w.dX]
     \/ w.Err < 0 /\ In("DrawLine5", "DrawLine6") /\ UNCHANGED w
     \/ /\ In("DrawLine6", "DrawLine4")
        /\ w' = [MajorStep(w) EXCEPT !.Err = @ + 2 * w.dY]
  /\ NoPlot

AtDrawLine == LineSetUp \/ LineSwap \/ LineError \/ LinePlot \/ LineSteps

----------------------------------------------------------------------------
(* The outputs that only one state drives.                                 *)
(* Mutant: written without waiting for the vertical sync.                  *)
PaletteOutput_AnyTime ==
  pallette_port' = IF CurrentState = "PalletteReProgram"
                     THEN [write |-> TRUE, number |-> regs["Colour"],
                           rgb |-> regs["X1"] * 2^16 + regs["Y1"]]
                     ELSE NoEntry

PaletteOutput ==
  pallette_port' = IF CurrentState = "PalletteReProgram"
                     THEN [write |-> ~V_Sync_out, number |-> regs["Colour"],
                           rgb |-> regs["X1"] * 2^16 + regs["Y1"]]
                     ELSE NoEntry

ColourLatch ==
  Colour_Latch' = IF CurrentState = "ReadPixel2"
                    THEN sram_q[1 + (regs["X1"] % 2)] ELSE Colour_Latch

NextStateLogic ==
  \/ AtIdle \/ AtProcessCommand \/ AtPalletteReProgram
  \/ AtDrawPixel \/ AtReadPixel \/ AtDrawHline \/ AtDrawVline \/ AtDrawLine

(* One edge of the clock, seen by every process at once.                   *)
GraphicsClock ==
  /\ LoadRegisters /\ CommandWritten /\ BusyIdle
  /\ NextStateLogic /\ PaletteOutput /\ ColourLatch
  /\ VideoMemory /\ PaletteMemory
=============================================================================
