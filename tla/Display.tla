------------------------------- MODULE Display -------------------------------
(***************************************************************************)
(* The display as a whole: a program draws a picture on the processor,     *)
(* through the bridge and the graphics controller into the video memory,   *)
(* while the LCD timing runs.  One step is one edge of the 50 MHz clock;   *)
(* the pixel clock, of 30 MHz, has at most one edge in it.                 *)
(***************************************************************************)
EXTENDS GraphicsDriver, Figures

CONSTANT Pictures     \* records: the calls a program makes, what they mean

ASSUME PicturesAssumption ==
  \A p \in Pictures : p.calls \in Seq(PrimitiveCall)

VARIABLE picture      \* the one being drawn

vars == <<bridgeVars, lcdVars, controllerRegs, driverVars, picture>>

TypeOK == BridgeTypeOK /\ LcdTypeOK /\ GraphicsTypeOK /\ DriverTypeOK

Init ==
  /\ picture \in Pictures
  /\ calls = picture.calls
  /\ BridgeInit /\ LcdInit /\ GraphicsInit /\ DriverInit

Clock == BridgeClock /\ GraphicsClock /\ UNCHANGED picture

Next == Clock /\ Processor /\ (LcdTick \/ UNCHANGED lcdVars)

(* The pixel clock runs, and the program goes on to its end.               *)
Scans == Clock /\ Processor /\ LcdTick
Draws == Clock /\ Issues /\ (LcdTick \/ UNCHANGED lcdVars)

Spec == Init /\ [][Next]_vars /\ WF_vars(Scans) /\ WF_vars(Draws)

----------------------------------------------------------------------------
(* A command is in flight from the clock in which its register write has   *)
(* ended until its last write has reached a memory.                        *)
InFlight ==
  \/ CommandWritten_H /\ request = NoTransfer
  \/ CurrentState # "Idle"
  \/ sram.write \/ pallette_port.write

(* From the command to the last pixel no register of the controller is     *)
(* written: a figure is drawn with the arguments it was called with.       *)
ArgumentsHeld == InFlight => \A reg \in Register : ~Writes(reg)

Canvas == INSTANCE Canvas WITH
  Programs <- {p.calls : p \in Pictures},
  screen   <- IF InFlight THEN Paint(frame, regs) ELSE frame,
  colours  <- IF InFlight THEN Programmed(palette, regs) ELSE palette,
  todo     <- calls,
  seen     <- results

(* The bridge, the driver, the controller and its memories together behave *)
(* as if every call drew its figure at once: no call is drawn with the     *)
(* arguments of another, none is dropped or drawn twice, every status that *)
(* reads idle means that the last figure is complete.                      *)
DrawsAsCalled == Canvas!Spec

(* Every program comes to its end: the controller leaves none of its       *)
(* states for ever, and WAIT_FOR_GRAPHICS sees each command end.           *)
ProgramEnds == <>(calls = <<>> /\ ~InFlight)

(* When a program has ended the picture is the one it was written for.     *)
DrawnAsMeant == calls = <<>> /\ ~InFlight => frame = picture.meant

(* The palette memory is written only while no picture is being displayed. *)
PaletteWrittenInBlanking == pallette_port.write => ~V_Data_on
=============================================================================
