---------------------------- MODULE Display_proofs ----------------------------
(***************************************************************************)
(* What holds of the display for every screen, every timing and every      *)
(* program of primitive calls.  The scan comes first, then the handshake   *)
(* between program and controller, the figures state by state, and last    *)
(* the canvas that the whole implements.                                   *)
(***************************************************************************)
EXTENDS Display, TLAPS

----------------------------------------------------------------------------
(* The scan.  A counter is past the data while its data signal is off, and *)
(* a sync pulse lies between the two porches.                              *)
HorizontalInv ==
  /\ H_Data_on => HCount <= D
  /\ ~H_Sync_out => HCount \in D + E + 1..D + E + B

VerticalInv ==
  /\ V_Data_on => VCount <= R
  /\ ~V_Sync_out => VCount \in R + S + 1..R + S + P

ScanInv == LcdTypeOK /\ HorizontalInv /\ VerticalInv /\ BlankMeansDark

LEMMA LcdInitScanInv == LcdInit => ScanInv
<1> SUFFICES ASSUME LcdInit PROVE ScanInv
  OBVIOUS
<1>1. 0 \in 0..H_TOTAL /\ 0 \in 0..V_TOTAL /\ 0 <= D /\ 0 <= R
  BY IntervalsAssumption DEF H_TOTAL, V_TOTAL
<1>2. LcdTypeOK
  BY <1>1 DEF LcdInit, LcdTypeOK
<1>3. HorizontalInv /\ VerticalInv /\ BlankMeansDark
  BY DEF LcdInit, HorizontalInv, VerticalInv, BlankMeansDark
<1> QED
  BY <1>2, <1>3 DEF ScanInv

(* One edge of the pixel clock: each counter on its own, then the blanking *)
(* signal, which both decide.                                              *)
LEMMA LcdTickScanInv == ScanInv /\ [LcdTick]_lcdVars => ScanInv'
<1> SUFFICES ASSUME ScanInv, [LcdTick]_lcdVars PROVE ScanInv'
  OBVIOUS
<1> USE IntervalsAssumption
<1>1. CASE LcdTick
  <2>1. HCount' \in 0..H_TOTAL /\ VCount' \in 0..V_TOTAL
    BY <1>1 DEF ScanInv, LcdTypeOK, LcdTick, HorizontalCounter, VerticalCounter,
                Wrapped, H_TOTAL, V_TOTAL
  <2>2. HorizontalInv'
    <3>1. /\ H_Data_on' => HCount = D + E + B + C \/ (H_Data_on /\ HCount # D)
          /\ ~H_Sync_out' => HCount # D + E + B /\ (H_Sync_out => HCount = D + E)
          /\ HCount' = Wrapped(HCount, H_TOTAL)
      BY <1>1, Zenon DEF LcdTick, HorizontalCounter, Switched
    <3> QED
      BY <3>1 DEF ScanInv, LcdTypeOK, HorizontalInv, Wrapped, H_TOTAL
  <2>3. VerticalInv'
    <3>1. CASE V_Clock
      <4>1. /\ V_Data_on' => VCount = R + S + P + Q \/ (V_Data_on /\ VCount # R)
            /\ ~V_Sync_out' => VCount # R + S + P /\ (V_Sync_out => VCount = R + S)
            /\ VCount' = Wrapped(VCount, V_TOTAL)
        BY <1>1, <3>1, Zenon DEF LcdTick, VerticalCounter, Switched
      <4> QED
        BY <4>1 DEF ScanInv, LcdTypeOK, VerticalInv, Wrapped, V_TOTAL
    <3>2. CASE ~V_Clock
      BY <1>1, <3>2 DEF LcdTick, VerticalCounter, ScanInv, VerticalInv
    <3> QED
      BY <3>1, <3>2
  <2>4. /\ H_Data_on' \in BOOLEAN /\ H_Sync_out' \in BOOLEAN
        /\ V_Data_on' \in BOOLEAN /\ V_Sync_out' \in BOOLEAN
        /\ Blank_L' \in BOOLEAN
    BY <1>1, Zenon DEF LcdTick, HorizontalCounter, VerticalCounter, Switched,
                       Blanking, ScanInv, LcdTypeOK
  <2>5. HCount \in D + 1..H_TOTAL - 1 => ~H_Data_on'
    <3>1. H_Data_on' => HCount = D + E + B + C \/ H_Data_on
      BY <1>1, Zenon DEF LcdTick, HorizontalCounter, Switched
    <3> QED
      BY <3>1 DEF ScanInv, LcdTypeOK, HorizontalInv, H_TOTAL
  <2>6. VCount \in R + 1..V_TOTAL - 1 => ~V_Data_on'
    <3>1. V_Data_on' => VCount = R + S + P + Q \/ V_Data_on
      BY <1>1, Zenon DEF LcdTick, VerticalCounter, Switched
    <3> QED
      BY <3>1 DEF ScanInv, LcdTypeOK, VerticalInv, V_TOTAL
  <2>7. BlankMeansDark'
    BY <1>1, <2>5, <2>6, Zenon DEF LcdTick, Blanking, BlankMeansDark
  <2> QED
    BY <2>1, <2>2, <2>3, <2>4, <2>7 DEF ScanInv, LcdTypeOK
<1>2. CASE UNCHANGED lcdVars
  BY <1>2 DEF lcdVars, ScanInv, LcdTypeOK, HorizontalInv, VerticalInv,
              BlankMeansDark
<1> QED
  BY <1>1, <1>2

LEMMA ScanInvSafe == ScanInv => SyncInBlanking /\ BlankMeansDark
  BY IntervalsAssumption
  DEF ScanInv, LcdTypeOK, HorizontalInv, VerticalInv, SyncInBlanking,
      H_TOTAL, V_TOTAL

(* The pixel clock is the only thing in a step of the display that moves   *)
(* the scan.                                                               *)
LEMMA DisplayScans == Spec => [][LcdTick]_lcdVars
<1>1. [Next]_vars => [LcdTick]_lcdVars
  BY DEF Next, vars
<1> QED
  BY <1>1, PTL DEF Spec

LEMMA SpecScanInv == Spec => []ScanInv
<1>1. Init => ScanInv
  BY LcdInitScanInv DEF Init
<1> QED
  BY <1>1, LcdTickScanInv, DisplayScans, PTL DEF Spec

(* Both sync pulses lie in the blanking of their direction and the picture *)
(* has the columns 0..D and the rows 0..R (LCD_Controller.vhd), whatever   *)
(* the intervals, so long as every porch and pulse has its clock.          *)
THEOREM SyncIsInBlanking == Spec => []SyncInBlanking
  BY SpecScanInv, ScanInvSafe, PTL

(* Blank_L is low only in clocks in which no pixel is displayed.           *)
THEOREM BlankIsDark == Spec => []BlankMeansDark
  BY SpecScanInv, ScanInvSafe, PTL

----------------------------------------------------------------------------
(* The palette.  Its write enable is a register: it follows V_Sync_out by  *)
(* a clock, and the back porch keeps the picture off in that clock.        *)
LEMMA SyncThenDark ==
  ASSUME ScanInv, ~V_Sync_out, LcdTick \/ UNCHANGED lcdVars
  PROVE  ~V_Data_on'
<1> USE IntervalsAssumption
<1>1. VCount \in R + S + 1..R + S + P /\ ~V_Data_on
  BY DEF ScanInv, LcdTypeOK, VerticalInv
<1>2. V_Data_on' => VCount = R + S + P + Q \/ V_Data_on
  BY Zenon DEF LcdTick, VerticalCounter, Switched, lcdVars
<1> QED
  BY <1>1, <1>2

LEMMA PaletteStep ==
  ASSUME ScanInv, PaletteWrittenInBlanking, [Next]_vars
  PROVE  PaletteWrittenInBlanking'
<1>1. CASE Next
  <2>1. pallette_port'.write => ~V_Sync_out
    BY <1>1 DEF Next, Clock, GraphicsClock, PaletteOutput, NoEntry
  <2> QED
    BY <1>1, <2>1, SyncThenDark DEF Next, PaletteWrittenInBlanking
<1>2. CASE UNCHANGED vars
  BY <1>2 DEF vars, controllerRegs, lcdVars, PaletteWrittenInBlanking
<1> QED
  BY <1>1, <1>2

(* The palette memory, which the display reads for each pixel, is written  *)
(* only while no row is displayed (PalletteReProgram waits for the sync).  *)
THEOREM PaletteIsWrittenInBlanking == Spec => []PaletteWrittenInBlanking
<1>1. Init => PaletteWrittenInBlanking
  BY DEF Init, GraphicsInit, NoEntry, PaletteWrittenInBlanking
<1>2. ScanInv /\ PaletteWrittenInBlanking /\ [Next]_vars
        => PaletteWrittenInBlanking'
  BY PaletteStep
<1> QED
  BY <1>1, <1>2, SpecScanInv, PTL DEF Spec

----------------------------------------------------------------------------
(* The transfers of a call.                                                *)
LEMMA ArgumentsOf ==
  ASSUME NEW call \in PrimitiveCall
  PROVE  /\ Len(Arguments(call)) \in 2..5
         /\ \A i \in 1..Len(Arguments(call)) : Arguments(call)[i] # "Command"
<1>1. \/ Arguments(call) = <<"X1", "Y1", "Colour">>
      \/ Arguments(call) = <<"X1", "Y1">>
      \/ Arguments(call) = <<"Colour", "X1", "Y1">>
      \/ Arguments(call) = <<"X1", "X2", "Y1", "Colour">>
      \/ Arguments(call) = <<"X1", "Y1", "Y2", "Colour">>
      \/ Arguments(call) = <<"X1", "X2", "Y1", "Y2", "Colour">>
  BY SMT DEF Arguments
<1>2. Len(Arguments(call)) \in 2..5
  BY <1>1, SMT
<1>3. ASSUME NEW i \in 1..Len(Arguments(call)) PROVE Arguments(call)[i] # "Command"
  <2>1. CASE Arguments(call) = <<"X1", "Y1", "Colour">>
    BY <1>3, <2>1
  <2>2. CASE Arguments(call) = <<"X1", "Y1">>
    BY <1>3, <2>2
  <2>3. CASE Arguments(call) = <<"Colour", "X1", "Y1">>
    BY <1>3, <2>3
  <2>4. CASE Arguments(call) = <<"X1", "X2", "Y1", "Colour">>
    BY <1>3, <2>4
  <2>5. CASE Arguments(call) = <<"X1", "Y1", "Y2", "Colour">>
    BY <1>3, <2>5
  <2>6. CASE Arguments(call) = <<"X1", "X2", "Y1", "Y2", "Colour">>
    BY <1>3, <2>6
  <2> QED
    BY <1>1, <2>1, <2>2, <2>3, <2>4, <2>5, <2>6
<1> QED
  BY <1>2, <1>3

LEMMA StepsOf ==
  ASSUME NEW call \in PrimitiveCall
  PROVE  /\ CommandStep(call) \in 4..7
         /\ LastStep(call) \in {CommandStep(call), CommandStep(call) + 2}
<1>1. PICK m \in 2..5 : Len(Arguments(call)) = m
  BY ArgumentsOf
<1>2. CommandStep(call) = m + 2
  BY <1>1, Zenon DEF CommandStep
<1> QED
  BY <1>2 DEF LastStep

LEMMA TransferOf ==
  ASSUME NEW call \in PrimitiveCall, NEW n \in 1..LastStep(call)
  PROVE  /\ CommandStep(call) \in 4..7
         /\ LastStep(call) \in {CommandStep(call), CommandStep(call) + 2}
         /\ TransferAt(call, n) # NoTransfer
         /\ n \in 2..CommandStep(call) <=> TransferAt(call, n).rw = "write"
         /\ n \in 2..CommandStep(call) - 1 => TransferAt(call, n).reg # "Command"
         /\ n \notin 2..CommandStep(call) => TransferAt(call, n).rw = "read"
         /\ TransferAt(call, n) = FetchColour => n = LastStep(call)
<1>1. /\ CommandStep(call) \in 4..7
      /\ LastStep(call) \in {CommandStep(call), CommandStep(call) + 2}
  BY StepsOf
<1>2. CASE n = 1
  BY <1>1, <1>2 DEF TransferAt, Status, NoTransfer, FetchColour
<1>3. CASE n \in 2..CommandStep(call) - 1
  <2>1. /\ TransferAt(call, n) = Set(Arguments(call)[n - 1], call[Arguments(call)[n - 1]])
        /\ Arguments(call)[n - 1] # "Command"
    BY <1>1, <1>3, ArgumentsOf DEF TransferAt, CommandStep
  <2> QED
    BY <1>1, <1>3, <2>1 DEF Set, NoTransfer, FetchColour
<1>4. CASE n = CommandStep(call)
  BY <1>1, <1>4 DEF TransferAt, Set, NoTransfer, FetchColour
<1>5. CASE n = CommandStep(call) + 1
  BY <1>1, <1>5 DEF TransferAt, Status, NoTransfer, FetchColour
<1>6. CASE n = CommandStep(call) + 2
  BY <1>1, <1>6 DEF TransferAt, FetchColour, NoTransfer
<1> QED
  BY <1>1, <1>2, <1>3, <1>4, <1>5, <1>6

----------------------------------------------------------------------------
(* The handshake.  The program asks before it writes: between the status   *)
(* that reads idle and the end of the command's own transfer it finds the  *)
(* controller Quiet, and for as long as the command is not taken up only   *)
(* the bus, then ProcessCommand, keep the busy status from being seen.     *)
Quiet == Idle_H /\ ~CommandWritten_H

DriverInv ==
  /\ calls \in Seq(PrimitiveCall) /\ step \in Nat \ {0}
  /\ calls # <<>> => step <= LastStep(Head(calls))
  /\ request # NoTransfer => calls # <<>> /\ request = TransferAt(Head(calls), step)

BusInv ==
  /\ enable => request # NoTransfer /\ bus = request
  /\ acknowledge /\ request # NoTransfer => enable

ControllerInv ==
  /\ CommandWritten_H => Idle_H /\ CurrentState \in {"Idle", "ProcessCommand"}
  /\ CurrentState = "ProcessCommand" => CommandWritten_H
  /\ CurrentState \notin {"Idle", "ProcessCommand"} => ~Idle_H
  /\ sram.write \/ pallette_port.write => ~Idle_H

TurnInv ==
  /\ request.rw = "write" =>
       /\ CurrentState = "Idle" /\ Idle_H
       /\ CommandWritten_H => enable /\ request.reg = "Command"
  /\ request = NoTransfer /\ calls # <<>> /\ step \in 2..CommandStep(Head(calls))
       => Quiet
  /\ CommandWritten_H /\ request.rw # "write" =>
       \/ CurrentState = "Idle" /\ request = NoTransfer
       \/ CurrentState = "ProcessCommand" /\ ~enable

HandshakeInv == DriverInv /\ BusInv /\ ControllerInv /\ TurnInv

LEMMA HandshakeHolds == HandshakeInv => ArgumentsHeld
<1> SUFFICES ASSUME HandshakeInv, NEW reg \in Register, Writes(reg)
             PROVE  ~InFlight
  BY DEF ArgumentsHeld
<1>1. enable /\ request.rw = "write" /\ request # NoTransfer
  BY DEF HandshakeInv, BusInv, Writes
<1> QED
  BY <1>1 DEF HandshakeInv, TurnInv, ControllerInv, InFlight

LEMMA HandshakeInit == Init => HandshakeInv
<1> SUFFICES ASSUME Init PROVE HandshakeInv
  OBVIOUS
<1>1. calls \in Seq(PrimitiveCall) /\ step = 1
  BY PicturesAssumption DEF Init, DriverInit
<1>2. calls # <<>> => Head(calls) \in PrimitiveCall
  BY <1>1
<1>3. DriverInv
  <2>1. calls # <<>> => 1 <= LastStep(Head(calls))
    BY <1>2, ArgumentsOf DEF LastStep, CommandStep
  <2> QED
    BY <1>1, <2>1 DEF DriverInv, Init, BridgeInit
<1>4. BusInv /\ ControllerInv
  BY DEF Init, BridgeInit, GraphicsInit, NoAccess, NoEntry, BusInv, ControllerInv
<1>5. TurnInv
  BY <1>1 DEF Init, BridgeInit, GraphicsInit, NoTransfer, TurnInv
<1> QED
  BY <1>3, <1>4, <1>5 DEF HandshakeInv

(* What a clock does to the registers that pass a command on.              *)
LEMMA ControllerClock ==
  ASSUME GraphicsClock
  PROVE  /\ CommandWritten_H' <=> \/ Writes("Command")
                                  \/ CommandWritten_H /\ CurrentState # "ProcessCommand"
         /\ Idle_H' <=> CurrentState # "ProcessCommand" /\ (Idle_H \/ CurrentState = "Idle")
         /\ CurrentState = "Idle" =>
              CurrentState' = IF CommandWritten_H /\ ~enable THEN "ProcessCommand" ELSE "Idle"
         /\ CurrentState' = "ProcessCommand" => CurrentState = "Idle"
         /\ sram'.write \/ pallette_port'.write
              => CurrentState \notin {"Idle", "ProcessCommand"}
<1>1. /\ CommandWritten_H' <=> \/ Writes("Command")
                               \/ CommandWritten_H /\ CurrentState # "ProcessCommand"
      /\ Idle_H' <=> CurrentState # "ProcessCommand" /\ (Idle_H \/ CurrentState = "Idle")
  BY Zenon DEF GraphicsClock, CommandWritten, BusyIdle
<1>2. FirstState(regs["Command"]) # "ProcessCommand"
  BY DEF FirstState
<1>3. NextStateLogic
  BY DEF GraphicsClock
<1>4. /\ CurrentState = "Idle" =>
           CurrentState' = IF CommandWritten_H /\ ~enable THEN "ProcessCommand" ELSE "Idle"
      /\ CurrentState' = "ProcessCommand" => CurrentState = "Idle"
      /\ sram'.write => CurrentState \notin {"Idle", "ProcessCommand"}
  <2>1. CASE AtIdle
    BY <2>1 DEF AtIdle, Leaves, In, NoPlot, NoAccess
  <2>2. CASE AtProcessCommand
    BY <2>2, <1>2 DEF AtProcessCommand, In, NoPlot, NoAccess
  <2>3. CASE AtPalletteReProgram
    BY <2>3 DEF AtPalletteReProgram, In
  <2>4. CASE AtDrawPixel \/ AtReadPixel
    BY <2>4 DEF AtDrawPixel, AtReadPixel, In
  <2>5. CASE AtDrawHline \/ AtDrawVline
    BY <2>5 DEF AtDrawHline, AtDrawVline, In
  <2>6. CASE AtDrawLine
    BY <2>6 DEF AtDrawLine, LineSetUp, LineSwap, LineError, LinePlot, LineSteps, In
  <2> QED
    BY <1>3, <2>1, <2>2, <2>3, <2>4, <2>5, <2>6 DEF NextStateLogic
<1>5. pallette_port'.write => CurrentState = "PalletteReProgram"
  BY DEF GraphicsClock, PaletteOutput, NoEntry
<1> QED
  BY <1>1, <1>4, <1>5

LEMMA ControllerStep ==
  ASSUME HandshakeInv, GraphicsClock
  PROVE  ControllerInv'
<1>1. Writes("Command") => CurrentState = "Idle" /\ Idle_H /\ enable
  BY DEF HandshakeInv, BusInv, TurnInv, Writes
<1> QED
  BY <1>1, ControllerClock DEF HandshakeInv, ControllerInv

LEMMA BusStep ==
  ASSUME BusInv, BridgeClock, Processor
  PROVE  BusInv'
  BY DEF BusInv, BridgeClock, Processor, Computes, Issues, Waits, ReadsStatus,
         ReadsColour, WritesRegister, waitrequest, Completes, NoTransfer

(* What the processor does to its own state.                               *)
LEMMA EndsStep ==
  ASSUME DriverInv, calls # <<>>, Ends
  PROVE  /\ calls' \in Seq(PrimitiveCall) /\ step' \in Nat \ {0}
         /\ calls' # <<>> => step' <= LastStep(Head(calls'))
         /\ step' = 1 \/ (step' = step + 1 /\ calls' = calls)
<1>1. Head(calls) \in PrimitiveCall /\ Tail(calls) \in Seq(PrimitiveCall)
  BY DEF DriverInv
<1>2. CASE step < LastStep(Head(calls))
  <2>1. LastStep(Head(calls)) \in Nat
    BY <1>1, ArgumentsOf DEF LastStep, CommandStep
  <2> QED
    BY <1>2, <2>1 DEF DriverInv, Ends
<1>3. CASE ~(step < LastStep(Head(calls)))
  <2>1. step' = 1 /\ calls' = Tail(calls)
    BY <1>3 DEF Ends
  <2>2. calls' # <<>> => Head(calls') \in PrimitiveCall
    BY <1>1, <2>1
  <2>3. calls' # <<>> => 1 <= LastStep(Head(calls'))
    BY <2>2, ArgumentsOf DEF LastStep, CommandStep
  <2> QED
    BY <1>1, <2>1, <2>3
<1> QED
  BY <1>2, <1>3

LEMMA DriverStep ==
  ASSUME DriverInv, Processor
  PROVE  DriverInv'
<1>1. CASE Computes \/ Waits
  BY <1>1 DEF DriverInv, Computes, Waits
<1>2. CASE Issues
  BY <1>2 DEF DriverInv, Issues
<1>3. CASE ReadsStatus \/ ReadsColour \/ WritesRegister
  <2>1. request' = NoTransfer /\ calls # <<>>
    BY <1>3 DEF ReadsStatus, ReadsColour, WritesRegister, Completes, DriverInv
  <2>2. Ends \/ UNCHANGED <<calls, step>>
    BY <1>3 DEF ReadsStatus, ReadsColour, WritesRegister
  <2> QED
    BY <2>1, <2>2, EndsStep DEF DriverInv
<1> QED
  BY <1>1, <1>2, <1>3 DEF Processor

(* The transfer under way is the one of its place in the call.             *)
LEMMA Requested ==
  ASSUME HandshakeInv, request # NoTransfer
  PROVE  /\ calls # <<>>
         /\ request = TransferAt(Head(calls), step)
         /\ Head(calls) \in PrimitiveCall
         /\ step \in 1..LastStep(Head(calls))
         /\ CommandStep(Head(calls)) \in 4..7
<1>1. calls # <<>> /\ request = TransferAt(Head(calls), step)
  BY DEF HandshakeInv, DriverInv
<1>2. Head(calls) \in PrimitiveCall
  BY <1>1 DEF HandshakeInv, DriverInv
<1>3. CommandStep(Head(calls)) \in 4..7 /\ LastStep(Head(calls)) \in Nat
  BY <1>2, StepsOf
<1> QED
  BY <1>1, <1>2, <1>3 DEF HandshakeInv, DriverInv

(* A command or a state is on its way only while the processor is not      *)
(* between the status that read idle and its command.                      *)
LEMMA TurnStep ==
  ASSUME HandshakeInv, Clock, Processor
  PROVE  TurnInv'
<1>1. /\ enable' <=> waitrequest
      /\ bus' = request
  BY Zenon DEF Clock, BridgeClock
<1>2. GraphicsClock
  BY DEF Clock
<1>3. CASE Computes
  <2>1. request = NoTransfer /\ request' = NoTransfer /\ UNCHANGED <<calls, step>>
    BY <1>3 DEF Computes
  <2>2. ~Writes("Command") /\ ~enable
    BY <2>1 DEF HandshakeInv, BusInv, Writes
  <2>3. ~enable'
    BY <1>1, <2>1 DEF waitrequest
  <2> QED
    BY <1>2, <2>1, <2>2, <2>3, ControllerClock
    DEF HandshakeInv, ControllerInv, TurnInv, Quiet, NoTransfer
<1>4. CASE Issues
  <2>1. /\ request = NoTransfer /\ calls # <<>>
        /\ request' = TransferAt(Head(calls), step) /\ UNCHANGED <<calls, step>>
    BY <1>4 DEF Issues
  <2>2. ~Writes("Command") /\ ~enable
    BY <2>1 DEF HandshakeInv, BusInv, Writes
  <2>3. ~enable'
    BY <1>1, <2>1 DEF waitrequest
  <2>4. DriverInv'
    BY DriverStep DEF HandshakeInv
  <2>5. /\ request' # NoTransfer
        /\ request'.rw = "write" => step \in 2..CommandStep(Head(calls))
    <3>1. Head(calls) \in PrimitiveCall /\ step \in 1..LastStep(Head(calls))
      <4>1. Head(calls) \in PrimitiveCall
        BY <2>1 DEF HandshakeInv, DriverInv
      <4>2. LastStep(Head(calls)) \in Nat
        BY <4>1, ArgumentsOf DEF LastStep, CommandStep
      <4> QED
        BY <2>1, <4>1, <4>2 DEF HandshakeInv, DriverInv
    <3> QED
      BY <2>1, <3>1, TransferOf
  <2>6. request'.rw = "write" => Quiet
    BY <2>1, <2>5 DEF HandshakeInv, TurnInv
  <2> QED
    BY <1>2, <2>1, <2>2, <2>3, <2>5, <2>6, ControllerClock
    DEF HandshakeInv, ControllerInv, TurnInv, Quiet, NoTransfer
<1>5. CASE Waits
  <2>1. /\ request # NoTransfer /\ request' = request /\ enable'
    BY <1>1, <1>5 DEF Waits, waitrequest
  <2>2. CASE request.rw = "write"
    <3>1. Writes("Command") => request.reg = "Command"
      BY DEF HandshakeInv, BusInv, Writes
    <3> QED
      BY <1>2, <2>1, <2>2, <3>1, ControllerClock DEF HandshakeInv, TurnInv
  <2>3. CASE request.rw # "write"
    <3>1. ~Writes("Command")
      BY <2>3 DEF HandshakeInv, BusInv, Writes
    <3> QED
      BY <1>2, <2>1, <2>3, <3>1, ControllerClock
      DEF HandshakeInv, ControllerInv, TurnInv
  <2> QED
    BY <2>2, <2>3
<1>6. CASE ReadsStatus \/ ReadsColour
  <2>1. /\ request # NoTransfer /\ request' = NoTransfer /\ enable /\ bus = request
        /\ request \in {Status, FetchColour}
    BY <1>6 DEF ReadsStatus, ReadsColour, Completes, HandshakeInv, BusInv
  <2>2. ~Writes("Command") /\ ~enable'
    BY <1>1, <1>6, <2>1
    DEF Writes, Status, FetchColour, ReadsStatus, ReadsColour, Completes, waitrequest
  <2>3. ~CommandWritten_H /\ ~CommandWritten_H'
    BY <1>2, <2>1, <2>2, ControllerClock
    DEF HandshakeInv, TurnInv, Status, FetchColour
  <2>4. calls' # <<>> /\ step' \in 2..CommandStep(Head(calls')) => Idle_H
    <3>1. ReadsStatus /\ DataOutToCPU = 1 => Idle_H
      BY <2>1 DEF ReadsStatus, DataOutToCPU, Status
    <3>2. UNCHANGED <<calls, step>> => step' \notin 2..CommandStep(Head(calls'))
      BY <2>1, Requested, TransferOf DEF Status, FetchColour
    <3>3. ReadsColour => step' \notin 2..CommandStep(Head(calls'))
      BY <2>1, Requested, TransferOf DEF ReadsColour, Ends
    <3> QED
      BY <1>6, <3>1, <3>2, <3>3 DEF ReadsStatus
  <2>5. Idle_H => Idle_H'
    BY <1>2, <2>3, ControllerClock DEF HandshakeInv, ControllerInv
  <2> QED
    BY <2>1, <2>2, <2>3, <2>4, <2>5 DEF TurnInv, Quiet, NoTransfer
<1>7. CASE WritesRegister
  <2>1. /\ request # NoTransfer /\ request' = NoTransfer /\ enable /\ bus = request
        /\ request.rw = "write" /\ Ends
    BY <1>7 DEF WritesRegister, Completes, HandshakeInv, BusInv
  <2>2. ~enable'
    BY <1>1, <1>7 DEF WritesRegister, Completes, waitrequest
  <2>3. /\ CurrentState = "Idle" /\ CurrentState' = "Idle" /\ Idle_H'
    BY <1>2, <2>1, ControllerClock DEF HandshakeInv, TurnInv
  <2>4. step' \in 2..CommandStep(Head(calls')) => request.reg # "Command"
    BY <2>1, Requested, TransferOf, EndsStep DEF HandshakeInv
  <2>5. step' \in 2..CommandStep(Head(calls')) => ~CommandWritten_H'
    BY <1>2, <2>1, <2>4, ControllerClock DEF HandshakeInv, TurnInv, Writes
  <2> QED
    BY <2>1, <2>2, <2>3, <2>5 DEF TurnInv, Quiet, NoTransfer
<1> QED
  BY <1>3, <1>4, <1>5, <1>6, <1>7 DEF Processor

(* Between a command and the last write of its figure no register of the   *)
(* controller is written: GraphicsController.vhd reads the arguments all   *)
(* the while.  For every program of primitive calls, at every speed.       *)
THEOREM ArgumentsAreHeld == Spec => []ArgumentsHeld
<1>1. HandshakeInv /\ [Next]_vars => HandshakeInv'
  <2> SUFFICES ASSUME HandshakeInv, [Next]_vars PROVE HandshakeInv'
    OBVIOUS
  <2>1. CASE Next
    <3>1. Clock /\ Processor /\ BridgeClock /\ GraphicsClock
      BY <2>1 DEF Next, Clock
    <3> QED
      BY <3>1, DriverStep, BusStep, ControllerStep, TurnStep DEF HandshakeInv
  <2>2. CASE UNCHANGED vars
    BY <2>2 DEF vars, bridgeVars, controllerRegs, driverVars, HandshakeInv,
                DriverInv, BusInv, ControllerInv, TurnInv, Quiet
  <2> QED
    BY <2>1, <2>2
<1> QED
  BY <1>1, HandshakeInit, HandshakeHolds, PTL DEF Spec

----------------------------------------------------------------------------
(* What the calls of the canvas mean is what they mean here.               *)
LEMMA SameMeaning ==
  ASSUME NEW s, NEW c
  PROVE  /\ Canvas!Paint(s, c) = Paint(s, c)
         /\ Canvas!Programmed(s, c) = Programmed(s, c)
         /\ Canvas!Read(s, c) = Read(s, c)
<1>1. Canvas!PixelsOf(c) = PixelsOf(c)
  BY DEF Canvas!PixelsOf, PixelsOf, Canvas!LinePixels, LinePixels, Canvas!Clip, Clip,
         Canvas!Larger, Larger, Canvas!Span, Span, Canvas!Way, Way,
         Canvas!PutAPixelCmd, PutAPixelCmd, Canvas!DrawHLineCmd, DrawHLineCmd,
         Canvas!DrawVLineCmd, DrawVLineCmd, Canvas!DrawLineCmd, DrawLineCmd
<1>2. Canvas!Paint(s, c) = Paint(s, c)
  BY <1>1 DEF Canvas!Paint, Paint
<1>3. Canvas!Programmed(s, c) = Programmed(s, c)
  BY DEF Canvas!Programmed, Programmed, Canvas!ProgramPaletteColour, ProgramPaletteColour
<1>4. Canvas!Read(s, c) = Read(s, c)
  BY DEF Canvas!Read, Read, Canvas!GetAPixelCmd, GetAPixelCmd, Canvas!Clip, Clip
<1>. QED BY <1>2, <1>3, <1>4

(* Addresses: a pixel of the pair that holds column x.                     *)
LEMMA Remainder ==
  ASSUME NEW a \in Int, NEW b \in Nat \ {0}
  PROVE  a % b \in 0..b-1 /\ a \div b \in Int /\ a = b * (a \div b) + (a % b)
  OBVIOUS

LEMMA RemainderIs ==
  ASSUME NEW a \in Int, NEW b \in Nat \ {0}, NEW q \in Int, NEW r \in 0..b-1, a = b * q + r
  PROVE  a % b = r
  OBVIOUS

LEMMA QuotientIs ==
  ASSUME NEW a \in Int, NEW b \in Nat \ {0}, NEW q \in Int, b * q <= a, a < b * q + b
  PROVE  a \div b = q
  OBVIOUS

LEMMA PairOf ==
  ASSUME NEW x \in Int
  PROVE  /\ x % 2 \in 0..1 /\ x % Cols \in 0..Cols-1
         /\ (x % Cols) % 2 = x % 2
         /\ \A bit \in 0..1 : /\ (x % Cols) - (x % 2) + bit \in 0..Cols-1
                              /\ (x % Cols) - (x % 2) + bit = (x - (x % 2) + bit) % Cols
                              /\ ((x % Cols) - (x % 2) + bit) % 2 = bit
<1>1. PICK h \in Nat \ {0} : Cols = 2 * h
  <2>1. Cols = 2 * (Cols \div 2) + (Cols % 2) /\ Cols % 2 = 0 /\ Cols \in Nat \ {0}
        /\ Cols \div 2 \in Int
    BY ScreenAssumption, Remainder
  <2>2. Cols \div 2 \in Nat \ {0} /\ Cols = 2 * (Cols \div 2)
    BY <2>1
  <2>. QED BY <2>2
<1>2. PICK q \in Int, r \in 0..Cols-1 : x = Cols * q + r /\ x % Cols = r
  <2>1. x \div Cols \in Int /\ x % Cols \in 0..Cols-1
        /\ x = Cols * (x \div Cols) + (x % Cols)
    BY ScreenAssumption, Remainder
  <2>. QED BY <2>1
<1>3. PICK e \in Int, b \in 0..1 : r = 2 * e + b /\ r % 2 = b
  <2>1. r \in Int /\ r \div 2 \in Int /\ r % 2 \in 0..1 /\ r = 2 * (r \div 2) + (r % 2)
    BY <1>2, Remainder
  <2>. QED BY <2>1
<1>4. x % 2 = b
  <2>1. x = 2 * (h * q + e) + b /\ h * q + e \in Int
    BY <1>1, <1>2, <1>3
  <2>. QED BY <2>1, RemainderIs
<1>5. ASSUME NEW bit \in 0..1
      PROVE  /\ r - b + bit \in 0..Cols-1
             /\ r - b + bit = (x - b + bit) % Cols
             /\ (r - b + bit) % 2 = bit
  <2>1. r - b + bit \in 0..Cols-1
    BY <1>1, <1>2, <1>3
  <2>2. x - b + bit = Cols * q + (r - b + bit) /\ x - b + bit \in Int
    BY <1>1, <1>2, <1>3
  <2>3. r - b + bit = 2 * e + bit /\ r - b + bit \in Int
    BY <1>1, <1>3
  <2>4. (x - b + bit) % Cols = r - b + bit
    BY <2>1, <2>2, ScreenAssumption, RemainderIs
  <2>5. (r - b + bit) % 2 = bit
    BY <2>3, RemainderIs
  <2>. QED BY <2>1, <2>4, <2>5
<1>. QED BY <1>2, <1>3, <1>4, <1>5

LEMMA ClipType ==
  ASSUME NEW x \in Int, NEW y \in Int
  PROVE  Clip(x, y) \in Pixel
<1>1. x % Cols \in 0..Cols-1 /\ y % Rows \in 0..Rows-1
  BY ScreenAssumption, Remainder
<1>. QED BY <1>1 DEF Clip, Pixel

----------------------------------------------------------------------------
LEMMA CommandNumbers ==
  /\ DrawHLineCmd = 1 /\ DrawVLineCmd = 2 /\ DrawLineCmd = 3
  /\ PutAPixelCmd = 10 /\ GetAPixelCmd = 11 /\ ProgramPaletteColour = 16
  BY DEF DrawHLineCmd, DrawVLineCmd, DrawLineCmd, PutAPixelCmd, GetAPixelCmd,
         ProgramPaletteColour

(* The registers a call has written before its n-th transfer.              *)
Given(call, n) ==
  {TransferAt(call, m).reg : m \in {k \in 2..CommandStep(call) : k < n}}

(* The arguments are registers of the controller.                          *)
LEMMA ArgumentRegisters ==
  ASSUME NEW call \in PrimitiveCall
  PROVE  \A i \in 1..Len(Arguments(call)) : Arguments(call)[i] \in Register
<1>1. \/ Arguments(call) = <<"X1", "Y1", "Colour">>
      \/ Arguments(call) = <<"X1", "Y1">>
      \/ Arguments(call) = <<"Colour", "X1", "Y1">>
      \/ Arguments(call) = <<"X1", "X2", "Y1", "Colour">>
      \/ Arguments(call) = <<"X1", "Y1", "Y2", "Colour">>
      \/ Arguments(call) = <<"X1", "X2", "Y1", "Y2", "Colour">>
  BY SMT DEF Arguments
<1>. TAKE i \in 1..Len(Arguments(call))
<1>2. CASE Arguments(call) = <<"X1", "Y1", "Colour">>
  BY <1>2 DEF Register
<1>3. CASE Arguments(call) = <<"X1", "Y1">>
  BY <1>3 DEF Register
<1>4. CASE Arguments(call) = <<"Colour", "X1", "Y1">>
  BY <1>4 DEF Register
<1>5. CASE Arguments(call) = <<"X1", "X2", "Y1", "Colour">>
  BY <1>5 DEF Register
<1>6. CASE Arguments(call) = <<"X1", "Y1", "Y2", "Colour">>
  BY <1>6 DEF Register
<1>7. CASE Arguments(call) = <<"X1", "X2", "Y1", "Y2", "Colour">>
  BY <1>7 DEF Register
<1>. QED BY <1>1, <1>2, <1>3, <1>4, <1>5, <1>6, <1>7

(* The values of a call.                                                   *)
LEMMA CallType ==
  ASSUME NEW call \in PrimitiveCall
  PROVE  /\ \A reg \in Register : call[reg] \in Int
         /\ call["Command"] \in {1, 2, 3, 10, 11, 16} /\ call["Colour"] \in Colour
<1>1. \A c \in Colour : c \in Int
  BY ScreenAssumption
<1>. QED BY <1>1 DEF PrimitiveCall, Register, DrawHLineCmd, DrawVLineCmd, DrawLineCmd,
              PutAPixelCmd, GetAPixelCmd, ProgramPaletteColour

(* A transfer that writes carries the register's value in the call.        *)
LEMMA TransferWrites ==
  ASSUME NEW call \in PrimitiveCall, NEW n \in 1..LastStep(call)
  PROVE  /\ TransferAt(call, n) \in Transfer
         /\ TransferAt(call, n).rw = "write"
              => TransferAt(call, n).data = call[TransferAt(call, n).reg]
         /\ n \in 2..CommandStep(call) - 1
              => TransferAt(call, n).reg = Arguments(call)[n - 1]
         /\ n = CommandStep(call) => TransferAt(call, n).reg = "Command"
         /\ n = CommandStep(call) + 2 => TransferAt(call, n) = FetchColour
         /\ n \in {1, CommandStep(call) + 1} => TransferAt(call, n) = Status
<1>1. /\ CommandStep(call) \in 4..7
      /\ LastStep(call) \in {CommandStep(call), CommandStep(call) + 2}
  BY TransferOf
<1>2. "Command" \in Register /\ "Colour" \in Register
  BY DEF Register
<1>3. CASE n = 1
  BY <1>1, <1>2, <1>3 DEF TransferAt, Status, Transfer
<1>4. CASE n \in 2..CommandStep(call) - 1
  <2>1. TransferAt(call, n) = Set(Arguments(call)[n - 1], call[Arguments(call)[n - 1]])
    BY <1>1, <1>4 DEF TransferAt
  <2>2. Arguments(call)[n - 1] \in Register
    BY <1>1, <1>4, ArgumentRegisters, ArgumentsOf DEF CommandStep
  <2>3. call[Arguments(call)[n - 1]] \in Int
    BY <2>2, CallType
  <2>. QED BY <1>1, <1>4, <2>1, <2>2, <2>3 DEF Set, Transfer
<1>5. CASE n = CommandStep(call)
  <2>1. TransferAt(call, n) = Set("Command", call["Command"])
    BY <1>1, <1>5 DEF TransferAt
  <2>. QED BY <1>1, <1>2, <1>5, <2>1, CallType DEF Set, Transfer
<1>6. CASE n = CommandStep(call) + 1
  BY <1>1, <1>2, <1>6 DEF TransferAt, Status, Transfer
<1>7. CASE n = CommandStep(call) + 2
  BY <1>1, <1>2, <1>7 DEF TransferAt, FetchColour, Transfer
<1>. QED BY <1>1, <1>3, <1>4, <1>5, <1>6, <1>7

(* When the command is written the registers hold the call.                *)
LEMMA AllGiven ==
  ASSUME NEW call \in PrimitiveCall
  PROVE  /\ "Command" \in Given(call, CommandStep(call) + 1)
         /\ \A i \in 1..Len(Arguments(call)) :
              Arguments(call)[i] \in Given(call, CommandStep(call) + 1)
<1>1. CommandStep(call) = Len(Arguments(call)) + 2 /\ Len(Arguments(call)) \in 2..5
      /\ LastStep(call) \in {CommandStep(call), CommandStep(call) + 2}
  BY ArgumentsOf DEF CommandStep, LastStep
<1>2. "Command" \in Given(call, CommandStep(call) + 1)
  <2>1. TransferAt(call, CommandStep(call)).reg = "Command"
    BY <1>1, TransferWrites
  <2>. QED BY <1>1, <2>1 DEF Given
<1>3. ASSUME NEW i \in 1..Len(Arguments(call))
      PROVE  Arguments(call)[i] \in Given(call, CommandStep(call) + 1)
  <2>1. i + 1 \in 2..CommandStep(call) - 1 /\ i + 1 \in 1..LastStep(call) /\ (i + 1) - 1 = i
    BY <1>1
  <2>2. TransferAt(call, i + 1).reg = Arguments(call)[i]
    BY <2>1, TransferWrites
  <2>. QED BY <1>1, <2>1, <2>2 DEF Given
<1>. QED BY <1>2, <1>3

Holds(r, call, n) == \A reg \in Given(call, n) : r[reg] = call[reg]

(* Registers that hold a call mean what the call means.                    *)
LEMMA HoldsFigure ==
  ASSUME NEW call \in PrimitiveCall, NEW r \in [Register -> Int],
         Holds(r, call, CommandStep(call) + 1)
  PROVE  /\ r.Command = call.Command
         /\ \A s : Paint(s, r) = Paint(s, call) /\ Programmed(s, r) = Programmed(s, call)
         /\ Clip(r.X1, r.Y1) = Clip(call.X1, call.Y1)
         /\ call.Command # GetAPixelCmd => r.Colour = call.Colour
<1>1. r.Command = call.Command
  BY AllGiven DEF Holds
<1>2. ASSUME NEW i \in 1..Len(Arguments(call))
      PROVE  r[Arguments(call)[i]] = call[Arguments(call)[i]]
  BY AllGiven DEF Holds
<1>3. CASE call.Command = PutAPixelCmd
  <2>1. Arguments(call) = <<"X1", "Y1", "Colour">>
    BY <1>3, CommandNumbers DEF Arguments
  <2>2. r.X1 = call.X1 /\ r.Y1 = call.Y1 /\ r.Colour = call.Colour
    BY <1>2, <2>1
  <2>. QED
    BY <1>1, <1>3, <2>2, CommandNumbers DEF PixelsOf, LinePixels, Paint, Programmed
<1>4. CASE call.Command = GetAPixelCmd
  <2>1. Arguments(call) = <<"X1", "Y1">>
    BY <1>4, CommandNumbers DEF Arguments
  <2>2. r.X1 = call.X1 /\ r.Y1 = call.Y1
    BY <1>2, <2>1
  <2>. QED
    BY <1>1, <1>4, <2>2, CommandNumbers DEF PixelsOf, LinePixels, Paint, Programmed
<1>5. CASE call.Command = ProgramPaletteColour
  <2>1. Arguments(call) = <<"Colour", "X1", "Y1">>
    BY <1>5, CommandNumbers DEF Arguments
  <2>2. r.Colour = call.Colour /\ r.X1 = call.X1 /\ r.Y1 = call.Y1
    BY <1>2, <2>1
  <2>. QED
    BY <1>1, <1>5, <2>2, CommandNumbers DEF PixelsOf, LinePixels, Paint, Programmed
<1>6. CASE call.Command = DrawHLineCmd
  <2>1. Arguments(call) = <<"X1", "X2", "Y1", "Colour">>
    BY <1>6, CommandNumbers DEF Arguments
  <2>2. r.X1 = call.X1 /\ r.X2 = call.X2 /\ r.Y1 = call.Y1 /\ r.Colour = call.Colour
    BY <1>2, <2>1
  <2>. QED
    BY <1>1, <1>6, <2>2, CommandNumbers DEF PixelsOf, LinePixels, Paint, Programmed
<1>7. CASE call.Command = DrawVLineCmd
  <2>1. Arguments(call) = <<"X1", "Y1", "Y2", "Colour">>
    BY <1>7, CommandNumbers DEF Arguments
  <2>2. r.X1 = call.X1 /\ r.Y1 = call.Y1 /\ r.Y2 = call.Y2 /\ r.Colour = call.Colour
    BY <1>2, <2>1
  <2>. QED
    BY <1>1, <1>7, <2>2, CommandNumbers DEF PixelsOf, LinePixels, Paint, Programmed
<1>8. CASE call.Command = DrawLineCmd
  <2>1. Arguments(call) = <<"X1", "X2", "Y1", "Y2", "Colour">>
    BY <1>8, CommandNumbers DEF Arguments
  <2>2. /\ r.X1 = call.X1 /\ r.X2 = call.X2 /\ r.Y1 = call.Y1 /\ r.Y2 = call.Y2
        /\ r.Colour = call.Colour
    BY <1>2, <2>1
  <2>. QED
    BY <1>1, <1>8, <2>2, CommandNumbers DEF PixelsOf, LinePixels, Paint, Programmed
<1>. QED BY <1>3, <1>4, <1>5, <1>6, <1>7, <1>8 DEF PrimitiveCall

----------------------------------------------------------------------------
(* The frame as the next clock finds it, when the write that the output    *)
(* registers hold has reached the memory; what is drawn of a figure.       *)
Shown == IF sram.write THEN [frame EXCEPT ![<<sram.x, sram.y>>] = sram.colour] ELSE frame
Done(p) == Shown[p] = regs.Colour
Complete == \A p \in PixelsOf(regs) : Done(p)

(* Each state of a figure was entered for its command.                     *)
CommandInv ==
  /\ CurrentState = "DrawPixel" => regs.Command = PutAPixelCmd
  /\ CurrentState \in {"ReadPixel", "ReadPixel1", "ReadPixel2"} => regs.Command = GetAPixelCmd
  /\ CurrentState = "PalletteReProgram" => regs.Command = ProgramPaletteColour
  /\ CurrentState \in {"DrawHline", "DrawHline1", "DrawHline2"} => regs.Command = DrawHLineCmd
  /\ CurrentState \in {"DrawVline", "DrawVline1", "DrawVline2"} => regs.Command = DrawVLineCmd
  /\ CurrentState \in {"DrawLine", "DrawLine1", "DrawLine2", "DrawLine3", "DrawLine4",
                       "DrawLine5", "DrawLine6"} => regs.Command = DrawLineCmd

(* What is written belongs to the figure.                                  *)
WriteInv ==
  /\ sram.write => /\ <<sram.x, sram.y>> \in PixelsOf(regs)
                   /\ sram.colour = regs.Colour
                   /\ CurrentState = "Idle" => Complete
  /\ pallette_port.write => /\ CurrentState = "Idle" /\ regs.Command = ProgramPaletteColour
                            /\ pallette_port.number = regs.Colour
                            /\ pallette_port.rgb = regs.X1 * 2^16 + regs.Y1

(* Straight lines: the pixels before the current one are drawn.            *)
RowDone(x) ==
  /\ w.X \in regs.X1..Larger(regs.X1, regs.X2)
  /\ \A i \in regs.X1..x : Done(Clip(i, regs.Y1))

ColumnDone(y) ==
  /\ w.Y \in regs.Y1..Larger(regs.Y1, regs.Y2)
  /\ \A i \in regs.Y1..y : Done(Clip(regs.X1 - (regs.X1 % 2) + (i % 2), i))

StraightInv ==
  /\ CurrentState = "DrawHline1" => RowDone(w.X - 1)
  /\ CurrentState = "DrawHline2" => RowDone(w.X)
  /\ CurrentState = "DrawVline1" => ColumnDone(w.Y - 1)
  /\ CurrentState = "DrawVline2" => ColumnDone(w.Y)

(* A pixel that is read: its pair is addressed, then at the output.        *)
Addressed ==
  sram.x = (regs.X1 % Cols) - (regs.X1 % 2) /\ sram.y = regs.Y1 % Rows

AtOutput ==
  sram_q[1 + (regs.X1 % 2)] = frame[Clip(regs.X1, regs.Y1)]

ReadInv ==
  /\ CurrentState \in {"ReadPixel", "ReadPixel1", "ReadPixel2"} => ~sram.write
  /\ CurrentState = "ReadPixel1" => Addressed
  /\ CurrentState = "ReadPixel2" => AtOutput

----------------------------------------------------------------------------
(* The types that the arithmetic of the coordinates needs.                 *)
LEMMA RegisterTypes ==
  ASSUME GraphicsTypeOK
  PROVE  /\ regs.X1 \in Int /\ regs.X2 \in Int /\ regs.Y1 \in Int /\ regs.Y2 \in Int
         /\ regs.Colour \in Int /\ regs.Command \in Int
         /\ w.X \in Int /\ w.Y \in Int
  BY DEF GraphicsTypeOK, Register

(* The memory takes the write that the output registers hold.              *)
LEMMA FrameClock ==
  ASSUME GraphicsTypeOK, VideoMemory, sram.write => sram.colour \in Colour
  PROVE  frame' = Shown /\ Shown \in [Pixel -> Colour]
<1>1. sram.write => <<sram.x, sram.y>> \in Pixel
  BY DEF GraphicsTypeOK, Pixel
<1>. QED BY <1>1 DEF GraphicsTypeOK, VideoMemory, Shown

(* A clock without a new write leaves what is drawn as it is.              *)
LEMMA NothingPlotted ==
  ASSUME frame' = Shown, ~sram'.write, regs' = regs
  PROVE  Shown' = Shown /\ \A p : Done(p)' <=> Done(p)
  BY DEF Shown, Done

(* One with a write draws its pixel and keeps the others.                  *)
LEMMA OnePlotted ==
  ASSUME NEW at \in Pixel, frame' = Shown, Shown \in [Pixel -> Colour], regs' = regs,
         sram'.write, sram'.colour = regs.Colour, <<sram'.x, sram'.y>> = at
  PROVE  Done(at)' /\ \A p \in Pixel : Done(p) => Done(p)'
<1>1. Shown' = [Shown EXCEPT ![at] = regs.Colour]
  BY DEF Shown
<1>. QED BY <1>1 DEF Done

(* The pixel that an access names, on the screen.                          *)
LEMMA AccessAt ==
  ASSUME NEW x \in Int, NEW y \in Int, NEW select \in Int, Access(TRUE, x, y, select)
  PROVE  /\ sram'.write /\ sram'.colour = regs.Colour
         /\ <<sram'.x, sram'.y>> = Clip(x - (x % 2) + (select % 2), y)
         /\ <<sram'.x, sram'.y>> \in Pixel
         /\ select = x => <<sram'.x, sram'.y>> = Clip(x, y)
<1>1. select % 2 \in 0..1 /\ x % 2 \in 0..1
  BY PairOf
<1>2. sram'.x = (x % Cols) - (x % 2) + (select % 2) /\ sram'.y = y % Rows
      /\ sram'.write /\ sram'.colour = regs.Colour
  BY DEF Access
<1>3. sram'.x = (x - (x % 2) + (select % 2)) % Cols
  <2>1. PICK bit \in 0..1 : bit = select % 2
    BY <1>1
  <2>2. (x % Cols) - (x % 2) + bit = (x - (x % 2) + bit) % Cols
    BY PairOf
  <2>. QED BY <1>2, <2>1, <2>2
<1>4. <<sram'.x, sram'.y>> = Clip(x - (x % 2) + (select % 2), y)
  BY <1>2, <1>3 DEF Clip
<1>5. x - (x % 2) + (select % 2) \in Int
  BY <1>1
<1>6. select = x => x - (x % 2) + (select % 2) = x
  BY <1>1
<1>. QED BY <1>2, <1>4, <1>5, <1>6, ClipType

(* Lines: the longer and the shorter side, and the pixel k steps along the *)
(* longer one and m along the shorter.                                     *)
DX(r) == r.X2 - r.X1
DY(r) == r.Y2 - r.Y1
Long(r) == Larger(Span(DX(r)), Span(DY(r)))
Steep(r) == Span(DY(r)) > Span(DX(r))
Short(r) == IF Steep(r) THEN Span(DX(r)) ELSE Span(DY(r))
Minor(r, k) == (2 * Short(r) * k + Long(r)) \div (2 * Long(r))

Column(r, k, m) == IF Steep(r) THEN r.X1 + Way(DX(r)) * m ELSE r.X1 + k * Way(DX(r))
Row(r, k, m) == IF Steep(r) THEN r.Y1 + k * Way(DY(r)) ELSE r.Y1 + Way(DY(r)) * m
Nearest(r, k) == Clip(Column(r, k, Minor(r, k)), Row(r, k, Minor(r, k)))

(* The working registers before the first pixel, and while one is chosen:  *)
(* Counter counts the pixels drawn from 1, m the steps along the shorter   *)
(* side, and Err is twice the distance still wanted there, by long.        *)
Ways == w.s1 = Way(DX(regs)) /\ w.s2 = Way(DY(regs))
Begun == Ways /\ w.X = regs.X1 /\ w.Y = regs.Y1 /\ w.Counter = 1
Sides == w.dX = Span(DX(regs)) /\ w.dY = Span(DY(regs))
Sorted ==
  /\ w.dX = Long(regs) /\ w.dY = Short(regs) /\ Long(regs) > 0
  /\ w.Interchange <=> Steep(regs)
Stands(k, m) == w.X = Column(regs, k, m) /\ w.Y = Row(regs, k, m)

AtPixel(k, m) ==
  /\ Stands(k, m) /\ w.Counter = k + 1 /\ k <= w.dX
  /\ w.Err = 2 * w.dY * (k + 1) - w.dX - 2 * w.dX * m
  /\ 2 * w.dX * m <= 2 * w.dY * k + w.dX
  /\ 2 * w.dY * k + w.dX < 2 * w.dX * m + 2 * w.dX

PastPixel(k, m) ==
  /\ Stands(k, m) /\ w.Counter = k + 2 /\ k < w.dX
  /\ w.Err = 2 * w.dY * (k + 1) - w.dX - 2 * w.dX * m
  /\ 2 * w.dX * m <= 2 * w.dY * (k + 1) + w.dX

LineInv ==
  /\ CurrentState = "DrawLine1" => Begun /\ Sides /\ ~w.Interchange
  /\ CurrentState = "DrawLine2" =>
       /\ Begun /\ Sides /\ Long(regs) > 0 /\ (w.Interchange <=> Steep(regs))
       /\ Steep(regs) => w.SwapX = w.dX /\ w.SwapY = w.dY
  /\ CurrentState = "DrawLine3" => Begun /\ Sorted
  /\ CurrentState \in {"DrawLine4", "DrawLine5", "DrawLine6"} =>
       /\ Ways /\ Sorted
       /\ \A k \in 0..w.Counter - 2 : Done(Nearest(regs, k))
  /\ CurrentState = "DrawLine4" => \E k, m \in Nat : AtPixel(k, m)
  /\ CurrentState \in {"DrawLine5", "DrawLine6"} => \E k, m \in Nat : PastPixel(k, m)
  /\ CurrentState = "DrawLine6" => w.Err < 0

FigureInv == CommandInv /\ WriteInv /\ StraightInv /\ ReadInv /\ LineInv

(* A figure is complete when its last state is left.                       *)
Ended == CurrentState' = "Idle" => Complete'

(* The pixels of a line, step by step along its longer side.               *)
LEMMA LinePixelsAre ==
  ASSUME NEW r
  PROVE  LinePixels(r) = {Nearest(r, k) : k \in 0..Long(r) - 1}
  BY DEF LinePixels, Nearest, Column, Row, Minor, Short, Long, Steep, DX, DY

(* The sides of a line.                                                    *)
LEMMA SideTypes ==
  ASSUME NEW r, r.X1 \in Int, r.X2 \in Int, r.Y1 \in Int, r.Y2 \in Int
  PROVE  /\ Long(r) \in Nat /\ Short(r) \in Nat /\ Short(r) <= Long(r)
         /\ DX(r) \in Int /\ DY(r) \in Int
         /\ Span(DX(r)) \in Nat /\ Span(DY(r)) \in Nat
         /\ Way(DX(r)) \in {-1, 0, 1} /\ Way(DY(r)) \in {-1, 0, 1}
         /\ (Long(r) = 0 <=> Span(DX(r)) = 0 /\ Span(DY(r)) = 0)
BY DEF Long, Short, Steep, DX, DY, Larger, Span, Way

(* Every point of it is on the screen, however far it runs.                *)
LEMMA PointTypes ==
  ASSUME NEW r, r.X1 \in Int, r.X2 \in Int, r.Y1 \in Int, r.Y2 \in Int,
         NEW k \in Int, NEW m \in Int
  PROVE  /\ Column(r, k, m) \in Int /\ Row(r, k, m) \in Int
         /\ Clip(Column(r, k, m), Row(r, k, m)) \in Pixel
<1>1. Way(DX(r)) \in Int /\ Way(DY(r)) \in Int
  BY SideTypes
<1>2. Column(r, k, m) \in Int /\ Row(r, k, m) \in Int
  BY <1>1 DEF Column, Row
<1>. QED BY <1>2, ClipType

(* The nearest pixel is the one within half a step of the ideal line.      *)
LEMMA MinorIs ==
  ASSUME NEW r, r.X1 \in Int, r.X2 \in Int, r.Y1 \in Int, r.Y2 \in Int, Long(r) > 0,
         NEW k \in Nat, NEW m \in Nat,
         2 * Long(r) * m <= 2 * Short(r) * k + Long(r),
         2 * Short(r) * k + Long(r) < 2 * Long(r) * m + 2 * Long(r)
  PROVE  Minor(r, k) = m
<1>1. Long(r) \in Nat /\ Short(r) \in Nat
  BY SideTypes
<1>. DEFINE a == 2 * Short(r) * k + Long(r)
            b == 2 * Long(r)
<1>2. a \in Int /\ b \in Nat \ {0} /\ m \in Int /\ b * m <= a /\ a < b * m + b
  BY <1>1
<1>3. a \div b = m
  <2>. HIDE DEF a, b
  <2>. QED BY <1>2, QuotientIs
<1>. QED BY <1>3 DEF Minor

(* The registers hold what the call at hand has written of its arguments.  *)
ArgsInv == calls # <<>> => Holds(regs, Head(calls), step)

(* A command in flight has its colour.                                     *)
ColourInv ==
  InFlight => \/ regs.Command \notin {DrawHLineCmd, DrawVLineCmd, DrawLineCmd, PutAPixelCmd,
                                      ProgramPaletteColour}
              \/ regs.Colour \in Colour

(* From the command of ReadAPixel on: once the controller is idle, the     *)
(* pixel is in the latch, and the driver knows when it fetches it.         *)
FetchInv ==
  calls # <<>> /\ step > CommandStep(Head(calls)) =>
    /\ CurrentState \in {"Idle", "ProcessCommand", "ReadPixel", "ReadPixel1", "ReadPixel2"}
    /\ ~sram.write /\ ~pallette_port.write
    /\ CurrentState = "Idle" /\ ~CommandWritten_H
         => Colour_Latch = frame[Clip(regs.X1, regs.Y1)]
    /\ step = CommandStep(Head(calls)) + 2 => Quiet /\ CurrentState = "Idle"

(* A clock of a figure: the registers stay, the memory takes the write.    *)
Ticks ==
  /\ GraphicsTypeOK /\ FigureInv
  /\ regs' = regs /\ frame' = Shown /\ Shown \in [Pixel -> Colour]
  /\ PaletteOutput

(* Only PalletteReProgram writes the palette.                              *)
LEMMA NoEntryWritten ==
  ASSUME PaletteOutput, CurrentState # "PalletteReProgram"
  PROVE  ~pallette_port'.write
  BY DEF PaletteOutput, NoEntry

(* The pixels of the straight lines.                                       *)
LEMMA RowPixels ==
  ASSUME NEW r, r.Command = DrawHLineCmd
  PROVE  PixelsOf(r) = {Clip(x, r.Y1) : x \in r.X1..Larger(r.X1, r.X2)}
  BY CommandNumbers DEF PixelsOf

LEMMA ColumnPixels ==
  ASSUME NEW r, r.Command = DrawVLineCmd
  PROVE  PixelsOf(r) = {Clip(r.X1 - (r.X1 % 2) + (y % 2), y) : y \in r.Y1..Larger(r.Y1, r.Y2)}
  BY CommandNumbers DEF PixelsOf

(* A horizontal line: its pixels from the left to X are drawn.             *)
LEMMA HlineStep ==
  ASSUME Ticks, AtDrawHline
  PROVE  FigureInv' /\ Ended
<1>1. /\ regs' = regs /\ frame' = Shown /\ Shown \in [Pixel -> Colour]
      /\ regs.X1 \in Int /\ regs.X2 \in Int /\ regs.Y1 \in Int /\ w.X \in Int
  BY RegisterTypes DEF Ticks
<1>2. regs.Command = DrawHLineCmd /\ ~pallette_port'.write
  BY NoEntryWritten DEF Ticks, FigureInv, CommandInv, AtDrawHline, In
<1>3. PixelsOf(regs) = {Clip(x, regs.Y1) : x \in regs.X1..Larger(regs.X1, regs.X2)}
  BY <1>2, RowPixels
<1>4. w \in [X : Int, Y : Int, dX : Nat, dY : Nat,
             s1 : {-1, 0, 1}, s2 : {-1, 0, 1}, Interchange : BOOLEAN,
             Err : Int, Counter : Nat, SwapX : Nat, SwapY : Nat]
  BY DEF Ticks, GraphicsTypeOK
<1>5. regs.X1 <= Larger(regs.X1, regs.X2) /\ Larger(regs.X1, regs.X2) \in Int
      /\ Larger(regs.X1, regs.X2) \in {regs.X1, regs.X2}
      /\ regs.X2 <= Larger(regs.X1, regs.X2)
  BY <1>1 DEF Larger
<1>6. CASE CurrentState = "DrawHline"
  <2>1. CurrentState' = "DrawHline1" /\ w'.X = regs.X1 /\ ~sram'.write
    BY <1>4, <1>6 DEF AtDrawHline, In, NoPlot, NoAccess
  <2>2. RowDone(w.X - 1)'
    BY <1>1, <1>5, <2>1 DEF RowDone
  <2>. QED
    BY <1>1, <1>2, <2>1, <2>2
    DEF FigureInv, CommandInv, WriteInv, StraightInv, ReadInv, LineInv, Ended
<1>7. CASE CurrentState = "DrawHline1"
  <2>1. CurrentState' = "DrawHline2" /\ w' = w /\ Access(TRUE, w.X, regs.Y1, w.X)
    BY <1>7 DEF AtDrawHline, In, Plots
  <2>2. RowDone(w.X - 1)
    BY <1>7 DEF Ticks, FigureInv, StraightInv
  <2>3. PICK at \in Pixel : at = Clip(w.X, regs.Y1) /\ <<sram'.x, sram'.y>> = at
                            /\ sram'.write /\ sram'.colour = regs.Colour
    BY <1>1, <2>1, AccessAt
  <2>4. Done(at)' /\ \A p \in Pixel : Done(p) => Done(p)'
    BY <1>1, <2>3, OnePlotted
  <2>5. \A i \in regs.X1..w.X : Done(Clip(i, regs.Y1))'
    BY <1>1, <2>2, <2>3, <2>4, ClipType DEF RowDone
  <2>6. RowDone(w.X)'
    BY <1>1, <2>1, <2>2, <2>5 DEF RowDone
  <2>7. at \in PixelsOf(regs)
    BY <1>3, <2>2, <2>3 DEF RowDone
  <2>. QED
    BY <1>1, <1>2, <2>1, <2>3, <2>6, <2>7
    DEF FigureInv, CommandInv, WriteInv, StraightInv, ReadInv, LineInv, Ended
<1>8. CASE CurrentState = "DrawHline2"
  <2>1. ~sram'.write /\ RowDone(w.X)
    BY <1>8 DEF AtDrawHline, In, NoPlot, NoAccess, Ticks, FigureInv, StraightInv
  <2>2. \A p : Done(p)' <=> Done(p)
    BY <1>1, <2>1, NothingPlotted
  <2>3. CASE w.X < regs.X2
    <3>1. CurrentState' = "DrawHline1" /\ w'.X = w.X + 1
      BY <1>1, <1>4, <1>8, <2>3 DEF AtDrawHline, In
    <3>2. RowDone(w.X - 1)'
      BY <1>1, <1>5, <2>1, <2>2, <2>3, <3>1 DEF RowDone
    <3>. QED
      BY <1>1, <1>2, <2>1, <3>1, <3>2
      DEF FigureInv, CommandInv, WriteInv, StraightInv, ReadInv, LineInv, Ended
  <2>4. CASE w.X >= regs.X2
    <3>1. CurrentState' = "Idle"
      BY <1>1, <1>8, <2>4 DEF AtDrawHline, In
    <3>2. w.X = Larger(regs.X1, regs.X2)
      BY <1>1, <1>5, <2>1, <2>4 DEF RowDone
    <3>3. Complete'
      BY <1>1, <1>3, <2>1, <2>2, <3>2 DEF Complete, RowDone
    <3>. QED
      BY <1>1, <1>2, <2>1, <3>1, <3>3
      DEF FigureInv, CommandInv, WriteInv, StraightInv, ReadInv, LineInv, Ended
  <2>. QED BY <1>1, <2>3, <2>4
<1>. QED BY <1>6, <1>7, <1>8 DEF AtDrawHline, In

(* A vertical line: its pixels from the top to Y are drawn, each in its    *)
(* column.                                                                 *)
LEMMA VlineStep ==
  ASSUME Ticks, AtDrawVline
  PROVE  FigureInv' /\ Ended
<1>. DEFINE Point(y) == Clip(regs.X1 - (regs.X1 % 2) + (y % 2), y)
<1>1. /\ regs' = regs /\ frame' = Shown /\ Shown \in [Pixel -> Colour]
      /\ regs.X1 \in Int /\ regs.Y1 \in Int /\ regs.Y2 \in Int /\ w.Y \in Int
  BY RegisterTypes DEF Ticks
<1>2. regs.Command = DrawVLineCmd /\ ~pallette_port'.write
  BY NoEntryWritten DEF Ticks, FigureInv, CommandInv, AtDrawVline, In
<1>3. PixelsOf(regs) = {Point(y) : y \in regs.Y1..Larger(regs.Y1, regs.Y2)}
  BY <1>2, ColumnPixels
<1>4. w \in [X : Int, Y : Int, dX : Nat, dY : Nat,
             s1 : {-1, 0, 1}, s2 : {-1, 0, 1}, Interchange : BOOLEAN,
             Err : Int, Counter : Nat, SwapX : Nat, SwapY : Nat]
  BY DEF Ticks, GraphicsTypeOK
<1>5. regs.Y1 <= Larger(regs.Y1, regs.Y2) /\ Larger(regs.Y1, regs.Y2) \in Int
      /\ Larger(regs.Y1, regs.Y2) \in {regs.Y1, regs.Y2}
      /\ regs.Y2 <= Larger(regs.Y1, regs.Y2)
  BY <1>1 DEF Larger
<1>6. \A y \in Int : Point(y) \in Pixel
  <2>. TAKE y \in Int
  <2>1. regs.X1 % 2 \in Int /\ y % 2 \in Int
    BY <1>1
  <2>2. regs.X1 - (regs.X1 % 2) + (y % 2) \in Int
    BY <1>1, <2>1
  <2>. QED BY <2>2, ClipType
<1>7. /\ \A y : ColumnDone(y) <=> /\ w.Y \in regs.Y1..Larger(regs.Y1, regs.Y2)
                                  /\ \A i \in regs.Y1..y : Done(Point(i))
      /\ \A y : ColumnDone(y)' <=> /\ w'.Y \in regs.Y1..Larger(regs.Y1, regs.Y2)
                                   /\ \A i \in regs.Y1..y : Done(Point(i))'
  BY <1>1 DEF ColumnDone
<1>8. CASE CurrentState = "DrawVline"
  <2>1. CurrentState' = "DrawVline1" /\ w'.Y = regs.Y1 /\ ~sram'.write
    BY <1>4, <1>8 DEF AtDrawVline, In, NoPlot, NoAccess
  <2>2. ColumnDone(w.Y - 1)'
    BY <1>1, <1>5, <2>1 DEF ColumnDone
  <2>. QED
    BY <1>1, <1>2, <2>1, <2>2
    DEF FigureInv, CommandInv, WriteInv, StraightInv, ReadInv, LineInv, Ended
<1>. HIDE DEF Point
<1>9. CASE CurrentState = "DrawVline1"
  <2>1. CurrentState' = "DrawVline2" /\ w' = w /\ Access(TRUE, regs.X1, w.Y, w.Y)
    BY <1>9 DEF AtDrawVline, In
  <2>2. ColumnDone(w.Y - 1)
    BY <1>9 DEF Ticks, FigureInv, StraightInv
  <2>3. PICK at \in Pixel : at = Point(w.Y) /\ <<sram'.x, sram'.y>> = at
                            /\ sram'.write /\ sram'.colour = regs.Colour
    BY <1>1, <1>6, <2>1, AccessAt DEF Point
  <2>4. Done(at)' /\ \A p \in Pixel : Done(p) => Done(p)'
    BY <1>1, <2>3, OnePlotted
  <2>5. ASSUME NEW i \in regs.Y1..w.Y PROVE Done(Clip(regs.X1 - (regs.X1 % 2) + (i % 2), i))'
    <3>1. i \in Int /\ Point(i) \in Pixel
      BY <1>1, <1>6
    <3>2. CASE i = w.Y
      BY <1>1, <2>3, <2>4, <3>2 DEF Point
    <3>3. CASE i # w.Y
      <4>1. i \in regs.Y1..w.Y - 1
        BY <1>1, <3>3
      <4>2. Done(Point(i))
        BY <2>2, <4>1 DEF ColumnDone, Point
      <4>. QED BY <1>1, <2>4, <3>1, <4>2 DEF Point
    <3>. QED BY <3>2, <3>3
  <2>6. ColumnDone(w.Y)'
    BY <1>1, <2>1, <2>2, <2>5 DEF ColumnDone
  <2>7. at \in PixelsOf(regs)
    BY <1>3, <2>2, <2>3 DEF ColumnDone
  <2>. QED
    BY <1>1, <1>2, <2>1, <2>3, <2>6, <2>7
    DEF FigureInv, CommandInv, WriteInv, StraightInv, ReadInv, LineInv, Ended
<1>10. CASE CurrentState = "DrawVline2"
  <2>1. ~sram'.write /\ ColumnDone(w.Y)
    BY <1>10 DEF AtDrawVline, In, NoPlot, NoAccess, Ticks, FigureInv, StraightInv
  <2>2. \A p : Done(p)' <=> Done(p)
    BY <1>1, <2>1, NothingPlotted
  <2>3. CASE w.Y < regs.Y2
    <3>1. CurrentState' = "DrawVline1" /\ w'.Y = w.Y + 1
      BY <1>1, <1>4, <1>10, <2>3 DEF AtDrawVline, In
    <3>2. ColumnDone(w.Y - 1)'
      BY <1>1, <1>5, <2>1, <2>2, <2>3, <3>1 DEF ColumnDone
    <3>. QED
      BY <1>1, <1>2, <2>1, <3>1, <3>2
      DEF FigureInv, CommandInv, WriteInv, StraightInv, ReadInv, LineInv, Ended
  <2>4. CASE w.Y >= regs.Y2
    <3>1. CurrentState' = "Idle"
      BY <1>1, <1>10, <2>4 DEF AtDrawVline, In
    <3>2. w.Y = Larger(regs.Y1, regs.Y2)
      BY <1>1, <1>5, <2>1, <2>4 DEF ColumnDone
    <3>3. Complete'
      BY <1>1, <1>3, <2>1, <2>2, <3>2 DEF Complete, ColumnDone, Point
    <3>. QED
      BY <1>1, <1>2, <2>1, <3>1, <3>3
      DEF FigureInv, CommandInv, WriteInv, StraightInv, ReadInv, LineInv, Ended
  <2>. QED BY <1>1, <2>3, <2>4
<1>. QED BY <1>8, <1>9, <1>10 DEF AtDrawVline, In

(* A single pixel.                                                         *)
LEMMA DotStep ==
  ASSUME Ticks, AtDrawPixel
  PROVE  FigureInv' /\ Ended
<1>1. /\ regs' = regs /\ frame' = Shown /\ Shown \in [Pixel -> Colour]
      /\ regs.X1 \in Int /\ regs.Y1 \in Int
  BY RegisterTypes DEF Ticks
<1>2. regs.Command = PutAPixelCmd /\ ~pallette_port'.write /\ CurrentState' = "Idle"
  BY NoEntryWritten DEF Ticks, FigureInv, CommandInv, AtDrawPixel, In
<1>3. PixelsOf(regs) = {Clip(regs.X1, regs.Y1)}
  BY <1>2, CommandNumbers DEF PixelsOf
<1>4. Access(TRUE, regs.X1, regs.Y1, regs.X1)
  BY DEF AtDrawPixel, Plots
<1>5. PICK at \in Pixel : at = Clip(regs.X1, regs.Y1) /\ <<sram'.x, sram'.y>> = at
                          /\ sram'.write /\ sram'.colour = regs.Colour
  BY <1>1, <1>4, AccessAt
<1>6. Done(at)'
  BY <1>1, <1>5, OnePlotted
<1>7. Complete'
  BY <1>1, <1>3, <1>5, <1>6 DEF Complete
<1>. QED
  BY <1>1, <1>2, <1>3, <1>5, <1>7
  DEF FigureInv, CommandInv, WriteInv, StraightInv, ReadInv, LineInv, Ended

(* A pixel that is read: address, wait, latch.                             *)
LEMMA ReadStep ==
  ASSUME Ticks, AtReadPixel, VideoMemory
  PROVE  FigureInv' /\ Ended
<1>1. /\ regs' = regs /\ frame' = Shown /\ regs.X1 \in Int /\ regs.Y1 \in Int
      /\ ~sram.write /\ ~sram'.write /\ ~pallette_port'.write
      /\ CurrentState' \in {"ReadPixel1", "ReadPixel2", "Idle"}
  BY RegisterTypes, NoEntryWritten
  DEF Ticks, FigureInv, ReadInv, AtReadPixel, In, NoPlot, NoAccess, Access
<1>2. regs.Command = GetAPixelCmd
  BY DEF Ticks, FigureInv, CommandInv, AtReadPixel, In
<1>3. PixelsOf(regs) = {}
  BY <1>2, CommandNumbers DEF PixelsOf
<1>4. /\ regs.X1 % 2 \in 0..1 /\ regs.X1 % Cols \in 0..Cols-1 /\ Cols \in Nat
      /\ \A bit \in 0..1 : ((regs.X1 % Cols) - (regs.X1 % 2) + bit) % 2 = bit
  BY <1>1, PairOf, ScreenAssumption
<1>5. CurrentState' = "ReadPixel1" => Addressed'
  <2>1. CurrentState' = "ReadPixel1" => Access(FALSE, regs.X1, regs.Y1, 0)
    BY DEF AtReadPixel, In
  <2>2. (regs.X1 % Cols) - (regs.X1 % 2) \in Int
    BY <1>4
  <2>. QED BY <1>1, <2>1, <2>2 DEF Access, Addressed
<1>6. CurrentState' = "ReadPixel2" => AtOutput'
  <2>. SUFFICES ASSUME CurrentState' = "ReadPixel2" PROVE AtOutput'
    OBVIOUS
  <2>1. Addressed
    BY DEF Ticks, FigureInv, ReadInv, AtReadPixel, In
  <2>2. PICK bit \in 0..1 : bit = regs.X1 % 2
    BY <1>4
  <2>3. PICK column \in Int : column = (regs.X1 % Cols) - bit
    BY <1>4
  <2>4. column % 2 = 0 /\ column + bit = regs.X1 % Cols
    <3>1. (regs.X1 % Cols) - (regs.X1 % 2) + 0 = column
      BY <1>4, <2>2, <2>3
    <3>2. ((regs.X1 % Cols) - (regs.X1 % 2) + 0) % 2 = 0
      BY <1>4
    <3>. QED BY <1>4, <2>3, <3>1, <3>2
  <2>5. frame' = frame
    BY <1>1 DEF Shown
  <2>6. sram.x = column /\ sram.y = regs.Y1 % Rows
    BY <2>1, <2>2, <2>3 DEF Addressed
  <2>7. sram_q' = <<frame[<<column, regs.Y1 % Rows>>], frame[<<column + 1, regs.Y1 % Rows>>]>>
    BY <2>4, <2>6 DEF VideoMemory
  <2>8. sram_q'[1 + bit] = frame[<<column + bit, regs.Y1 % Rows>>]
    BY <2>3, <2>7
  <2>. QED BY <1>1, <2>2, <2>4, <2>5, <2>8 DEF AtOutput, Clip
<1>. QED
  BY <1>1, <1>2, <1>3, <1>5, <1>6
  DEF FigureInv, CommandInv, WriteInv, StraightInv, ReadInv, LineInv, Ended, Complete

(* A palette entry: written in the clock that leaves the state.            *)
LEMMA PaletteEntryStep ==
  ASSUME Ticks, AtPalletteReProgram
  PROVE  /\ FigureInv' /\ Ended
         /\ CurrentState' = "Idle" => pallette_port'.write
<1>1. /\ regs' = regs /\ ~sram'.write /\ regs.Command = ProgramPaletteColour
      /\ CurrentState = "PalletteReProgram"
      /\ CurrentState' = IF V_Sync_out THEN "PalletteReProgram" ELSE "Idle"
  BY DEF Ticks, FigureInv, CommandInv, AtPalletteReProgram, In, NoPlot, NoAccess
<1>2. PixelsOf(regs) = {}
  BY <1>1, CommandNumbers DEF PixelsOf
<1>3. pallette_port' = [write |-> ~V_Sync_out, number |-> regs.Colour,
                        rgb |-> regs.X1 * 2^16 + regs.Y1]
  BY <1>1 DEF Ticks, PaletteOutput
<1>4. /\ pallette_port'.write <=> ~V_Sync_out
      /\ pallette_port'.number = regs.Colour /\ pallette_port'.rgb = regs.X1 * 2^16 + regs.Y1
  BY <1>3, Zenon
<1>. QED
  BY <1>1, <1>2, <1>4
  DEF FigureInv, CommandInv, WriteInv, StraightInv, ReadInv, LineInv, Ended, Complete

(* No figure.                                                              *)
LEMMA IdleStep ==
  ASSUME AtIdle, PaletteOutput
  PROVE  FigureInv'
<1>1. CurrentState' \in {"Idle", "ProcessCommand"} /\ ~sram'.write /\ ~pallette_port'.write
  BY NoEntryWritten DEF AtIdle, In, NoPlot, NoAccess
<1>. QED BY <1>1 DEF FigureInv, CommandInv, WriteInv, StraightInv, ReadInv, LineInv

(* The command is taken up; one that is not known draws nothing.           *)
LEMMA ProcessStep ==
  ASSUME Ticks, AtProcessCommand
  PROVE  /\ FigureInv' /\ Ended
         /\ CurrentState' = "Idle" => regs.Command # ProgramPaletteColour
<1>1. /\ regs' = regs /\ ~sram'.write /\ ~pallette_port'.write
      /\ CurrentState = "ProcessCommand" /\ CurrentState' = FirstState(regs.Command)
  BY NoEntryWritten DEF Ticks, AtProcessCommand, In, NoPlot, NoAccess
<1>2. PICK state : state = FirstState(regs.Command)
  OBVIOUS
<1>3. /\ state \in {"DrawPixel", "ReadPixel", "PalletteReProgram", "DrawHline", "DrawVline",
                    "DrawLine", "Idle"}
      /\ state = "DrawPixel" => regs.Command = PutAPixelCmd
      /\ state = "ReadPixel" => regs.Command = GetAPixelCmd
      /\ state = "PalletteReProgram" => regs.Command = ProgramPaletteColour
      /\ state = "DrawHline" => regs.Command = DrawHLineCmd
      /\ state = "DrawVline" => regs.Command = DrawVLineCmd
      /\ state = "DrawLine" => regs.Command = DrawLineCmd
      /\ state = "Idle" => regs.Command \notin {DrawHLineCmd, DrawVLineCmd, DrawLineCmd,
                                                PutAPixelCmd, ProgramPaletteColour}
  BY <1>2, CommandNumbers DEF FirstState
<1>4. state = "Idle" => PixelsOf(regs) = {} /\ regs.Command # ProgramPaletteColour
  BY <1>3 DEF PixelsOf
<1>. QED
  BY <1>1, <1>2, <1>3, <1>4
  DEF FigureInv, CommandInv, WriteInv, StraightInv, ReadInv, LineInv, Ended, Complete

----------------------------------------------------------------------------
(* Bresenham's line.  Before the first pixel nothing is drawn.             *)
WorkType ==
  w \in [X : Int, Y : Int, dX : Nat, dY : Nat,
         s1 : {-1, 0, 1}, s2 : {-1, 0, 1}, Interchange : BOOLEAN,
         Err : Int, Counter : Nat, SwapX : Nat, SwapY : Nat]

(* What every state of the line uses.                                      *)
LEMMA LineFacts ==
  ASSUME Ticks, AtDrawLine
  PROVE  /\ regs' = regs /\ frame' = Shown /\ Shown \in [Pixel -> Colour] /\ WorkType
         /\ regs.X1 \in Int /\ regs.X2 \in Int /\ regs.Y1 \in Int /\ regs.Y2 \in Int
         /\ regs.Command = DrawLineCmd /\ ~pallette_port'.write
         /\ PixelsOf(regs) = {Nearest(regs, k) : k \in 0..Long(regs) - 1}
         /\ CurrentState \in {"DrawLine", "DrawLine1", "DrawLine2", "DrawLine3", "DrawLine4",
                              "DrawLine5", "DrawLine6"}
<1>1. /\ regs' = regs /\ frame' = Shown /\ Shown \in [Pixel -> Colour] /\ WorkType
      /\ regs.X1 \in Int /\ regs.X2 \in Int /\ regs.Y1 \in Int /\ regs.Y2 \in Int
  BY RegisterTypes DEF Ticks, GraphicsTypeOK, WorkType
<1>2. CurrentState \in {"DrawLine", "DrawLine1", "DrawLine2", "DrawLine3", "DrawLine4",
                        "DrawLine5", "DrawLine6"}
  BY DEF AtDrawLine, LineSetUp, LineSwap, LineError, LinePlot, LineSteps, In
<1>3. regs.Command = DrawLineCmd /\ ~pallette_port'.write
  BY <1>2, NoEntryWritten DEF Ticks, FigureInv, CommandInv
<1>4. PixelsOf(regs) = LinePixels(regs)
  BY <1>3, CommandNumbers DEF PixelsOf
<1>. QED BY <1>1, <1>2, <1>3, <1>4, LinePixelsAre

(* From the arguments to the sides, sorted: a line of no length ends here. *)
LEMMA LineBeginStep ==
  ASSUME Ticks, AtDrawLine, CurrentState \in {"DrawLine", "DrawLine1", "DrawLine2", "DrawLine3"}
  PROVE  FigureInv' /\ Ended
<1>1. ~sram'.write
  BY DEF AtDrawLine, LineSetUp, LineSwap, LineError, LinePlot, LineSteps, In, NoPlot, NoAccess
<1>2. /\ Long(regs) \in Nat /\ Short(regs) \in Nat
      /\ Span(DX(regs)) \in Nat /\ Span(DY(regs)) \in Nat
      /\ Long(regs) = 0 <=> (Span(DX(regs)) = 0 /\ Span(DY(regs)) = 0)
  BY LineFacts, SideTypes
<1>3. LineInv /\ WorkType /\ regs' = regs
  BY LineFacts DEF Ticks, FigureInv
<1>4. CASE CurrentState = "DrawLine"
  <2>1. CurrentState' = "DrawLine1"
    BY <1>4 DEF AtDrawLine, LineSetUp, LineSwap, LineError, LinePlot, LineSteps, In
  <2>2. LineSetUp
    BY <1>4 DEF AtDrawLine, LineSwap, LineError, LinePlot, LineSteps, In
  <2>3. Begun' /\ Sides' /\ ~w'.Interchange
    BY <1>3, <2>2 DEF LineSetUp, WorkType, Begun, Ways, Sides, DX, DY, Magnitude, Span, Sign, Way
  <2>. QED
    BY <1>1, <2>1, <2>3, LineFacts
    DEF FigureInv, CommandInv, WriteInv, StraightInv, ReadInv, LineInv, Ended
<1>5. CASE CurrentState = "DrawLine1"
  <2>1. Begun /\ Sides /\ ~w.Interchange
    BY <1>3, <1>5 DEF LineInv
  <2>2. LineSwap
    BY <1>5 DEF AtDrawLine, LineSetUp, LineError, LinePlot, LineSteps, In
  <2>3. CASE w.dX = 0 /\ w.dY = 0
    <3>1. CurrentState' = "Idle"
      BY <1>5, <2>2, <2>3 DEF LineSwap, In
    <3>2. PixelsOf(regs) = {}
      BY <1>2, <2>1, <2>3, LineFacts DEF Sides
    <3>. QED
      BY <1>1, <1>3, <3>1, <3>2, LineFacts
      DEF FigureInv, CommandInv, WriteInv, StraightInv, ReadInv, LineInv, Ended, Complete
  <2>4. CASE ~(w.dX = 0 /\ w.dY = 0)
    <3>1. CurrentState' = "DrawLine2"
      BY <1>5, <2>2, <2>4 DEF LineSwap, In
    <3>2. w' = IF w.dY > w.dX
               THEN [w EXCEPT !.SwapX = w.dX, !.SwapY = w.dY, !.Interchange = TRUE]
               ELSE w
      BY <1>5, <2>2 DEF LineSwap, In
    <3>3. Begun' /\ Sides'
      BY <1>3, <2>1, <3>2 DEF Begun, Ways, Sides, WorkType
    <3>4. Long(regs') > 0
      BY <1>2, <1>3, <2>1, <2>4 DEF Sides
    <3>5. CASE w.dY > w.dX
      <4>1. w'.Interchange /\ w'.SwapX = w'.dX /\ w'.SwapY = w'.dY /\ Steep(regs)
        BY <1>3, <2>1, <3>2, <3>5 DEF WorkType, Sides, Steep
      <4>. QED
        BY <1>1, <1>3, <3>1, <3>3, <3>4, <4>1, LineFacts
        DEF FigureInv, CommandInv, WriteInv, StraightInv, ReadInv, LineInv, Ended
    <3>6. CASE ~(w.dY > w.dX)
      <4>1. ~w'.Interchange /\ ~Steep(regs)
        BY <1>3, <2>1, <3>2, <3>6 DEF Sides, Steep
      <4>. QED
        BY <1>1, <1>3, <3>1, <3>3, <3>4, <4>1, LineFacts
        DEF FigureInv, CommandInv, WriteInv, StraightInv, ReadInv, LineInv, Ended
    <3>. QED BY <3>5, <3>6
  <2>. QED BY <2>3, <2>4
<1>6. CASE CurrentState = "DrawLine2"
  <2>1. /\ Begun /\ Sides /\ Long(regs) > 0 /\ (w.Interchange <=> Steep(regs))
        /\ Steep(regs) => w.SwapX = w.dX /\ w.SwapY = w.dY
    BY <1>3, <1>6 DEF LineInv
  <2>2. /\ CurrentState' = "DrawLine3"
        /\ w' = IF w.Interchange THEN [w EXCEPT !.dX = w.SwapY, !.dY = w.SwapX] ELSE w
    BY <1>6 DEF AtDrawLine, LineSetUp, LineSwap, LineError, LinePlot, LineSteps, In
  <2>3. Begun'
    BY <1>3, <2>1, <2>2 DEF Begun, Ways, WorkType
  <2>4. Sorted'
    <3>1. CASE Steep(regs)
      <4>1. Long(regs) = Span(DY(regs)) /\ Short(regs) = Span(DX(regs))
        BY <1>2, <3>1 DEF Long, Short, Steep, Larger
      <4>2. w'.dX = w.SwapY /\ w'.dY = w.SwapX /\ w'.Interchange
        BY <1>3, <2>1, <2>2, <3>1 DEF WorkType
      <4>. QED BY <1>3, <2>1, <3>1, <4>1, <4>2 DEF Sorted, Sides
    <3>2. CASE ~Steep(regs)
      <4>1. Long(regs) = Span(DX(regs)) /\ Short(regs) = Span(DY(regs))
        BY <1>2, <3>2 DEF Long, Short, Steep, Larger
      <4>2. w' = w
        BY <2>1, <2>2, <3>2
      <4>. QED BY <1>3, <2>1, <3>2, <4>1, <4>2 DEF Sorted, Sides
    <3>. QED BY <3>1, <3>2
  <2>. QED
    BY <1>1, <2>2, <2>3, <2>4, LineFacts
    DEF FigureInv, CommandInv, WriteInv, StraightInv, ReadInv, LineInv, Ended
<1>7. CASE CurrentState = "DrawLine3"
  <2>1. Begun /\ Sorted
    BY <1>3, <1>7 DEF LineInv
  <2>2. CurrentState' = "DrawLine4" /\ w' = [w EXCEPT !.Err = 2 * w.dY - w.dX]
    BY <1>7 DEF AtDrawLine, LineSetUp, LineSwap, LineError, LinePlot, LineSteps, In
  <2>3. Ways' /\ Sorted'
    BY <1>3, <2>1, <2>2 DEF Begun, Ways, Sorted, WorkType
  <2>4. w'.Counter = 1 /\ w'.X = regs.X1 /\ w'.Y = regs.Y1
        /\ w'.dX = w.dX /\ w'.dY = w.dY /\ w'.Err = 2 * w.dY - w.dX
    BY <1>3, <2>1, <2>2 DEF Begun, WorkType
  <2>5. AtPixel(0, 0)'
    <3>1. Stands(0, 0)'
      <4>1. Column(regs, 0, 0) = regs.X1 /\ Row(regs, 0, 0) = regs.Y1
        BY LineFacts, SideTypes DEF Column, Row
      <4>. QED BY <1>3, <2>4, <4>1 DEF Stands
    <3>2. w.dX \in Nat /\ w.dY \in Nat /\ w.dX > 0
      BY <1>3, <2>1 DEF WorkType, Sorted
    <3>. QED BY <2>4, <3>1, <3>2 DEF AtPixel
  <2>6. \A k \in 0..w'.Counter - 2 : Done(Nearest(regs, k))'
    BY <2>4
  <2>7. LineInv'
    BY <1>3, <2>2, <2>3, <2>5, <2>6 DEF LineInv
  <2>. QED
    BY <1>1, <2>2, <2>7, LineFacts
    DEF FigureInv, CommandInv, WriteInv, StraightInv, ReadInv, Ended
<1>. QED BY <1>4, <1>5, <1>6, <1>7

(* One step along either side moves the point by one.                      *)
LEMMA NextPoint ==
  ASSUME NEW r, r.X1 \in Int, r.X2 \in Int, r.Y1 \in Int, r.Y2 \in Int,
         NEW k \in Nat, NEW m \in Nat
  PROVE  /\ Steep(r) => /\ Column(r, k, m + 1) = Column(r, k, m) + Way(DX(r))
                        /\ Row(r, k, m + 1) = Row(r, k, m)
                        /\ Column(r, k + 1, m) = Column(r, k, m)
                        /\ Row(r, k + 1, m) = Row(r, k, m) + Way(DY(r))
         /\ ~Steep(r) => /\ Row(r, k, m + 1) = Row(r, k, m) + Way(DY(r))
                         /\ Column(r, k, m + 1) = Column(r, k, m)
                         /\ Column(r, k + 1, m) = Column(r, k, m) + Way(DX(r))
                         /\ Row(r, k + 1, m) = Row(r, k, m)
<1>1. PICK a \in Int, b \in Int : a = Way(DX(r)) /\ b = Way(DY(r))
  BY SideTypes
<1>2. /\ a * (m + 1) = a * m + a /\ b * (m + 1) = b * m + b
      /\ (k + 1) * a = k * a + a /\ (k + 1) * b = k * b + b
      /\ a * m \in Int /\ b * m \in Int /\ k * a \in Int /\ k * b \in Int
  OBVIOUS
<1>. QED BY <1>1, <1>2 DEF Column, Row

(* A pixel of the line that is drawn stays drawn.                          *)
LEMMA DoneAt ==
  ASSUME regs' = regs, NEW i, Done(Nearest(regs, i)), \A p : Done(p) => Done(p)'
  PROVE  Done(Nearest(regs, i))'
<1>1. PICK at : at = Nearest(regs, i)
  OBVIOUS
<1>2. Done(at)'
  BY <1>1
<1>. QED BY <1>1, <1>2 DEF Done

(* The pixel is plotted, the nearest to the ideal line (MinorIs).          *)
LEMMA LinePlotStep ==
  ASSUME Ticks, AtDrawLine, CurrentState = "DrawLine4"
  PROVE  FigureInv' /\ Ended
<1>1. /\ regs' = regs /\ frame' = Shown /\ Shown \in [Pixel -> Colour] /\ WorkType
      /\ regs.X1 \in Int /\ regs.X2 \in Int /\ regs.Y1 \in Int /\ regs.Y2 \in Int
      /\ Long(regs) \in Nat /\ Short(regs) \in Nat
  BY LineFacts, SideTypes
<1>2. Ways /\ Sorted /\ \A k \in 0..w.Counter - 2 : Done(Nearest(regs, k))
  BY DEF Ticks, FigureInv, LineInv
<1>3. PICK k \in Nat, m \in Nat : AtPixel(k, m)
  BY DEF Ticks, FigureInv, LineInv
<1>4. LinePlot
  BY DEF AtDrawLine, LineSetUp, LineSwap, LineError, LineSteps, In
<1>5. w.dX = Long(regs) /\ w.dY = Short(regs) /\ Long(regs) > 0 /\ w.Counter = k + 1 /\ k <= w.dX
  BY <1>2, <1>3 DEF Sorted, AtPixel
<1>6. \A i \in Nat : Nearest(regs, i) \in Pixel
  <2>. TAKE i \in Nat
  <2>1. Minor(regs, i) \in Int
    <3>1. 2 * Short(regs) * i + Long(regs) \in Int /\ 2 * Long(regs) \in Nat \ {0}
      BY <1>1, <1>5
    <3>. QED BY <3>1, Remainder DEF Minor
  <2>. QED BY <1>1, <2>1, PointTypes DEF Nearest
<1>7. CASE w.Counter <= w.dX
  <2>1. /\ CurrentState' = "DrawLine5" /\ Access(TRUE, w.X, w.Y, w.X)
        /\ w' = [w EXCEPT !.Counter = @ + 1]
    <3>1. ~(w.Counter > w.dX)
      BY <1>1, <1>7 DEF WorkType
    <3>. QED BY <1>4, <3>1 DEF LinePlot, In, Plots
  <2>2. /\ w'.X = w.X /\ w'.Y = w.Y /\ w'.dX = w.dX /\ w'.dY = w.dY /\ w'.Err = w.Err
        /\ w'.s1 = w.s1 /\ w'.s2 = w.s2 /\ w'.Interchange = w.Interchange
        /\ w'.Counter = w.Counter + 1
    BY <1>1, <2>1 DEF WorkType
  <2>3. Minor(regs, k) = m
    BY <1>1, <1>3, <1>5, MinorIs DEF AtPixel
  <2>4. PICK at \in Pixel : at = Clip(w.X, w.Y) /\ <<sram'.x, sram'.y>> = at
                            /\ sram'.write /\ sram'.colour = regs.Colour
    BY <1>1, <2>1, AccessAt DEF WorkType
  <2>5. at = Nearest(regs, k)
    BY <1>3, <2>3, <2>4 DEF Nearest, AtPixel, Stands
  <2>6. Done(at)' /\ \A p \in Pixel : Done(p) => Done(p)'
    BY <1>1, <2>4, OnePlotted
  <2>7. ASSUME NEW i \in 0..w'.Counter - 2 PROVE Done(Nearest(regs, i))'
    <3>1. i \in Nat /\ i <= k
      BY <1>5, <2>2, <2>7
    <3>2. CASE i = k
      BY <1>1, <2>5, <2>6, <3>2 DEF Done
    <3>3. CASE i # k
      <4>1. i \in 0..w.Counter - 2
        BY <1>5, <3>1, <3>3
      <4>2. Done(Nearest(regs, i)) /\ Nearest(regs, i) \in Pixel
        BY <1>2, <1>6, <3>1, <4>1
      <4>3. PICK q \in Pixel : q = Nearest(regs, i)
        BY <4>2
      <4>4. Done(q)'
        BY <2>6, <4>2, <4>3
      <4>. QED BY <1>1, <4>3, <4>4 DEF Done
    <3>. QED BY <3>2, <3>3
  <2>8. PastPixel(k, m)'
    <3>1. Stands(k, m)'
      BY <1>1, <1>3, <2>2 DEF AtPixel, Stands
    <3>2. k < w.dX /\ w'.Counter = k + 2
      BY <1>1, <1>5, <1>7, <2>2
    <3>3. 2 * w.dX * m <= 2 * w.dY * (k + 1) + w.dX
      <4>1. PICK a \in Nat, b \in Nat : a = w.dX /\ b = w.dY
        BY <1>1, <1>5
      <4>2. 2 * a * m <= 2 * b * k + a
        BY <1>3, <4>1 DEF AtPixel
      <4>3. 2 * b * k <= 2 * b * (k + 1)
        OBVIOUS
      <4>4. 2 * a * m \in Int /\ 2 * b * k \in Int /\ 2 * b * (k + 1) \in Int
        OBVIOUS
      <4>5. 2 * a * m <= 2 * b * (k + 1) + a
        BY <4>2, <4>3, <4>4
      <4>. QED BY <4>1, <4>5
    <3>. QED BY <1>3, <2>2, <3>1, <3>2, <3>3 DEF AtPixel, PastPixel
  <2>9. Ways' /\ Sorted'
    BY <1>1, <1>2, <2>2 DEF Ways, Sorted
  <2>10. LineInv'
    BY <2>1, <2>7, <2>8, <2>9 DEF LineInv
  <2>11. at \in PixelsOf(regs)
    <3>1. k \in 0..Long(regs) - 1
      BY <1>1, <1>5, <1>7
    <3>. QED BY <2>5, <3>1, LineFacts
  <2>. QED
    BY <1>1, <2>1, <2>4, <2>10, <2>11, LineFacts
    DEF FigureInv, CommandInv, WriteInv, StraightInv, ReadInv, Ended
<1>8. CASE ~(w.Counter <= w.dX)
  <2>1. CurrentState' = "Idle" /\ ~sram'.write
    BY <1>4, <1>8 DEF LinePlot, In, NoPlot, NoAccess
  <2>2. \A p : Done(p)' <=> Done(p)
    BY <1>1, <2>1, NothingPlotted
  <2>3. 0..Long(regs) - 1 \subseteq 0..w.Counter - 2
    BY <1>1, <1>5, <1>8
  <2>4. Complete'
    <3>1. \A p \in PixelsOf(regs) : Done(p)
      BY <1>2, <2>3, LineFacts
    <3>. QED BY <1>1, <2>2, <3>1 DEF Complete
  <2>. QED
    BY <1>1, <2>1, <2>4, LineFacts
    DEF FigureInv, CommandInv, WriteInv, StraightInv, ReadInv, LineInv, Ended
<1>. QED BY <1>7, <1>8

(* The error chooses the next one.                                         *)
LEMMA LineMoveStep ==
  ASSUME Ticks, AtDrawLine, CurrentState \in {"DrawLine5", "DrawLine6"}
  PROVE  FigureInv' /\ Ended
<1>1. /\ regs' = regs /\ frame' = Shown /\ Shown \in [Pixel -> Colour] /\ WorkType
      /\ regs.X1 \in Int /\ regs.X2 \in Int /\ regs.Y1 \in Int /\ regs.Y2 \in Int
      /\ Long(regs) \in Nat /\ Short(regs) \in Nat
  BY LineFacts, SideTypes
<1>2. Ways /\ Sorted /\ \A k \in 0..w.Counter - 2 : Done(Nearest(regs, k))
  BY DEF Ticks, FigureInv, LineInv
<1>3. PICK k \in Nat, m \in Nat : PastPixel(k, m)
  BY DEF Ticks, FigureInv, LineInv
<1>4. LineSteps
  BY DEF AtDrawLine, LineSetUp, LineSwap, LineError, LinePlot, In
<1>5. ~sram'.write
  BY <1>4 DEF LineSteps, NoPlot, NoAccess
<1>6. \A p : Done(p)' <=> Done(p)
  BY <1>1, <1>5, NothingPlotted
<1>7. PICK a \in Nat, b \in Nat : a = w.dX /\ b = w.dY /\ a > 0
  BY <1>1, <1>2 DEF Sorted
<1>8. /\ Stands(k, m) /\ w.Counter = k + 2 /\ k < a
      /\ w.Err = 2 * b * (k + 1) - a - 2 * a * m
      /\ 2 * a * m <= 2 * b * (k + 1) + a
  BY <1>3, <1>7 DEF PastPixel
<1>9. /\ 2 * a * m \in Int /\ 2 * a * (m + 1) = 2 * a * m + 2 * a
      /\ 2 * b * (k + 1) \in Int /\ 2 * b * ((k + 1) + 1) = 2 * b * (k + 1) + 2 * b
  OBVIOUS
<1>10. ASSUME UNCHANGED <<w.s1, w.s2, w.dX, w.dY, w.Interchange, w.Counter>>
       PROVE  /\ Ways' /\ Sorted'
              /\ \A i \in 0..w'.Counter - 2 : Done(Nearest(regs, i))'
  <2>1. Ways' /\ Sorted'
    BY <1>1, <1>2, <1>10 DEF Ways, Sorted
  <2>2. \A i \in 0..w'.Counter - 2 : Done(Nearest(regs, i))'
    BY <1>1, <1>2, <1>6, <1>10, DoneAt
  <2>. QED BY <2>1, <2>2
<1>11. CASE CurrentState = "DrawLine5" /\ w.Err >= 0
  <2>1. CurrentState' = "DrawLine5" /\ w' = [MinorStep(w) EXCEPT !.Err = @ - 2 * w.dX]
    BY <1>1, <1>4, <1>11 DEF LineSteps, In, WorkType
  <2>2. UNCHANGED <<w.s1, w.s2, w.dX, w.dY, w.Interchange, w.Counter>>
    BY <1>1, <2>1 DEF MinorStep, WorkType
  <2>3. w'.Err = w.Err - 2 * a
    BY <1>1, <1>7, <2>1 DEF MinorStep, WorkType
  <2>4. Stands(k, m + 1)'
    <3>1. CASE Steep(regs)
      <4>1. w'.X = w.X + Way(DX(regs)) /\ w'.Y = w.Y
        BY <1>1, <1>2, <2>1, <3>1 DEF MinorStep, WorkType, Ways, Sorted
      <4>. QED BY <1>1, <1>8, <3>1, <4>1, NextPoint DEF Stands
    <3>2. CASE ~Steep(regs)
      <4>1. w'.Y = w.Y + Way(DY(regs)) /\ w'.X = w.X
        BY <1>1, <1>2, <2>1, <3>2 DEF MinorStep, WorkType, Ways, Sorted
      <4>. QED BY <1>1, <1>8, <3>2, <4>1, NextPoint DEF Stands
    <3>. QED BY <3>1, <3>2
  <2>5. /\ w'.Err = 2 * b * (k + 1) - a - 2 * a * (m + 1)
        /\ 2 * a * (m + 1) <= 2 * b * (k + 1) + a
    BY <1>8, <1>9, <1>11, <2>3
  <2>6. PastPixel(k, m + 1)'
    BY <1>7, <1>8, <2>2, <2>4, <2>5 DEF PastPixel
  <2>7. LineInv'
    BY <1>10, <2>1, <2>2, <2>6 DEF LineInv
  <2>. QED
    BY <1>5, <2>1, <2>7, LineFacts
    DEF FigureInv, CommandInv, WriteInv, StraightInv, ReadInv, Ended
<1>12. CASE CurrentState = "DrawLine5" /\ ~(w.Err >= 0)
  <2>1. CurrentState' = "DrawLine6" /\ w' = w
    BY <1>1, <1>4, <1>12 DEF LineSteps, In, WorkType
  <2>2. PastPixel(k, m)'
    BY <1>1, <1>3, <2>1 DEF PastPixel, Stands
  <2>3. w'.Err < 0
    BY <1>1, <1>12, <2>1 DEF WorkType
  <2>4. UNCHANGED <<w.s1, w.s2, w.dX, w.dY, w.Interchange, w.Counter>>
    BY <2>1
  <2>5. LineInv'
    <3>1. CurrentState' = "DrawLine6"
      BY <2>1
    <3>2. Ways' /\ Sorted' /\ \A i \in 0..w'.Counter - 2 : Done(Nearest(regs, i))'
      BY <1>10, <2>4
    <3>. QED BY <2>2, <2>3, <3>1, <3>2 DEF LineInv
  <2>. QED
    BY <1>5, <2>1, <2>5, LineFacts
    DEF FigureInv, CommandInv, WriteInv, StraightInv, ReadInv, Ended
<1>13. CASE CurrentState = "DrawLine6"
  <2>1. CurrentState' = "DrawLine4" /\ w' = [MajorStep(w) EXCEPT !.Err = @ + 2 * w.dY]
    BY <1>4, <1>13 DEF LineSteps, In
  <2>2. UNCHANGED <<w.s1, w.s2, w.dX, w.dY, w.Interchange, w.Counter>>
    BY <1>1, <2>1 DEF MajorStep, WorkType
  <2>3. w'.Err = w.Err + 2 * b
    BY <1>1, <1>7, <2>1 DEF MajorStep, WorkType
  <2>4. Stands(k + 1, m)'
    <3>1. CASE Steep(regs)
      <4>1. w'.Y = w.Y + Way(DY(regs)) /\ w'.X = w.X
        BY <1>1, <1>2, <2>1, <3>1 DEF MajorStep, WorkType, Ways, Sorted
      <4>. QED BY <1>1, <1>8, <3>1, <4>1, NextPoint DEF Stands
    <3>2. CASE ~Steep(regs)
      <4>1. w'.X = w.X + Way(DX(regs)) /\ w'.Y = w.Y
        BY <1>1, <1>2, <2>1, <3>2 DEF MajorStep, WorkType, Ways, Sorted
      <4>. QED BY <1>1, <1>8, <3>2, <4>1, NextPoint DEF Stands
    <3>. QED BY <3>1, <3>2
  <2>5. w.Err < 0
    BY <1>13 DEF Ticks, FigureInv, LineInv
  <2>6. /\ w'.Err = 2 * b * ((k + 1) + 1) - a - 2 * a * m
        /\ 2 * b * (k + 1) + a < 2 * a * m + 2 * a
    BY <1>8, <1>9, <2>3, <2>5
  <2>7. AtPixel(k + 1, m)'
    BY <1>7, <1>8, <2>2, <2>4, <2>6 DEF AtPixel
  <2>8. LineInv'
    <3>1. CurrentState' = "DrawLine4"
      BY <2>1
    <3>2. Ways' /\ Sorted' /\ \A i \in 0..w'.Counter - 2 : Done(Nearest(regs, i))'
      BY <1>10, <2>2
    <3>3. PICK j \in Nat : AtPixel(j, m)'
      BY <2>7
    <3>. QED BY <3>1, <3>2, <3>3 DEF LineInv
  <2>. QED
    BY <1>5, <2>1, <2>8, LineFacts
    DEF FigureInv, CommandInv, WriteInv, StraightInv, ReadInv, Ended
<1>. QED BY <1>11, <1>12, <1>13

----------------------------------------------------------------------------
(* What the processor writes is the call at hand.                          *)
LEMMA RequestType ==
  ASSUME HandshakeInv
  PROVE  request \in Transfer \cup {NoTransfer}
<1>1. CASE request # NoTransfer
  <2>1. TransferAt(Head(calls), step) \in Transfer
    BY <1>1, Requested, TransferWrites
  <2>. QED BY <1>1, <2>1, Requested
<1>. QED BY <1>1

(* A register write is an argument of the call at hand.                    *)
LEMMA WriteMeans ==
  ASSUME HandshakeInv, NEW reg \in Register, Writes(reg)
  PROVE  /\ calls # <<>> /\ Head(calls) \in PrimitiveCall
         /\ step \in 2..CommandStep(Head(calls))
         /\ TransferAt(Head(calls), step).reg = reg
         /\ bus.data = Head(calls)[reg] /\ bus.data \in Int
<1>1. enable /\ request # NoTransfer /\ bus = request /\ bus.rw = "write" /\ bus.reg = reg
  BY DEF HandshakeInv, BusInv, Writes
<1>2. /\ calls # <<>> /\ request = TransferAt(Head(calls), step)
      /\ Head(calls) \in PrimitiveCall /\ step \in 1..LastStep(Head(calls))
  BY <1>1, Requested
<1>3. step \in 2..CommandStep(Head(calls))
  BY <1>1, <1>2, TransferOf
<1>4. bus.data = Head(calls)[reg] /\ bus.data \in Int
  BY <1>1, <1>2, TransferWrites, CallType
<1>. QED BY <1>1, <1>2, <1>3, <1>4

(* What a clock does to the registers the processor writes.                *)
LEMMA RegistersLoad ==
  ASSUME HandshakeInv, regs \in [Register -> Int], LoadRegisters
  PROVE  /\ regs' \in [Register -> Int]
         /\ \A reg \in Register : regs'[reg] = IF Writes(reg) THEN Head(calls)[reg] ELSE regs[reg]
         /\ (\A reg \in Register : ~Writes(reg)) => regs' = regs
<1>1. regs' = [r \in Register |-> IF Writes(r) THEN bus.data ELSE regs[r]]
  BY DEF LoadRegisters
<1>2. \A reg \in Register : Writes(reg) => bus.data = Head(calls)[reg] /\ bus.data \in Int
  BY WriteMeans
<1>. HIDE DEF Writes
<1>3. regs' \in [Register -> Int]
  BY <1>1, <1>2
<1>4. (\A reg \in Register : ~Writes(reg)) => regs' = regs
  <2>. SUFFICES ASSUME \A reg \in Register : ~Writes(reg) PROVE regs' = regs
    OBVIOUS
  <2>1. \A reg \in Register : regs'[reg] = regs[reg]
    BY <1>1
  <2>. QED BY <1>3, <2>1
<1>. QED BY <1>1, <1>2, <1>3, <1>4

(* Where the program goes with a clock.                                    *)
LEMMA ProcessorMoves ==
  ASSUME HandshakeInv, Processor
  PROVE  \/ UNCHANGED <<calls, step>>
         \/ /\ Completes /\ request' = NoTransfer /\ step < LastStep(Head(calls))
            /\ step' = step + 1 /\ UNCHANGED calls
         \/ /\ Completes /\ request' = NoTransfer /\ step = LastStep(Head(calls))
            /\ step' = 1 /\ calls' = Tail(calls)
<1>1. CASE Computes \/ Issues \/ Waits
  BY <1>1 DEF Computes, Issues, Waits
<1>2. CASE ReadsStatus \/ ReadsColour \/ WritesRegister
  <2>1. Completes /\ request' = NoTransfer /\ (UNCHANGED <<calls, step>> \/ Ends)
    BY <1>2 DEF ReadsStatus, ReadsColour, WritesRegister
  <2>2. step \in 1..LastStep(Head(calls)) /\ LastStep(Head(calls)) \in Nat
    <3>1. request # NoTransfer
      BY <2>1 DEF Completes
    <3>2. Head(calls) \in PrimitiveCall /\ step \in 1..LastStep(Head(calls))
      BY <3>1, Requested
    <3>. QED BY <3>2, TransferOf
  <2>. QED BY <2>1, <2>2 DEF Ends
<1>. QED BY <1>1, <1>2 DEF Processor

(* A call writes registers of the controller only.                         *)
LEMMA GivenRegisters ==
  ASSUME NEW call \in PrimitiveCall, NEW n
  PROVE  Given(call, n) \subseteq Register
<1>. SUFFICES ASSUME NEW m \in 2..CommandStep(call) PROVE TransferAt(call, m).reg \in Register
  BY DEF Given
<1>1. /\ CommandStep(call) \in 4..7
      /\ LastStep(call) \in {CommandStep(call), CommandStep(call) + 2}
  BY StepsOf
<1>2. TransferAt(call, m) \in Transfer
  BY <1>1, TransferWrites
<1>. QED BY <1>2 DEF Transfer

(* The transfer that ends adds its register to those the call has written. *)
LEMMA GivenStep ==
  ASSUME HandshakeInv, regs \in [Register -> Int], ArgsInv, LoadRegisters, Completes
  PROVE  Holds(regs', Head(calls), step + 1)
<1>1. /\ enable /\ bus = request /\ request = TransferAt(Head(calls), step)
      /\ Head(calls) \in PrimitiveCall /\ step \in 1..LastStep(Head(calls))
      /\ CommandStep(Head(calls)) \in 4..7 /\ calls # <<>>
  BY Requested DEF Completes, HandshakeInv, BusInv
<1>. SUFFICES ASSUME NEW reg \in Given(Head(calls), step + 1)
              PROVE  regs'[reg] = Head(calls)[reg]
  BY DEF Holds
<1>2. PICK m \in 2..CommandStep(Head(calls)) : m < step + 1 /\ reg = TransferAt(Head(calls), m).reg
  BY DEF Given
<1>3. reg \in Register
  BY <1>1, GivenRegisters
<1>4. CASE m < step
  <2>1. regs[reg] = Head(calls)[reg]
    BY <1>1, <1>2, <1>4 DEF ArgsInv, Holds, Given
  <2>. QED BY <1>3, <2>1, RegistersLoad
<1>5. CASE m = step
  <2>1. Writes(reg)
    BY <1>1, <1>2, <1>5, TransferOf DEF Writes
  <2>. QED BY <1>3, <2>1, RegistersLoad
<1>. QED BY <1>1, <1>2, <1>4, <1>5

(* What the call has written is in the registers, until the next call.     *)
LEMMA ArgsStep ==
  ASSUME HandshakeInv, regs \in [Register -> Int], ArgsInv, LoadRegisters, Processor
  PROVE  ArgsInv'
<1>. SUFFICES ASSUME calls' # <<>>, NEW reg \in Given(Head(calls'), step')
              PROVE  regs'[reg] = Head(calls')[reg]
  BY DEF ArgsInv, Holds
<1>1. Head(calls') \in PrimitiveCall
  <2>1. DriverInv'
    BY DriverStep DEF HandshakeInv
  <2>. QED BY <2>1 DEF DriverInv
<1>2. reg \in Register
  BY <1>1, GivenRegisters
<1>3. CASE UNCHANGED <<calls, step>>
  <2>1. regs[reg] = Head(calls)[reg]
    BY <1>3 DEF ArgsInv, Holds
  <2>. QED BY <1>2, <1>3, <2>1, RegistersLoad
<1>4. CASE Completes /\ step' = step + 1 /\ UNCHANGED calls
  BY <1>4, GivenStep DEF Holds
<1>5. CASE step' = 1
  <2>1. CommandStep(Head(calls')) \in Nat
    BY <1>1, ArgumentsOf DEF CommandStep
  <2>. QED BY <1>5, <2>1 DEF Given
<1>. QED BY <1>3, <1>4, <1>5, ProcessorMoves

----------------------------------------------------------------------------
(* A command in flight: the program and the registers stand still.         *)
LEMMA FlightHolds ==
  ASSUME HandshakeInv, FetchInv, regs \in [Register -> Int], InFlight, Clock, Processor
  PROVE  regs' = regs /\ calls' = calls /\ step' = step /\ results' = results
<1>1. regs' = regs
  <2>1. LoadRegisters
    BY DEF Clock, GraphicsClock
  <2>2. \A reg \in Register : ~Writes(reg)
    BY HandshakeHolds DEF ArgumentsHeld
  <2>. HIDE DEF Writes
  <2>. QED BY <2>1, <2>2, RegistersLoad
<1>2. CASE Computes \/ Issues \/ Waits
  BY <1>1, <1>2 DEF Computes, Issues, Waits
<1>3. CASE ReadsStatus
  <2>1. request = Status /\ request # NoTransfer /\ enable /\ bus = request
    BY <1>3 DEF ReadsStatus, Completes, HandshakeInv, BusInv
  <2>2. ~Idle_H
    BY <2>1 DEF HandshakeInv, TurnInv, ControllerInv, InFlight, Status
  <2>3. DataOutToCPU = 0
    BY <2>1, <2>2 DEF DataOutToCPU, Status
  <2>. QED BY <1>1, <1>3, <2>3 DEF ReadsStatus
<1>4. ASSUME ReadsColour PROVE FALSE
  <2>1. request = FetchColour /\ request # NoTransfer
    BY <1>4 DEF ReadsColour, Completes
  <2>2. step = CommandStep(Head(calls)) + 2 /\ step > CommandStep(Head(calls)) /\ calls # <<>>
    <3>1. /\ calls # <<>> /\ TransferAt(Head(calls), step) = FetchColour
          /\ Head(calls) \in PrimitiveCall /\ step \in 1..LastStep(Head(calls))
          /\ CommandStep(Head(calls)) \in 4..7
      BY <2>1, Requested
    <3>2. /\ step = LastStep(Head(calls)) /\ step \notin 2..CommandStep(Head(calls))
          /\ LastStep(Head(calls)) \in {CommandStep(Head(calls)), CommandStep(Head(calls)) + 2}
      BY <3>1, TransferOf DEF FetchColour
    <3>. QED BY <3>1, <3>2
  <2>. QED BY <2>2 DEF FetchInv, Quiet, InFlight
<1>5. ASSUME WritesRegister PROVE FALSE
  <2>1. enable /\ bus = request /\ request.rw = "write" /\ request # NoTransfer
    BY <1>5 DEF WritesRegister, Completes, HandshakeInv, BusInv
  <2>. QED BY <2>1 DEF HandshakeInv, TurnInv, ControllerInv, InFlight
<1>. QED BY <1>1, <1>2, <1>3, <1>4, <1>5 DEF Processor

(* It begins with the end of the transfer that writes the command.         *)
LEMMA FlightBegins ==
  ASSUME HandshakeInv, Clock, Processor, ~InFlight, InFlight'
  PROVE  WritesRegister /\ step = CommandStep(Head(calls))
<1>1. CurrentState = "Idle" /\ ~sram.write /\ ~pallette_port.write
  BY DEF InFlight
<1>2. CommandWritten_H => enable /\ request.rw = "write" /\ request.reg = "Command"
  BY <1>1 DEF InFlight, HandshakeInv, TurnInv
<1>3. /\ CommandWritten_H' <=> (Writes("Command") \/ CommandWritten_H)
      /\ CurrentState' = "Idle" /\ ~sram'.write /\ ~pallette_port'.write
  BY <1>1, <1>2, ControllerClock DEF Clock
<1>4. CommandWritten_H' /\ request' = NoTransfer
  BY <1>3 DEF InFlight
<1>5. Writes("Command")
  BY <1>2, <1>3, <1>4 DEF Writes, HandshakeInv, BusInv
<1>6. request # NoTransfer /\ request.rw = "write" /\ request.reg = "Command"
  BY <1>5 DEF Writes, HandshakeInv, BusInv
<1>7. WritesRegister
  BY <1>4, <1>6 DEF Processor, Computes, Issues, Waits, ReadsStatus, ReadsColour, waitrequest,
                    Status, FetchColour
<1>8. step = CommandStep(Head(calls))
  <2>1. /\ TransferAt(Head(calls), step) = request
        /\ Head(calls) \in PrimitiveCall /\ step \in 1..LastStep(Head(calls))
        /\ CommandStep(Head(calls)) \in 4..7
    BY <1>6, Requested
  <2>. QED BY <1>6, <2>1, TransferOf
<1>. QED BY <1>7, <1>8

(* That transfer ends: the command is in flight, and nothing is drawn yet. *)
LEMMA FlightBeginsAt ==
  ASSUME HandshakeInv, Clock, WritesRegister, step = CommandStep(Head(calls))
  PROVE  /\ InFlight' /\ ~InFlight /\ CommandWritten_H'
         /\ CurrentState' = "Idle" /\ ~sram'.write /\ ~pallette_port'.write
         /\ calls # <<>> /\ Head(calls) \in PrimitiveCall /\ Completes
<1>1. enable /\ bus = request /\ request.rw = "write" /\ request # NoTransfer
      /\ request' = NoTransfer
  BY DEF WritesRegister, Completes, HandshakeInv, BusInv
<1>2. CurrentState = "Idle" /\ Idle_H
  BY <1>1 DEF HandshakeInv, TurnInv
<1>3. /\ TransferAt(Head(calls), step) = request /\ calls # <<>>
      /\ Head(calls) \in PrimitiveCall /\ step \in 1..LastStep(Head(calls))
  BY <1>1, Requested
<1>4. Writes("Command")
  BY <1>1, <1>3, TransferWrites DEF Writes
<1>5. /\ CommandWritten_H' /\ CurrentState' = "Idle" /\ ~sram'.write /\ ~pallette_port'.write
  BY <1>1, <1>2, <1>4, ControllerClock DEF Clock
<1>6. ~InFlight
  BY <1>1, <1>2 DEF InFlight, HandshakeInv, ControllerInv
<1>. QED BY <1>1, <1>3, <1>5, <1>6 DEF InFlight, WritesRegister

(* Nothing in flight, nothing on its way: the next clock changes nothing.  *)
LEMMA Settled ==
  ASSUME HandshakeInv, regs \in [Register -> Int], Clock, ~InFlight, request.rw # "write"
  PROVE  /\ CurrentState' = "Idle" /\ Quiet' /\ ~sram'.write /\ ~pallette_port'.write
         /\ regs' = regs /\ Colour_Latch' = Colour_Latch
<1>1. CurrentState = "Idle" /\ ~sram.write /\ ~pallette_port.write /\ ~CommandWritten_H
  BY DEF InFlight, HandshakeInv, TurnInv
<1>2. \A reg \in Register : ~Writes(reg)
  BY DEF Writes, HandshakeInv, BusInv
<1>3. ~Writes("Command")
  BY <1>2 DEF Register
<1>4. GraphicsClock
  BY DEF Clock
<1>5. regs' = regs
  <2>1. LoadRegisters
    BY <1>4 DEF GraphicsClock
  <2>. HIDE DEF Writes
  <2>. QED BY <1>2, <2>1, RegistersLoad
<1>6. Colour_Latch' = Colour_Latch
  BY <1>1, <1>4 DEF GraphicsClock, ColourLatch
<1>. QED BY <1>1, <1>3, <1>4, <1>5, <1>6, ControllerClock DEF Quiet

----------------------------------------------------------------------------
(* A clock of the memories in flight: what is written belongs to the       *)
(* figure, and so does not show in the finished picture.                   *)
LEMMA PlotsColour ==
  ASSUME FigureInv, ColourInv
  PROVE  sram.write => sram.colour \in Colour /\ <<sram.x, sram.y>> \in PixelsOf(regs)
<1>. SUFFICES ASSUME sram.write
              PROVE  sram.colour \in Colour /\ <<sram.x, sram.y>> \in PixelsOf(regs)
  OBVIOUS
<1>1. <<sram.x, sram.y>> \in PixelsOf(regs) /\ sram.colour = regs.Colour
  BY DEF FigureInv, WriteInv
<1>2. regs.Command \in {DrawHLineCmd, DrawVLineCmd, DrawLineCmd, PutAPixelCmd}
  BY <1>1 DEF PixelsOf
<1>. QED BY <1>1, <1>2 DEF ColourInv, InFlight

LEMMA PictureClock ==
  ASSUME GraphicsTypeOK, FigureInv, ColourInv, VideoMemory
  PROVE  /\ frame' = Shown /\ Shown \in [Pixel -> Colour]
         /\ Paint(Shown, regs) = Paint(frame, regs)
         /\ Complete => Shown = Paint(frame, regs)
         /\ ~sram.write => frame' = frame
<1>1. frame' = Shown /\ Shown \in [Pixel -> Colour]
  BY FrameClock, PlotsColour
<1>2. frame \in [Pixel -> Colour]
  BY DEF GraphicsTypeOK
<1>3. \A p \in Pixel : p \notin PixelsOf(regs) => Shown[p] = frame[p]
  BY <1>2, PlotsColour DEF Shown
<1>4. Paint(Shown, regs) = Paint(frame, regs)
  BY <1>1, <1>2, <1>3 DEF Paint
<1>5. Complete => Shown = Paint(frame, regs)
  <2>. SUFFICES ASSUME Complete PROVE Shown = Paint(frame, regs)
    OBVIOUS
  <2>1. \A p \in Pixel : Shown[p] = IF p \in PixelsOf(regs) THEN regs.Colour ELSE frame[p]
    BY <1>3 DEF Complete, Done
  <2>2. Paint(frame, regs) =
          [p \in Pixel |-> IF p \in PixelsOf(regs) THEN regs.Colour ELSE frame[p]]
    BY <1>2 DEF Paint
  <2>. HIDE DEF Shown, Paint, PixelsOf
  <2>. QED BY <1>1, <2>1, <2>2
<1>6. ~sram.write => frame' = frame
  BY DEF VideoMemory
<1>. QED BY <1>1, <1>4, <1>5, <1>6

(* The same of the palette memory.                                         *)
LEMMA EntriesClock ==
  ASSUME GraphicsTypeOK, FigureInv, PaletteMemory
  PROVE  /\ pallette_port.write => palette' = Programmed(palette, regs)
                                   /\ regs.Command = ProgramPaletteColour
         /\ ~pallette_port.write => palette' = palette
         /\ Programmed(palette', regs) = Programmed(palette, regs)
<1>1. pallette_port.write => palette' = Programmed(palette, regs)
                             /\ regs.Command = ProgramPaletteColour
  BY DEF PaletteMemory, FigureInv, WriteInv, Programmed
<1>2. ~pallette_port.write => palette' = palette
  BY DEF PaletteMemory
<1>3. palette \in [Colour -> Int]
  BY DEF GraphicsTypeOK
<1>4. pallette_port.write => Programmed(palette', regs) = Programmed(palette, regs)
  <2>. SUFFICES ASSUME pallette_port.write
                PROVE  Programmed(palette', regs) = Programmed(palette, regs)
    OBVIOUS
  <2>1. PICK value : value = regs.X1 * 2^16 + regs.Y1
    OBVIOUS
  <2>2. PICK entry : entry = regs.Colour
    OBVIOUS
  <2>3. \A s : Programmed(s, regs) = [s EXCEPT ![entry] = value]
    BY <1>1, <2>1, <2>2 DEF Programmed
  <2>4. palette' = [palette EXCEPT ![entry] = value]
    BY <1>1, <2>3
  <2>5. [palette' EXCEPT ![entry] = value] = [palette EXCEPT ![entry] = value]
    BY <1>3, <2>4
  <2>. QED BY <2>3, <2>5
<1>. QED BY <1>1, <1>2, <1>4

----------------------------------------------------------------------------
(* The colour of a command in flight is a palette number.                  *)
LEMMA ColourStep ==
  ASSUME HandshakeInv, FetchInv, regs \in [Register -> Int], ArgsInv, ColourInv, Clock, Processor
  PROVE  ColourInv'
<1>1. CASE InFlight
  BY <1>1, FlightHolds DEF ColourInv
<1>2. CASE ~InFlight /\ InFlight'
  <2>1. WritesRegister /\ step = CommandStep(Head(calls))
    BY <1>2, FlightBegins
  <2>2. calls # <<>> /\ Head(calls) \in PrimitiveCall /\ Completes
    BY <2>1, FlightBeginsAt
  <2>3. LoadRegisters
    BY DEF Clock, GraphicsClock
  <2>4. Holds(regs', Head(calls), CommandStep(Head(calls)) + 1) /\ regs' \in [Register -> Int]
    BY <2>1, <2>2, <2>3, GivenStep, RegistersLoad
  <2>5. /\ regs'.Command = Head(calls).Command
        /\ Head(calls).Command # GetAPixelCmd => regs'.Colour = Head(calls).Colour
    BY <2>2, <2>4, HoldsFigure
  <2>6. Head(calls)["Colour"] \in Colour
    BY <2>2, CallType
  <2>. QED BY <2>5, <2>6, CommandNumbers DEF ColourInv
<1>3. CASE ~InFlight'
  BY <1>3 DEF ColourInv
<1>. QED BY <1>1, <1>2, <1>3

(* While ReadAPixel waits, the command in the register is its own.         *)
LEMMA FetchCommand ==
  ASSUME HandshakeInv, ArgsInv, calls # <<>>, step > CommandStep(Head(calls))
  PROVE  /\ regs.Command = GetAPixelCmd /\ request.rw # "write"
         /\ Head(calls) \in PrimitiveCall /\ CommandStep(Head(calls)) \in 4..7
         /\ LastStep(Head(calls)) = CommandStep(Head(calls)) + 2
         /\ Head(calls).Command = GetAPixelCmd
         /\ step \in {CommandStep(Head(calls)) + 1, CommandStep(Head(calls)) + 2}
<1>1. Head(calls) \in PrimitiveCall /\ step \in Nat \ {0} /\ step <= LastStep(Head(calls))
  BY DEF HandshakeInv, DriverInv
<1>2. CommandStep(Head(calls)) \in 4..7
  BY <1>1, StepsOf
<1>3. Head(calls).Command = GetAPixelCmd /\ LastStep(Head(calls)) = CommandStep(Head(calls)) + 2
  BY <1>1, <1>2 DEF LastStep
<1>4. regs.Command = Head(calls).Command
  <2>1. "Command" \in Given(Head(calls), CommandStep(Head(calls)) + 1)
    BY <1>1, AllGiven
  <2>2. "Command" \in Given(Head(calls), step)
    BY <1>1, <1>2, <2>1 DEF Given
  <2>. QED BY <2>2 DEF ArgsInv, Holds
<1>5. request.rw # "write"
  <2>1. CASE request = NoTransfer
    BY <2>1 DEF NoTransfer
  <2>2. CASE request # NoTransfer
    <3>1. /\ request = TransferAt(Head(calls), step) /\ step \in 1..LastStep(Head(calls))
      BY <2>2, Requested
    <3>. QED BY <1>1, <1>2, <3>1, TransferOf
  <2>. QED BY <2>1, <2>2
<1>. QED BY <1>1, <1>2, <1>3, <1>4, <1>5

(* ReadAPixel, while its command is in flight and after.                   *)
LEMMA FetchFlight ==
  ASSUME HandshakeInv, GraphicsTypeOK, FigureInv, ColourInv, ArgsInv, FetchInv,
         InFlight, Clock, Processor
  PROVE  FetchInv'
<1>. SUFFICES ASSUME calls' # <<>>, step' > CommandStep(Head(calls')) PROVE FetchInv'
  BY DEF FetchInv
<1>1. /\ regs' = regs /\ calls' = calls /\ step' = step
      /\ calls # <<>> /\ step > CommandStep(Head(calls))
  BY FlightHolds DEF GraphicsTypeOK
<1>2. /\ CurrentState \in {"Idle", "ProcessCommand", "ReadPixel", "ReadPixel1", "ReadPixel2"}
      /\ ~sram.write /\ ~pallette_port.write
      /\ step = CommandStep(Head(calls)) + 2 => Quiet /\ CurrentState = "Idle"
  BY <1>1 DEF FetchInv
<1>3. regs.Command = GetAPixelCmd /\ request.rw # "write"
  BY <1>1, FetchCommand
<1>4. step # CommandStep(Head(calls)) + 2
  BY <1>2 DEF InFlight, Quiet
<1>5. GraphicsClock
  BY DEF Clock
<1>6. frame' = frame
  BY <1>2, <1>5 DEF GraphicsClock, VideoMemory
<1>7. ~pallette_port'.write
  BY <1>2, <1>5 DEF GraphicsClock, PaletteOutput, NoEntry
<1>8. CASE CurrentState = "Idle"
  <2>1. CommandWritten_H'
    BY <1>2, <1>5, <1>8, ControllerClock DEF InFlight
  <2>2. CurrentState' \in {"Idle", "ProcessCommand"} /\ ~sram'.write
    BY <1>5, <1>8, ControllerClock
  <2>. QED BY <1>1, <1>4, <1>7, <2>1, <2>2 DEF FetchInv
<1>9. CASE CurrentState = "ProcessCommand"
  <2>1. CurrentState' = "ReadPixel" /\ ~sram'.write
    <3>1. AtProcessCommand
      BY <1>5, <1>9 DEF GraphicsClock, NextStateLogic, AtIdle, AtProcessCommand,
           AtPalletteReProgram, AtDrawPixel, AtReadPixel, AtDrawHline, AtDrawVline, AtDrawLine,
           LineSetUp, LineSwap, LineError, LinePlot, LineSteps, In
    <3>. QED BY <1>3, <3>1, CommandNumbers
             DEF AtProcessCommand, In, FirstState, NoPlot, NoAccess
  <2>. QED BY <1>1, <1>4, <1>7, <2>1 DEF FetchInv
<1>10. CASE CurrentState \in {"ReadPixel", "ReadPixel1", "ReadPixel2"}
  <2>1. AtReadPixel
    BY <1>5, <1>10 DEF GraphicsClock, NextStateLogic, AtIdle, AtProcessCommand,
         AtPalletteReProgram, AtDrawPixel, AtReadPixel, AtDrawHline, AtDrawVline, AtDrawLine,
         LineSetUp, LineSwap, LineError, LinePlot, LineSteps, In
  <2>2. /\ CurrentState' \in {"ReadPixel1", "ReadPixel2", "Idle"} /\ ~sram'.write
        /\ CurrentState' = "Idle" => CurrentState = "ReadPixel2"
    BY <2>1 DEF AtReadPixel, In, NoPlot, NoAccess, Access
  <2>3. CurrentState = "ReadPixel2" => Colour_Latch' = frame[Clip(regs.X1, regs.Y1)]
    BY <1>5 DEF GraphicsClock, ColourLatch, FigureInv, ReadInv, AtOutput
  <2>. QED BY <1>1, <1>4, <1>6, <1>7, <2>2, <2>3 DEF FetchInv
<1>. QED BY <1>2, <1>8, <1>9, <1>10

LEMMA FetchStep ==
  ASSUME HandshakeInv, GraphicsTypeOK, FigureInv, ColourInv, ArgsInv, FetchInv, Clock, Processor
  PROVE  FetchInv'
<1>. SUFFICES ASSUME ~InFlight, calls' # <<>>, step' > CommandStep(Head(calls')) PROVE FetchInv'
  BY FetchFlight DEF FetchInv
<1>1. CurrentState = "Idle" /\ ~sram.write /\ ~pallette_port.write
  BY DEF InFlight
<1>2. frame' = frame
  BY <1>1 DEF Clock, GraphicsClock, VideoMemory
<1>3. CASE UNCHANGED <<calls, step>>
  <2>1. calls # <<>> /\ step > CommandStep(Head(calls))
    BY <1>3
  <2>2. request.rw # "write"
    BY <2>1, FetchCommand
  <2>3. /\ CurrentState' = "Idle" /\ Quiet' /\ ~sram'.write /\ ~pallette_port'.write
        /\ regs' = regs /\ Colour_Latch' = Colour_Latch
    BY <2>2, Settled DEF GraphicsTypeOK
  <2>4. Colour_Latch = frame[Clip(regs.X1, regs.Y1)]
    BY <1>1, <2>1, <2>2 DEF FetchInv, InFlight, HandshakeInv, TurnInv
  <2>. QED BY <1>2, <2>3, <2>4 DEF FetchInv
<1>4. CASE Completes /\ step' = step + 1 /\ UNCHANGED calls
  <2>1. /\ calls # <<>> /\ request = TransferAt(Head(calls), step) /\ request # NoTransfer
        /\ Head(calls) \in PrimitiveCall /\ step \in 1..LastStep(Head(calls))
        /\ CommandStep(Head(calls)) \in 4..7
        /\ enable /\ bus = request
    BY <1>4, Requested DEF Completes, HandshakeInv, BusInv
  <2>2. CASE step = CommandStep(Head(calls))
    <3>1. request.rw = "write"
      BY <2>1, <2>2, TransferOf
    <3>2. WritesRegister
      BY <1>4, <3>1 DEF Completes, Processor, Computes, Issues, Waits, waitrequest, ReadsStatus,
                        ReadsColour, Status, FetchColour
    <3>3. CommandWritten_H' /\ CurrentState' = "Idle" /\ ~sram'.write /\ ~pallette_port'.write
      BY <2>2, <3>2, FlightBeginsAt
    <3>. QED BY <1>4, <2>1, <2>2, <3>3 DEF FetchInv
  <2>3. CASE step > CommandStep(Head(calls))
    <3>1. request.rw # "write"
      BY <2>1, <2>3, FetchCommand
    <3>2. /\ CurrentState' = "Idle" /\ Quiet' /\ ~sram'.write /\ ~pallette_port'.write
          /\ regs' = regs /\ Colour_Latch' = Colour_Latch
      BY <3>1, Settled DEF GraphicsTypeOK
    <3>3. Colour_Latch = frame[Clip(regs.X1, regs.Y1)]
      BY <1>1, <2>1, <2>3, <3>1 DEF FetchInv, InFlight, HandshakeInv, TurnInv
    <3>. QED BY <1>2, <3>2, <3>3 DEF FetchInv
  <2>4. step + 1 > CommandStep(Head(calls))
    BY <1>4
  <2>. QED BY <2>1, <2>2, <2>3, <2>4
<1>5. ASSUME step' = 1 PROVE FALSE
  <2>1. Head(calls') \in PrimitiveCall
    <3>1. DriverInv'
      BY DriverStep DEF HandshakeInv
    <3>. QED BY <3>1 DEF DriverInv
  <2>2. CommandStep(Head(calls')) \in 4..7
    BY <2>1, StepsOf
  <2>. QED BY <1>5, <2>2
<1>. QED BY <1>3, <1>4, <1>5, ProcessorMoves

----------------------------------------------------------------------------
(* Every state of the controller keeps what is known of the figure, and    *)
(* what is in flight leaves it only when the figure is complete.           *)
LEMMA FigureStep ==
  ASSUME HandshakeInv, GraphicsTypeOK, FigureInv, ColourInv, ArgsInv, FetchInv, Clock, Processor
  PROVE  /\ FigureInv'
         /\ InFlight /\ CurrentState # "Idle" => Ended
         /\ InFlight /\ CurrentState # "Idle" /\ CurrentState' = "Idle"
              => regs.Command # ProgramPaletteColour \/ pallette_port'.write
<1>1. NextStateLogic /\ PaletteOutput /\ VideoMemory
  BY DEF Clock, GraphicsClock
<1>2. CASE AtIdle
  BY <1>1, <1>2, IdleStep DEF AtIdle, In
<1>3. ASSUME CurrentState # "Idle" PROVE Ticks
  <2>1. regs' = regs
    BY <1>3, FlightHolds DEF InFlight, GraphicsTypeOK
  <2>. QED BY <1>1, <2>1, PictureClock DEF Ticks
<1>4. CASE AtProcessCommand
  BY <1>3, <1>4, ProcessStep DEF AtProcessCommand, In
<1>5. CASE AtPalletteReProgram
  BY <1>3, <1>5, PaletteEntryStep DEF AtPalletteReProgram, In
<1>6. CASE AtDrawPixel
  <2>1. Ticks
    BY <1>3, <1>6 DEF AtDrawPixel, In
  <2>2. regs.Command # ProgramPaletteColour
    BY <1>6, CommandNumbers DEF AtDrawPixel, In, FigureInv, CommandInv
  <2>. QED BY <1>6, <2>1, <2>2, DotStep
<1>7. CASE AtReadPixel
  <2>1. Ticks
    BY <1>3, <1>7 DEF AtReadPixel, In
  <2>2. regs.Command # ProgramPaletteColour
    <3>1. CurrentState \in {"ReadPixel", "ReadPixel1", "ReadPixel2"}
      BY <1>7 DEF AtReadPixel, In
    <3>2. regs.Command = GetAPixelCmd
      BY <3>1 DEF FigureInv, CommandInv
    <3>. QED BY <3>2, CommandNumbers
  <2>. QED BY <1>1, <1>7, <2>1, <2>2, ReadStep
<1>8. CASE AtDrawHline
  <2>1. Ticks
    BY <1>3, <1>8 DEF AtDrawHline, In
  <2>2. regs.Command # ProgramPaletteColour
    BY <1>8, CommandNumbers DEF AtDrawHline, In, FigureInv, CommandInv
  <2>. QED BY <1>8, <2>1, <2>2, HlineStep
<1>9. CASE AtDrawVline
  <2>1. Ticks
    BY <1>3, <1>9 DEF AtDrawVline, In
  <2>2. regs.Command # ProgramPaletteColour
    <3>1. CurrentState \in {"DrawVline", "DrawVline1", "DrawVline2"}
      BY <1>9 DEF AtDrawVline, In
    <3>2. regs.Command = DrawVLineCmd
      BY <3>1 DEF FigureInv, CommandInv
    <3>. QED BY <3>2, CommandNumbers
  <2>. QED BY <1>9, <2>1, <2>2, VlineStep
<1>10. CASE AtDrawLine
  <2>1. Ticks
    BY <1>3, <1>10 DEF AtDrawLine, LineSetUp, LineSwap, LineError, LinePlot, LineSteps, In
  <2>2. /\ regs.Command # ProgramPaletteColour
        /\ CurrentState \in {"DrawLine", "DrawLine1", "DrawLine2", "DrawLine3", "DrawLine4",
                             "DrawLine5", "DrawLine6"}
    BY <1>10, <2>1, LineFacts, CommandNumbers
  <2>. QED BY <1>10, <2>1, <2>2, LineBeginStep, LinePlotStep, LineMoveStep
<1>. QED BY <1>1, <1>2, <1>4, <1>5, <1>6, <1>7, <1>8, <1>9, <1>10 DEF NextStateLogic

----------------------------------------------------------------------------
(* The types of the controller's registers and memories.                   *)
LEMMA WorkStep ==
  ASSUME GraphicsTypeOK, NextStateLogic
  PROVE  WorkType'
<1>. USE DEF WorkType
<1>0. WorkType
  BY DEF GraphicsTypeOK
<1>1. /\ regs.X1 \in Int /\ regs.X2 \in Int /\ regs.Y1 \in Int /\ regs.Y2 \in Int
  BY RegisterTypes
<1>2. CASE AtIdle \/ AtProcessCommand \/ AtPalletteReProgram \/ AtDrawPixel \/ AtReadPixel
  BY <1>0, <1>2 DEF AtIdle, AtProcessCommand, AtPalletteReProgram, AtDrawPixel, AtReadPixel
<1>3. CASE AtDrawHline
  <2>1. w.X + 1 \in Int
    BY <1>0
  <2>2. \/ w' = [w EXCEPT !.X = regs.X1] \/ w' = w \/ w' = [w EXCEPT !.X = w.X + 1]
    BY <1>3 DEF AtDrawHline
  <2>. QED BY <1>0, <1>1, <2>1, <2>2
<1>4. CASE AtDrawVline
  <2>1. w.Y + 1 \in Int
    BY <1>0
  <2>2. \/ w' = [w EXCEPT !.Y = regs.Y1] \/ w' = w \/ w' = [w EXCEPT !.Y = w.Y + 1]
    BY <1>4 DEF AtDrawVline
  <2>. QED BY <1>0, <1>1, <2>1, <2>2
<1>5. CASE LineSetUp
  <2>1. PICK dx \in Int, dy \in Int : dx = regs.X2 - regs.X1 /\ dy = regs.Y2 - regs.Y1
    BY <1>1
  <2>2. Magnitude(dx) \in Nat /\ Magnitude(dy) \in Nat
        /\ Sign(dx) \in {-1, 0, 1} /\ Sign(dy) \in {-1, 0, 1}
    BY DEF Magnitude, Sign
  <2>3. w' = [w EXCEPT !.X = regs.X1, !.Y = regs.Y1,
                        !.dX = Magnitude(dx), !.dY = Magnitude(dy),
                        !.s1 = Sign(dx), !.s2 = Sign(dy),
                        !.Interchange = FALSE, !.Counter = 1]
    BY <1>5, <2>1 DEF LineSetUp
  <2>. QED BY <1>0, <1>1, <2>2, <2>3
<1>6. CASE LineSwap
  <2>1. \/ w' = [w EXCEPT !.SwapX = w.dX, !.SwapY = w.dY, !.Interchange = TRUE]
        \/ w' = [w EXCEPT !.dX = w.SwapY, !.dY = w.SwapX]
        \/ w' = w
    BY <1>6 DEF LineSwap
  <2>. QED BY <1>0, <2>1
<1>7. CASE LineError
  <2>1. 2 * w.dY - w.dX \in Int
    BY <1>0
  <2>. QED BY <1>0, <1>7, <2>1 DEF LineError
<1>8. CASE LinePlot
  <2>1. w.Counter + 1 \in Nat
    BY <1>0
  <2>2. w' = w \/ w' = [w EXCEPT !.Counter = w.Counter + 1]
    BY <1>8 DEF LinePlot
  <2>. QED BY <1>0, <2>1, <2>2
<1>9. CASE LineSteps
  <2>1. PICK x \in Int, y \in Int, down \in Int, up \in Int :
          /\ x = w.X + w.s1 /\ y = w.Y + w.s2
          /\ down = w.Err - 2 * w.dX /\ up = w.Err + 2 * w.dY
    <3>1. /\ w.X + w.s1 \in Int /\ w.Y + w.s2 \in Int
          /\ w.Err - 2 * w.dX \in Int /\ w.Err + 2 * w.dY \in Int
      BY <1>0
    <3>. QED BY <3>1
  <2>2. \/ w' = w
        \/ w' = [w EXCEPT !.X = x, !.Err = down] \/ w' = [w EXCEPT !.Y = y, !.Err = down]
        \/ w' = [w EXCEPT !.X = x, !.Err = up] \/ w' = [w EXCEPT !.Y = y, !.Err = up]
    BY <1>0, <1>9, <2>1 DEF LineSteps, MinorStep, MajorStep
  <2>. QED BY <1>0, <2>2
<1>. QED BY <1>2, <1>3, <1>4, <1>5, <1>6, <1>7, <1>8, <1>9 DEF NextStateLogic, AtDrawLine

(* No access leaves the memory.                                            *)
LEMMA AccessType ==
  ASSUME GraphicsTypeOK, NEW write \in BOOLEAN, NEW x \in Int, NEW y \in Int, NEW select \in Int,
         Access(write, x, y, select)
  PROVE  sram' \in [write : BOOLEAN, x : 0..Cols-1, y : 0..Rows-1, colour : Int]
<1>1. PICK bit \in 0..1 : bit = select % 2
  BY PairOf
<1>2. (x % Cols) - (x % 2) + bit \in 0..Cols-1 /\ y % Rows \in 0..Rows-1
  BY PairOf, ScreenAssumption, Remainder
<1>3. regs.Colour \in Int
  BY RegisterTypes
<1>4. PICK colour \in Int : colour = IF write THEN regs.Colour ELSE 0
  BY <1>3
<1>5. PICK column \in 0..Cols-1, row \in 0..Rows-1 :
        column = (x % Cols) - (x % 2) + bit /\ row = y % Rows
  BY <1>2
<1>6. sram' = [write |-> write, x |-> column, y |-> row, colour |-> colour]
  BY <1>1, <1>4, <1>5 DEF Access
<1>. QED BY <1>4, <1>5, <1>6

LEMMA OutputStep ==
  ASSUME GraphicsTypeOK, NextStateLogic
  PROVE  sram' \in [write : BOOLEAN, x : 0..Cols-1, y : 0..Rows-1, colour : Int]
<1>1. /\ regs.X1 \in Int /\ regs.Y1 \in Int /\ w.X \in Int /\ w.Y \in Int
  BY RegisterTypes
<1>2. CASE NoPlot
  BY <1>2, ScreenAssumption DEF NoPlot, NoAccess
<1>3. CASE Access(FALSE, regs.X1, regs.Y1, 0)
  <2>1. FALSE \in BOOLEAN /\ 0 \in Int
    OBVIOUS
  <2>. QED BY <1>1, <1>3, <2>1, AccessType, Zenon
<1>4. CASE Access(TRUE, regs.X1, w.Y, w.Y)
  BY <1>1, <1>4, AccessType
<1>5. ASSUME NEW x \in Int, NEW y \in Int, Plots(x, y)
      PROVE  sram' \in [write : BOOLEAN, x : 0..Cols-1, y : 0..Rows-1, colour : Int]
  BY <1>5, AccessType DEF Plots
<1>6. \/ NoPlot
      \/ Access(FALSE, regs.X1, regs.Y1, 0) \/ Access(TRUE, regs.X1, w.Y, w.Y)
      \/ Plots(regs.X1, regs.Y1) \/ Plots(w.X, regs.Y1) \/ Plots(w.X, w.Y)
  BY DEF NextStateLogic, AtIdle, AtProcessCommand, AtPalletteReProgram, AtDrawPixel, AtReadPixel,
         AtDrawHline, AtDrawVline, AtDrawLine, LineSetUp, LineSwap, LineError, LinePlot, LineSteps
<1>. QED BY <1>1, <1>2, <1>3, <1>4, <1>5, <1>6

LEMMA StateStep ==
  ASSUME NextStateLogic
  PROVE  CurrentState' \in State
<1>1. FirstState(regs["Command"]) \in State
  BY DEF FirstState, State
<1>. QED
  BY <1>1 DEF NextStateLogic, AtIdle, AtProcessCommand, AtPalletteReProgram, AtDrawPixel,
     AtReadPixel, AtDrawHline, AtDrawVline, AtDrawLine, LineSetUp, LineSwap, LineError, LinePlot,
     LineSteps, In, State

(* The memories hold colours.                                              *)
LEMMA MemoryStep ==
  ASSUME GraphicsTypeOK, FigureInv, ColourInv, VideoMemory, PaletteMemory, ColourLatch
  PROVE  /\ frame' \in [Pixel -> Colour] /\ sram_q' \in Colour \X Colour
         /\ Colour_Latch' \in Colour /\ palette' \in [Colour -> Int]
<1>1. frame' \in [Pixel -> Colour]
  BY PictureClock
<1>2. sram_q' \in Colour \X Colour
  <2>1. PICK x \in 0..Cols-1, y \in 0..Rows-1 : sram.x = x /\ sram.y = y
    BY DEF GraphicsTypeOK
  <2>2. x \in Int /\ x % Cols = x
    <3>1. x = Cols * 0 + x /\ x \in Int
      BY ScreenAssumption
    <3>. QED BY <3>1, ScreenAssumption, RemainderIs
  <2>3. x - (x % 2) + 0 \in 0..Cols-1 /\ x - (x % 2) + 1 \in 0..Cols-1 /\ x % 2 \in 0..1
    BY <2>2, PairOf
  <2>4. x - (x % 2) \in 0..Cols-1
    BY <2>2, <2>3, ScreenAssumption
  <2>5. frame[<<x - (x % 2), y>>] \in Colour /\ frame[<<x - (x % 2) + 1, y>>] \in Colour
    BY <2>3, <2>4 DEF GraphicsTypeOK, Pixel
  <2>. QED BY <2>1, <2>5 DEF VideoMemory
<1>3. Colour_Latch' \in Colour
  <2>1. 1 + (regs.X1 % 2) \in 1..2
    <3>1. regs.X1 \in Int
      BY RegisterTypes
    <3>2. PICK bit \in 0..1 : regs.X1 % 2 = bit
      BY <3>1, PairOf
    <3>3. 1 + bit \in 1..2
      OBVIOUS
    <3>. QED BY <3>2, <3>3
  <2>2. sram_q[1 + (regs.X1 % 2)] \in Colour
    BY <2>1 DEF GraphicsTypeOK
  <2>. QED BY <2>2 DEF GraphicsTypeOK, ColourLatch
<1>4. palette' \in [Colour -> Int]
  BY DEF GraphicsTypeOK, PaletteMemory
<1>. QED BY <1>1, <1>2, <1>3, <1>4

(* Every register of the controller.                                       *)
LEMMA GraphicsTypeStep ==
  ASSUME HandshakeInv, GraphicsTypeOK, FigureInv, ColourInv, GraphicsClock
  PROVE  GraphicsTypeOK'
<1>1. regs' \in [Register -> Int]
  BY RegistersLoad DEF GraphicsTypeOK, GraphicsClock
<1>2. CommandWritten_H' \in BOOLEAN /\ Idle_H' \in BOOLEAN
  BY Zenon DEF GraphicsClock, CommandWritten, BusyIdle
<1>3. CurrentState' \in State /\ WorkType'
      /\ sram' \in [write : BOOLEAN, x : 0..Cols-1, y : 0..Rows-1, colour : Int]
  BY StateStep, WorkStep, OutputStep DEF GraphicsClock
<1>4. /\ frame' \in [Pixel -> Colour] /\ sram_q' \in Colour \X Colour
      /\ Colour_Latch' \in Colour /\ palette' \in [Colour -> Int]
  BY MemoryStep DEF GraphicsClock
<1>5. pallette_port' \in [write : BOOLEAN, number : Int, rgb : Int]
  <2>1. regs.X1 \in Int /\ regs.Y1 \in Int /\ regs.Colour \in Int
    BY RegisterTypes
  <2>2. 2^16 \in Int
    OBVIOUS
  <2>3. regs.X1 * 2^16 + regs.Y1 \in Int
    BY <2>1, <2>2
  <2>4. (~V_Sync_out) \in BOOLEAN
    OBVIOUS
  <2>. QED BY <2>1, <2>3, <2>4 DEF GraphicsClock, PaletteOutput, NoEntry
<1>. QED BY <1>1, <1>2, <1>3, <1>4, <1>5 DEF GraphicsTypeOK, WorkType

----------------------------------------------------------------------------
(* Everything together.                                                    *)
DrawingInv ==
  /\ BridgeTypeOK /\ GraphicsTypeOK /\ HandshakeInv
  /\ FigureInv /\ ArgsInv /\ ColourInv /\ FetchInv
  /\ results \in Seq(Colour)

(* The initial state: the reset values, and a command that is none.        *)
LEMMA GraphicsInitType == GraphicsInit => GraphicsTypeOK
<1>. SUFFICES ASSUME GraphicsInit PROVE GraphicsTypeOK
  OBVIOUS
<1>1. 0 \in 0..Cols-1 /\ 0 \in 0..Rows-1 /\ 0 \in Colour
  BY ScreenAssumption
<1>2. regs \in [Register -> Int] /\ CommandWritten_H \in BOOLEAN /\ Idle_H \in BOOLEAN
      /\ CurrentState \in State
  BY DEF GraphicsInit, State
<1>3. w \in [X : Int, Y : Int, dX : Nat, dY : Nat,
             s1 : {-1, 0, 1}, s2 : {-1, 0, 1}, Interchange : BOOLEAN,
             Err : Int, Counter : Nat, SwapX : Nat, SwapY : Nat]
  BY DEF GraphicsInit, NoWork
<1>4. sram \in [write : BOOLEAN, x : 0..Cols-1, y : 0..Rows-1, colour : Int]
  BY <1>1 DEF GraphicsInit, NoAccess
<1>5. frame \in [Pixel -> Colour] /\ sram_q \in Colour \X Colour /\ Colour_Latch \in Colour
      /\ palette \in [Colour -> Int]
  BY <1>1 DEF GraphicsInit
<1>6. pallette_port \in [write : BOOLEAN, number : Int, rgb : Int]
  BY DEF GraphicsInit, NoEntry
<1>. QED BY <1>2, <1>3, <1>4, <1>5, <1>6 DEF GraphicsTypeOK

LEMMA FirstCommand ==
  ASSUME GraphicsInit
  PROVE  regs.Command = 0 /\ PixelsOf(regs) = {} /\ \A s : Programmed(s, regs) = s
<1>1. regs.Command = 0
  BY DEF GraphicsInit, Register
<1>. QED BY <1>1, CommandNumbers DEF PixelsOf, Programmed

LEMMA DrawingInit == Init => DrawingInv
<1>. SUFFICES ASSUME Init PROVE DrawingInv
  OBVIOUS
<1>1. GraphicsTypeOK /\ HandshakeInv /\ BridgeTypeOK
  BY GraphicsInitType, HandshakeInit DEF Init, BridgeInit, BridgeTypeOK
<1>2. FigureInv
  BY DEF Init, GraphicsInit, NoAccess, NoEntry, FigureInv, CommandInv, WriteInv, StraightInv,
         ReadInv, LineInv
<1>3. ColourInv
  BY FirstCommand, CommandNumbers DEF Init, ColourInv
<1>4. calls # <<>> => Head(calls) \in PrimitiveCall /\ CommandStep(Head(calls)) \in Nat
  <2>1. calls # <<>> => Head(calls) \in PrimitiveCall
    BY <1>1 DEF HandshakeInv, DriverInv
  <2>. QED BY <2>1, ArgumentsOf DEF CommandStep
<1>5. ArgsInv /\ FetchInv
  <2>1. step = 1
    BY DEF Init, DriverInit
  <2>2. ArgsInv
    BY <1>4, <2>1 DEF ArgsInv, Holds, Given
  <2>3. calls # <<>> => ~(step > CommandStep(Head(calls)))
    <3>. SUFFICES ASSUME calls # <<>> PROVE ~(step > CommandStep(Head(calls)))
      OBVIOUS
    <3>1. CommandStep(Head(calls)) \in 4..7
      BY <1>4, StepsOf
    <3>. QED BY <2>1, <3>1
  <2>. QED BY <2>2, <2>3 DEF FetchInv
<1>6. results \in Seq(Colour)
  BY DEF Init, DriverInit
<1>. QED BY <1>1, <1>2, <1>3, <1>5, <1>6 DEF DrawingInv

LEMMA HandshakeStep ==
  ASSUME HandshakeInv, Clock, Processor
  PROVE  HandshakeInv'
<1>1. BridgeClock /\ GraphicsClock
  BY DEF Clock
<1>. QED BY <1>1, DriverStep, BusStep, ControllerStep, TurnStep DEF HandshakeInv

(* What the program has read is colours.                                   *)
LEMMA ResultsStep ==
  ASSUME HandshakeInv, GraphicsTypeOK, results \in Seq(Colour), Processor
  PROVE  results' \in Seq(Colour)
<1>1. CASE ReadsColour
  <2>1. bus = FetchColour
    BY <1>1 DEF ReadsColour, Completes, HandshakeInv, BusInv
  <2>2. DataOutToCPU = Colour_Latch /\ Colour_Latch \in Colour
    BY <2>1 DEF DataOutToCPU, FetchColour, GraphicsTypeOK
  <2>. QED BY <1>1, <2>2 DEF ReadsColour
<1>2. CASE ~ReadsColour
  BY <1>2 DEF Processor, Computes, Issues, Waits, ReadsStatus, WritesRegister
<1>. QED BY <1>1, <1>2

LEMMA DrawingStep == DrawingInv /\ [Next]_vars => DrawingInv'
<1>. SUFFICES ASSUME DrawingInv, [Next]_vars PROVE DrawingInv'
  OBVIOUS
<1>1. CASE Next
  <2>1. Clock /\ Processor /\ GraphicsClock /\ BridgeClock
    BY <1>1 DEF Next, Clock
  <2>2. HandshakeInv' /\ GraphicsTypeOK'
    BY <2>1, HandshakeStep, GraphicsTypeStep DEF DrawingInv
  <2>3. BridgeTypeOK'
    <3>1. (request \in Transfer \cup {NoTransfer})'
      BY <2>2, RequestType, PTL
    <3>. QED BY <2>1, <3>1 DEF DrawingInv, BridgeTypeOK, BridgeClock, waitrequest
  <2>4. FigureInv'
    BY <2>1, FigureStep DEF DrawingInv
  <2>5. ArgsInv'
    BY <2>1, ArgsStep DEF DrawingInv, GraphicsTypeOK, GraphicsClock
  <2>6. ColourInv' /\ FetchInv'
    BY <2>1, ColourStep, FetchStep DEF DrawingInv, GraphicsTypeOK
  <2>7. results' \in Seq(Colour)
    BY <2>1, ResultsStep DEF DrawingInv
  <2>. QED BY <2>2, <2>3, <2>4, <2>5, <2>6, <2>7 DEF DrawingInv
<1>2. CASE UNCHANGED vars
  <2>1. /\ UNCHANGED <<request, enable, bus, acknowledge, calls, step, results>>
        /\ UNCHANGED <<regs, CommandWritten_H, Idle_H, CurrentState, w, sram, frame, sram_q>>
        /\ UNCHANGED <<Colour_Latch, pallette_port, palette>>
    BY <1>2 DEF vars, bridgeVars, controllerRegs, driverVars
  <2>2. BridgeTypeOK'
    BY <2>1 DEF DrawingInv, BridgeTypeOK
  <2>3. GraphicsTypeOK'
    BY <2>1 DEF DrawingInv, GraphicsTypeOK
  <2>4. HandshakeInv'
    BY <2>1 DEF DrawingInv, HandshakeInv, DriverInv, BusInv, ControllerInv, TurnInv, Quiet
  <2>5. ArgsInv' /\ ColourInv' /\ FetchInv'
    BY <2>1 DEF DrawingInv, ArgsInv, ColourInv, FetchInv, InFlight, Quiet
  <2>6. CommandInv' /\ WriteInv' /\ StraightInv' /\ ReadInv'
    BY <2>1 DEF DrawingInv, FigureInv, CommandInv, WriteInv, StraightInv, ReadInv, RowDone,
                ColumnDone, Complete, Done, Shown, Addressed, AtOutput
  <2>7. LineInv'
    BY <2>1 DEF DrawingInv, FigureInv, LineInv, Begun, Ways, Sides, Sorted, AtPixel, PastPixel,
                Stands, Done, Shown
  <2>. QED BY <2>1, <2>2, <2>3, <2>4, <2>5, <2>6, <2>7 DEF DrawingInv, FigureInv
<1>. QED BY <1>1, <1>2

LEMMA SpecDrawingInv == Spec => []DrawingInv
  BY DrawingInit, DrawingStep, PTL DEF Spec

(* Every register and memory of the display keeps its type; above all no   *)
(* address of a figure leaves the video memory and every colour and palette*)
(* number that reaches a memory is one of the program's.                   *)
THEOREM DisplayTypeCorrect == Spec => []TypeOK
<1>1. DrawingInv /\ ScanInv => TypeOK
  BY DEF DrawingInv, ScanInv, TypeOK, HandshakeInv, DriverInv, DriverTypeOK
<1>. QED BY <1>1, SpecDrawingInv, SpecScanInv, PTL

----------------------------------------------------------------------------
(* The refinement.  The canvas shows the figure in flight as finished.     *)
Screen == IF InFlight THEN Paint(frame, regs) ELSE frame
Colours == IF InFlight THEN Programmed(palette, regs) ELSE palette

LEMMA CanvasInit == Init => Canvas!Init
<1>. SUFFICES ASSUME Init PROVE Canvas!Init
  OBVIOUS
<1>1. frame = [p \in Pixel |-> 0] /\ palette = [c \in Colour |-> 0]
  BY DEF Init, GraphicsInit
<1>2. PixelsOf(regs) = {} /\ \A s : Programmed(s, regs) = s
  BY FirstCommand DEF Init
<1>3. Paint(frame, regs) = frame
  BY <1>1, <1>2 DEF Paint
<1>4. Screen = [p \in Pixel |-> 0] /\ Colours = [c \in Colour |-> 0]
  BY <1>1, <1>2, <1>3 DEF Screen, Colours
<1>5. calls \in {p.calls : p \in Pictures} /\ results = <<>>
  BY DEF Init, DriverInit
<1>6. Canvas!Pixel = Pixel
  BY DEF Canvas!Pixel, Pixel
<1>. QED BY <1>4, <1>5, <1>6 DEF Canvas!Init, Screen, Colours

(* In flight the picture stands still.                                     *)
LEMMA FigureComplete ==
  ASSUME DrawingInv, Clock, Processor, InFlight, ~InFlight'
  PROVE  Complete /\ (regs.Command = ProgramPaletteColour => pallette_port.write)
<1>1. /\ CurrentState' = "Idle" /\ ~sram'.write /\ ~pallette_port'.write
      /\ ~(CommandWritten_H' /\ request' = NoTransfer)
  BY DEF InFlight
<1>2. regs' = regs /\ frame' = Shown
  BY FlightHolds, PictureClock DEF DrawingInv, GraphicsTypeOK, Clock, GraphicsClock
<1>3. CASE CurrentState # "Idle"
  <2>1. Complete' /\ regs.Command # ProgramPaletteColour
    BY <1>1, <1>3, FigureStep DEF DrawingInv, Ended
  <2>2. \A p : Done(p)' <=> Done(p)
    BY <1>1, <1>2, NothingPlotted
  <2>3. Complete
    <3>1. PICK drawn : drawn = PixelsOf(regs)
      OBVIOUS
    <3>2. drawn = PixelsOf(regs)'
      BY <1>2, <3>1 DEF PixelsOf, LinePixels
    <3>3. \A p \in drawn : Done(p)'
      BY <2>1, <3>2 DEF Complete
    <3>. QED BY <2>2, <3>1, <3>3 DEF Complete
  <2>. QED BY <2>1, <2>3
<1>4. CASE CurrentState = "Idle"
  <2>1. ~(CommandWritten_H /\ request = NoTransfer)
    <3>. SUFFICES ASSUME CommandWritten_H, request = NoTransfer PROVE FALSE
      OBVIOUS
    <3>1. ~enable
      BY DEF DrawingInv, HandshakeInv, BusInv
    <3>. QED BY <1>1, <1>4, <3>1, ControllerClock DEF Clock
  <2>2. sram.write \/ pallette_port.write
    BY <1>4, <2>1 DEF InFlight
  <2>3. CASE sram.write
    <3>1. Complete /\ PixelsOf(regs) # {}
      BY <1>4, <2>3 DEF DrawingInv, FigureInv, WriteInv
    <3>2. regs.Command # ProgramPaletteColour
      BY <3>1, CommandNumbers DEF PixelsOf
    <3>. QED BY <3>1, <3>2
  <2>4. CASE pallette_port.write
    <3>1. PixelsOf(regs) = {}
      BY <2>4, CommandNumbers DEF DrawingInv, FigureInv, WriteInv, PixelsOf
    <3>. QED BY <2>4, <3>1 DEF Complete
  <2>. QED BY <2>2, <2>3, <2>4
<1>. QED BY <1>3, <1>4

(* So nothing changes on the canvas until the figure has ended.            *)
LEMMA PictureHolds ==
  ASSUME DrawingInv, Clock, Processor, InFlight
  PROVE  Screen' = Screen /\ Colours' = Colours /\ calls' = calls /\ results' = results
<1>1. regs' = regs /\ calls' = calls /\ results' = results
  BY FlightHolds DEF DrawingInv, GraphicsTypeOK
<1>2. VideoMemory /\ PaletteMemory
  BY DEF Clock, GraphicsClock
<1>3. Screen = Paint(frame, regs) /\ Colours = Programmed(palette, regs)
  BY DEF Screen, Colours
<1>4. /\ frame' = Shown /\ Paint(Shown, regs) = Paint(frame, regs)
      /\ Complete => Shown = Paint(frame, regs)
      /\ Programmed(palette', regs) = Programmed(palette, regs)
  BY <1>2, PictureClock, EntriesClock DEF DrawingInv
<1>5. CASE InFlight'
  <2>1. PICK f, p, r : f = frame' /\ p = palette' /\ r = regs'
    OBVIOUS
  <2>2. Screen' = Paint(f, r) /\ Colours' = Programmed(p, r)
    BY <1>5, <2>1 DEF Screen, Colours, Paint, Programmed, PixelsOf, LinePixels
  <2>. QED BY <1>1, <1>3, <1>4, <2>1, <2>2
<1>6. CASE ~InFlight'
  <2>1. Screen' = frame' /\ Colours' = palette'
    BY <1>6 DEF Screen, Colours
  <2>2. Complete /\ (regs.Command = ProgramPaletteColour => pallette_port.write)
    BY <1>6, FigureComplete
  <2>3. palette' = Programmed(palette, regs)
    <3>1. CASE pallette_port.write
      BY <1>2, <3>1, EntriesClock DEF DrawingInv
    <3>2. CASE ~pallette_port.write
      BY <1>2, <2>2, <3>2, EntriesClock DEF DrawingInv, Programmed
    <3>. QED BY <3>1, <3>2
  <2>. QED BY <1>1, <1>3, <1>4, <2>1, <2>2, <2>3
<1>. QED BY <1>5, <1>6

(* A command of its own draws its figure; that of ReadAPixel draws none.   *)
LEMMA FigureBegins ==
  ASSUME DrawingInv, Clock, Processor, WritesRegister, step = CommandStep(Head(calls))
  PROVE  /\ Screen' = Paint(Screen, Head(calls)) /\ Colours' = Programmed(Colours, Head(calls))
         /\ results' = results /\ calls # <<>> /\ Head(calls) \in PrimitiveCall
         /\ calls' = IF Head(calls).Command = GetAPixelCmd THEN calls ELSE Tail(calls)
<1>1. /\ InFlight' /\ ~InFlight
      /\ calls # <<>> /\ Head(calls) \in PrimitiveCall /\ Completes
  BY FlightBeginsAt DEF DrawingInv
<1>2. LoadRegisters /\ VideoMemory /\ PaletteMemory
  BY DEF Clock, GraphicsClock
<1>3. Holds(regs', Head(calls), CommandStep(Head(calls)) + 1) /\ regs' \in [Register -> Int]
  BY <1>1, <1>2, GivenStep, RegistersLoad DEF DrawingInv, GraphicsTypeOK
<1>4. frame' = frame /\ palette' = palette
  BY <1>1, <1>2 DEF InFlight, VideoMemory, PaletteMemory
<1>5. Screen = frame /\ Colours = palette
  BY <1>1 DEF Screen, Colours
<1>6. PICK f, p, r : f = frame' /\ p = palette' /\ r = regs'
  OBVIOUS
<1>7. Screen' = Paint(f, r) /\ Colours' = Programmed(p, r)
  BY <1>1, <1>6 DEF Screen, Colours, Paint, Programmed, PixelsOf, LinePixels
<1>8. Paint(f, r) = Paint(f, Head(calls)) /\ Programmed(p, r) = Programmed(p, Head(calls))
  <2>1. Holds(r, Head(calls), CommandStep(Head(calls)) + 1) /\ r \in [Register -> Int]
    BY <1>3, <1>6
  <2>. QED BY <1>1, <2>1, HoldsFigure
<1>9. results' = results /\ Ends
  BY DEF WritesRegister
<1>10. calls' = IF Head(calls).Command = GetAPixelCmd THEN calls ELSE Tail(calls)
  <2>1. CommandStep(Head(calls)) \in 4..7
    BY <1>1, StepsOf
  <2>. QED BY <1>9, <2>1 DEF Ends, LastStep
<1>. QED BY <1>1, <1>4, <1>5, <1>6, <1>7, <1>8, <1>9, <1>10

(* Otherwise nothing shows, and a call ends only when its pixel is fetched.*)
LEMMA PictureStays ==
  ASSUME DrawingInv, Clock, Processor, ~InFlight, ~InFlight'
  PROVE  /\ Screen' = Screen /\ Colours' = Colours /\ Screen = frame
         /\ (calls' = calls /\ results' = results) \/ ReadsColour
<1>1. frame' = frame /\ palette' = palette
  BY DEF InFlight, Clock, GraphicsClock, VideoMemory, PaletteMemory
<1>2. Screen = frame /\ Colours = palette /\ Screen' = frame' /\ Colours' = palette'
  BY DEF Screen, Colours
<1>3. (calls' = calls /\ results' = results) \/ ReadsColour
  <2>1. CASE Computes \/ Issues \/ Waits
    BY <2>1 DEF Computes, Issues, Waits
  <2>2. CASE ReadsStatus \/ WritesRegister
    <3>1. request # NoTransfer /\ results' = results /\ (UNCHANGED <<calls, step>> \/ Ends)
          /\ (request = Status \/ request.rw = "write")
      BY <2>2 DEF ReadsStatus, WritesRegister, Completes
    <3>2. /\ TransferAt(Head(calls), step) = request
          /\ Head(calls) \in PrimitiveCall /\ step \in 1..LastStep(Head(calls))
          /\ CommandStep(Head(calls)) \in 4..7
          /\ LastStep(Head(calls)) \in {CommandStep(Head(calls)), CommandStep(Head(calls)) + 2}
      BY <3>1, Requested, TransferOf DEF DrawingInv
    <3>3. step # CommandStep(Head(calls))
      <4>1. CASE WritesRegister
        BY <4>1, FlightBeginsAt DEF DrawingInv
      <4>2. CASE ReadsStatus
        <5>1. request.rw # "write"
          BY <4>2 DEF ReadsStatus, Status
        <5>. QED BY <3>2, <5>1, TransferOf
      <4>. QED BY <2>2, <4>1, <4>2
    <3>4. step # CommandStep(Head(calls)) + 2
      BY <3>1, <3>2, TransferWrites DEF FetchColour, Status
    <3>. QED BY <3>1, <3>2, <3>3, <3>4 DEF Ends
  <2>. QED BY <2>1, <2>2 DEF Processor
<1>. QED BY <1>1, <1>2, <1>3

(* What ReadAPixel fetches is the pixel as it was drawn.                   *)
LEMMA PixelFetched ==
  ASSUME DrawingInv, ReadsColour
  PROVE  /\ calls # <<>> /\ Head(calls) \in PrimitiveCall /\ Head(calls).Command = GetAPixelCmd
         /\ calls' = Tail(calls)
         /\ ~InFlight => results' = Append(results, frame[Clip(Head(calls).X1, Head(calls).Y1)])
<1>1. request = FetchColour /\ request # NoTransfer /\ bus = request /\ Ends
      /\ results' = Append(results, DataOutToCPU)
  BY DEF ReadsColour, Completes, DrawingInv, HandshakeInv, BusInv
<1>2. /\ calls # <<>> /\ TransferAt(Head(calls), step) = FetchColour
      /\ Head(calls) \in PrimitiveCall /\ step \in 1..LastStep(Head(calls))
      /\ CommandStep(Head(calls)) \in 4..7
  BY <1>1, Requested DEF DrawingInv
<1>3. step = LastStep(Head(calls)) /\ step \notin 2..CommandStep(Head(calls))
      /\ LastStep(Head(calls)) \in {CommandStep(Head(calls)), CommandStep(Head(calls)) + 2}
  BY <1>2, TransferOf DEF FetchColour
<1>4. step > CommandStep(Head(calls))
  BY <1>2, <1>3
<1>5. Head(calls).Command = GetAPixelCmd /\ calls' = Tail(calls)
      /\ step = CommandStep(Head(calls)) + 2
  BY <1>1, <1>2, <1>3, <1>4, FetchCommand DEF DrawingInv, Ends
<1>6. DataOutToCPU = Colour_Latch
  BY <1>1 DEF DataOutToCPU, FetchColour
<1>7. ~InFlight => Colour_Latch = frame[Clip(regs.X1, regs.Y1)]
  BY <1>2, <1>4, <1>5 DEF DrawingInv, FetchInv, InFlight, Quiet
<1>8. Clip(regs.X1, regs.Y1) = Clip(Head(calls).X1, Head(calls).Y1)
  <2>1. Holds(regs, Head(calls), step)
    BY <1>2 DEF DrawingInv, ArgsInv
  <2>2. Holds(regs, Head(calls), CommandStep(Head(calls)) + 1)
    BY <1>2, <1>4, <2>1 DEF Holds, Given
  <2>. QED BY <1>2, <2>2, HoldsFigure DEF DrawingInv, GraphicsTypeOK
<1>. QED BY <1>1, <1>2, <1>5, <1>6, <1>7, <1>8

LEMMA ReadDrawsNothing ==
  ASSUME GraphicsTypeOK, NEW call, call.Command = GetAPixelCmd
  PROVE  Paint(frame, call) = frame /\ \A s : Programmed(s, call) = s
<1>1. PixelsOf(call) = {}
  BY CommandNumbers DEF PixelsOf
<1>2. Paint(frame, call) = frame
  BY <1>1 DEF Paint, GraphicsTypeOK
<1>. QED BY <1>2, CommandNumbers DEF Programmed
----------------------------------------------------------------------------
(* Every clock is a call of the canvas or nothing to it.                   *)
LEMMA CanvasStep ==
  ASSUME DrawingInv, [Next]_vars
  PROVE  [Canvas!NextCall]_Canvas!canvasVars
<1>1. \A s, c : /\ Canvas!Paint(s, c) = Paint(s, c) /\ Canvas!Programmed(s, c) = Programmed(s, c)
                /\ Canvas!Read(s, c) = Read(s, c)
  BY SameMeaning
<1>2. CASE UNCHANGED vars
  <2>1. Screen' = Screen /\ Colours' = Colours /\ calls' = calls /\ results' = results
    BY <1>2 DEF vars, bridgeVars, controllerRegs, driverVars, Screen, Colours, InFlight, Paint,
                Programmed, PixelsOf, LinePixels
  <2>. QED BY <2>1 DEF Canvas!canvasVars, Screen, Colours
<1>3. CASE Next
  <2>0. Clock /\ Processor
    BY <1>3 DEF Next
  <2>1. CASE Screen' = Screen /\ Colours' = Colours /\ calls' = calls /\ results' = results
    BY <2>1 DEF Canvas!canvasVars, Screen, Colours
  <2>2. ASSUME NEW c, calls # <<>>, c = Head(calls), calls' = Tail(calls),
               Screen' = Paint(Screen, c), Colours' = Programmed(Colours, c),
               results' = results \o Read(Screen, c)
        PROVE  Canvas!NextCall
    BY <1>1, <2>2 DEF Canvas!NextCall, Screen, Colours
  <2>3. CASE InFlight
    BY <2>0, <2>1, <2>3, PictureHolds
  <2>4. CASE ~InFlight /\ InFlight'
    <3>1. WritesRegister /\ step = CommandStep(Head(calls))
      BY <2>0, <2>4, FlightBegins DEF DrawingInv
    <3>2. /\ Screen' = Paint(Screen, Head(calls)) /\ Colours' = Programmed(Colours, Head(calls))
          /\ results' = results /\ calls # <<>>
          /\ calls' = IF Head(calls).Command = GetAPixelCmd THEN calls ELSE Tail(calls)
      BY <2>0, <3>1, FigureBegins
    <3>3. CASE Head(calls).Command = GetAPixelCmd
      <4>1. Screen = frame
        BY <2>4 DEF Screen
      <4>2. Screen' = Screen /\ Colours' = Colours
        BY <3>2, <3>3, <4>1, ReadDrawsNothing DEF DrawingInv
      <4>. QED BY <2>1, <3>2, <3>3, <4>2
    <3>4. CASE Head(calls).Command # GetAPixelCmd
      <4>1. results = results \o Read(Screen, Head(calls))
        BY <3>4 DEF DrawingInv, Read
      <4>. QED BY <2>2, <3>2, <3>4, <4>1
    <3>. QED BY <3>3, <3>4
  <2>5. CASE ~InFlight /\ ~InFlight'
    <3>1. /\ Screen' = Screen /\ Colours' = Colours /\ Screen = frame
          /\ (calls' = calls /\ results' = results) \/ ReadsColour
      BY <2>0, <2>5, PictureStays
    <3>2. CASE ReadsColour
      <4>1. /\ calls # <<>> /\ Head(calls) \in PrimitiveCall /\ Head(calls).Command = GetAPixelCmd
            /\ calls' = Tail(calls)
            /\ results' = Append(results, frame[Clip(Head(calls).X1, Head(calls).Y1)])
        BY <2>5, <3>2, PixelFetched
      <4>2. Screen' = Paint(Screen, Head(calls)) /\ Colours' = Programmed(Colours, Head(calls))
        BY <3>1, <4>1, ReadDrawsNothing DEF DrawingInv
      <4>3. results' = results \o Read(Screen, Head(calls))
        <5>1. PICK colour : colour = frame[Clip(Head(calls).X1, Head(calls).Y1)]
          OBVIOUS
        <5>2. colour \in Colour
          <6>1. Clip(Head(calls).X1, Head(calls).Y1) \in Pixel
            BY <4>1, ClipType DEF PrimitiveCall
          <6>. QED BY <5>1, <6>1 DEF DrawingInv, GraphicsTypeOK
        <5>3. Append(results, colour) = results \o <<colour>>
          BY <5>2 DEF DrawingInv
        <5>. QED BY <3>1, <4>1, <5>1, <5>3 DEF Read
      <4>. QED BY <2>2, <4>1, <4>2, <4>3
    <3>. QED BY <2>1, <3>1, <3>2
  <2>. QED BY <2>3, <2>4, <2>5
<1>. QED BY <1>2, <1>3

(* The bridge, the driver, the controller and its memories implement the   *)
(* canvas: every call draws its whole figure and nothing else, with its own*)
(* arguments, once and in the order of the calls, and ReadAPixel returns   *)
(* what is on the screen, for every screen, every program and every speed  *)
(* of the processor.                                                       *)
THEOREM CanvasIsImplemented == Spec => DrawsAsCalled
<1>1. DrawingInv /\ [Next]_vars => [Canvas!NextCall]_Canvas!canvasVars
  BY CanvasStep
<1>. QED BY <1>1, CanvasInit, SpecDrawingInv, PTL DEF Spec, DrawsAsCalled, Canvas!Spec

----------------------------------------------------------------------------
(* Pictures.  f[n] is what the first n calls of a picture have drawn, one  *)
(* after the other on an empty screen.                                     *)
Drawn(p, f) ==
  /\ f[0] = [at \in Pixel |-> 0]
  /\ \A n \in 1..Len(p.calls) : f[n] = Paint(f[n - 1], p.calls[n])
  /\ p.meant = f[Len(p.calls)]

(* Every picture is what its own calls draw: a fact about the program,     *)
(* which the run display bears out for each of its pictures.               *)
MeantAsCalled ==
  \A p \in Pictures : \E f \in [0..Len(p.calls) -> [Pixel -> Colour]] : Drawn(p, f)

(* The calls that are left after the first n.                              *)
Remaining(n) ==
  /\ Len(calls) = Len(picture.calls) - n
  /\ \A i \in 1..Len(calls) : calls[i] = picture.calls[n + i]

ProgressInv ==
  /\ picture \in Pictures
  /\ \E f \in [0..Len(picture.calls) -> [Pixel -> Colour]], n \in 0..Len(picture.calls) :
       Drawn(picture, f) /\ Remaining(n) /\ Screen = f[n]

LEMMA ProgressInit ==
  ASSUME MeantAsCalled, Init
  PROVE  ProgressInv
<1>1. picture \in Pictures /\ calls = picture.calls /\ picture.calls \in Seq(PrimitiveCall)
  BY PicturesAssumption DEF Init
<1>2. PICK f \in [0..Len(picture.calls) -> [Pixel -> Colour]] : Drawn(picture, f)
  BY <1>1 DEF MeantAsCalled
<1>3. Remaining(0) /\ 0 \in 0..Len(picture.calls)
  BY <1>1 DEF Remaining
<1>4. Screen = f[0]
  <2>1. Screen = [at \in Pixel |-> 0]
    <3>1. Canvas!Pixel = Pixel
      BY DEF Canvas!Pixel, Pixel
    <3>. QED BY <3>1, CanvasInit DEF Canvas!Init, Screen
  <2>. QED BY <1>2, <2>1 DEF Drawn
<1>. QED BY <1>1, <1>2, <1>3, <1>4 DEF ProgressInv

LEMMA ProgressStep ==
  ASSUME ProgressInv, DrawingInv, [Next]_vars
  PROVE  ProgressInv'
<1>1. picture' = picture /\ [Canvas!NextCall]_Canvas!canvasVars
  BY CanvasStep DEF Next, Clock, vars
<1>2. PICK f \in [0..Len(picture.calls) -> [Pixel -> Colour]] :
        \E n \in 0..Len(picture.calls) : Drawn(picture, f) /\ Remaining(n) /\ Screen = f[n]
  BY DEF ProgressInv
<1>3. PICK n \in 0..Len(picture.calls) : Drawn(picture, f) /\ Remaining(n) /\ Screen = f[n]
  BY <1>2
<1>4. Drawn(picture, f)' /\ picture.calls \in Seq(PrimitiveCall) /\ calls \in Seq(PrimitiveCall)
  BY <1>1, <1>3, PicturesAssumption DEF Drawn, ProgressInv, DrawingInv, HandshakeInv, DriverInv
<1>5. CASE UNCHANGED Canvas!canvasVars
  <2>1. Screen' = Screen /\ calls' = calls
    BY <1>5 DEF Canvas!canvasVars, Screen
  <2>. QED BY <1>1, <1>3, <1>4, <2>1 DEF ProgressInv, Remaining
<1>6. CASE Canvas!NextCall
  <2>1. calls # <<>> /\ calls' = Tail(calls) /\ Screen' = Paint(Screen, Head(calls))
    BY <1>6, SameMeaning DEF Canvas!NextCall, Screen
  <2>2. n + 1 \in 1..Len(picture.calls) /\ Head(calls) = picture.calls[n + 1]
    BY <1>3, <1>4, <2>1 DEF Remaining
  <2>3. Screen' = f[n + 1]
    BY <1>3, <2>1, <2>2 DEF Drawn
  <2>4. /\ Len(calls') = Len(picture.calls) - (n + 1)
        /\ \A i \in 1..Len(calls') : calls'[i] = picture.calls[n + 1 + i]
    BY <1>3, <1>4, <2>1, <2>2 DEF Remaining
  <2>5. PICK k \in 0..Len(picture.calls) : k = n + 1
    BY <2>2
  <2>6. Remaining(k)' /\ Screen' = f[k]
    BY <1>1, <2>3, <2>4, <2>5 DEF Remaining
  <2>. QED BY <1>1, <1>4, <2>5, <2>6 DEF ProgressInv
<1>. QED BY <1>1, <1>5, <1>6

(* A picture that its calls draw one after the other on an empty screen is *)
(* on the display when the program has ended: what is left of DrawnAsMeant *)
(* is a question about the functions of graphics.c alone.                  *)
THEOREM PicturesAreDrawn ==
  ASSUME MeantAsCalled
  PROVE  Spec => []DrawnAsMeant
<1>1. Init => ProgressInv
  BY ProgressInit
<1>2. ProgressInv /\ DrawingInv /\ [Next]_vars => ProgressInv'
  BY ProgressStep
<1>3. ProgressInv /\ DrawingInv => DrawnAsMeant
  <2>. SUFFICES ASSUME ProgressInv, calls = <<>>, ~InFlight PROVE frame = picture.meant
    BY DEF DrawnAsMeant
  <2>1. picture.calls \in Seq(PrimitiveCall)
    BY PicturesAssumption DEF ProgressInv
  <2>. QED BY <2>1 DEF ProgressInv, Drawn, Remaining, Screen
<1>. QED BY <1>1, <1>2, <1>3, SpecDrawingInv, PTL DEF Spec
=============================================================================
