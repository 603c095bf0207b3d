-------------------------- MODULE ArduinoFirmware --------------------------
(***************************************************************************)
(* The conveyor board, arduino/main/main.ino.  loop() gathers a command in *)
(* mainBuffer and runs it at the carriage return.  autoSort() and sweep()  *)
(* do not return to loop() until they are over and read the line on their  *)
(* own, autoSort() with a second buffer, sweep() with none.                *)
(***************************************************************************)
EXTENDS Links

CONSTANT SweepStep   \* degrees between two modelled steps of a sweep
                     \* (1 in the code; coarser steps keep the angles few)
ASSUME SweepStepAssumption == SweepStep \in 1..180

VARIABLES
  ard_pc,              \* "loop", "autoSort", "sweepCW" or "sweepCCW"
  mainBuffer, sortBuffer,
  belt,                \* the conveyor motor runs
  laser,               \* the laser is lit
  servoPos

arduinoVars == <<ard_pc, mainBuffer, sortBuffer, belt, laser, servoPos>>
boardVars == <<belt, laser, servoPos>>

----------------------------------------------------------------------------
ArduinoTypeOK ==
  /\ ard_pc \in {"loop", "autoSort", "sweepCW", "sweepCCW"}
  /\ mainBuffer \in Seq(Token)
  /\ sortBuffer \in Seq(Token)
  /\ belt \in BOOLEAN
  /\ laser \in BOOLEAN
  /\ servoPos \in 0..180

ArduinoInit ==
  /\ ard_pc = "loop"
  /\ mainBuffer = <<>>
  /\ sortBuffer = <<>>
  /\ belt = FALSE
  /\ laser = FALSE
  /\ servoPos = 0

----------------------------------------------------------------------------
(* getCommand returns no value when the buffer starts with no prefix: any  *)
(* enumerator, or none of them, may come out.                              *)
Command == {"AUTO_SORT", "SET", "TURN_CW", "TURN_CCW", "CONVEYOR"}

GetCommand(buf) ==
  IF buf = <<>> \/ Head(buf) \notin Prefix THEN Command \cup {"garbage"}
  ELSE {CASE Head(buf) = "as:"  -> "AUTO_SORT"
          [] Head(buf) = "s:"   -> "SET"
          [] Head(buf) = "cw:"  -> "TURN_CW"
          [] Head(buf) = "ccw:" -> "TURN_CCW"
          [] Head(buf) = "cv:"  -> "CONVEYOR"}

(* getSerialData: what follows the first colon, all of it if there is none *)
GetSerialData(buf) ==
  IF \E i \in 1..Len(buf) : buf[i] \in Prefix
  THEN LET first == CHOOSE i \in 1..Len(buf) :
                      /\ buf[i] \in Prefix
                      /\ \A j \in 1..(i - 1) : buf[j] \notin Prefix
       IN  SubSeq(buf, first + 1, Len(buf))
  ELSE buf

(* String::toInt: the leading number, 0 if there is none.                  *)
ToInt(data) ==
  IF data # <<>> /\ Head(data) \in Argument THEN Angle[Head(data)] ELSE 0

(* Mutant: only the lower end is capped.                                   *)
GetServoPosition_Uncapped(pos) == IF pos < 0 THEN 0 ELSE pos

GetServoPosition(pos) == IF pos > 180 THEN 180 ELSE IF pos < 0 THEN 0 ELSE pos

----------------------------------------------------------------------------
Read(token) ==
  /\ toArduino # <<>>
  /\ token = Head(toArduino)
  /\ toArduino' = Tail(toArduino)

(* loop(): an element of a command that is not over yet.                   *)
ReadCommand ==
  /\ ard_pc = "loop"
  /\ toArduino # <<>> /\ Head(toArduino) # CR
  /\ mainBuffer' = Append(mainBuffer, Head(toArduino))
  /\ toArduino' = Tail(toArduino)
  /\ UNCHANGED <<ard_pc, sortBuffer, boardVars, fromArduino>>

(* loop(): the carriage return runs the command in the buffer.  The buffer *)
(* is cleared only after autoSort() or sweep(), which do not look at it.   *)
RunCommand(cmd) ==
  /\ ard_pc = "loop"
  /\ Read(CR)
  /\ cmd \in GetCommand(mainBuffer)
  /\ mainBuffer' = <<>>
  /\ UNCHANGED <<sortBuffer, fromArduino>>

Data == GetSerialData(mainBuffer)

StartAutoSort ==
  /\ RunCommand("AUTO_SORT")
  /\ Data = <<"1">>
  /\ ard_pc' = "autoSort"
  /\ laser' = TRUE
  /\ belt' = TRUE
  /\ UNCHANGED servoPos

SetServoPosition ==
  /\ RunCommand("SET")
  /\ servoPos' = GetServoPosition(ToInt(Data))
  /\ UNCHANGED <<ard_pc, belt, laser>>

StartSweep ==
  /\ Data = <<"1">>
  /\ \/ RunCommand("TURN_CW") /\ ard_pc' = "sweepCW"
     \/ RunCommand("TURN_CCW") /\ ard_pc' = "sweepCCW"
  /\ UNCHANGED boardVars

RunConveyor ==
  /\ RunCommand("CONVEYOR")
  /\ Data \in {<<"0">>, <<"1">>}
  /\ belt' = (Data = <<"1">>)
  /\ UNCHANGED <<ard_pc, laser, servoPos>>

CommandWithoutEffect ==
  /\ \/ RunCommand("garbage")
     \/ Data # <<"1">> /\ \E cmd \in {"AUTO_SORT", "TURN_CW", "TURN_CCW"} :
                             RunCommand(cmd)
     \/ Data \notin {<<"0">>, <<"1">>} /\ RunCommand("CONVEYOR")
  /\ UNCHANGED <<ard_pc, boardVars>>

----------------------------------------------------------------------------
(* autoSort().  The beam may be found broken at any time: the reading is   *)
(* debounced against a variable that is not initialised, and the second    *)
(* reading is of another pin.                                              *)

(* Mutant: the belt is not stopped.                                        *)
EndAutoSort_BeltRuns ==
  /\ ard_pc = "autoSort"
  /\ ard_pc' = "loop"
  /\ laser' = FALSE
  /\ UNCHANGED <<mainBuffer, servoPos, belt>>

EndAutoSort ==
  /\ ard_pc = "autoSort"
  /\ ard_pc' = "loop"
  /\ belt' = FALSE
  /\ laser' = FALSE
  /\ UNCHANGED <<mainBuffer, servoPos>>

LaserBroken ==
  /\ EndAutoSort
  /\ fromArduino' = Append(fromArduino, "ls")
  /\ UNCHANGED <<sortBuffer, toArduino>>

(* Mutant: the controller is not told.                                     *)
SortTimeout_Silent ==
  /\ EndAutoSort
  /\ sortBuffer' = <<>>
  /\ UNCHANGED <<toArduino, fromArduino>>

SortTimeout ==
  /\ EndAutoSort
  /\ fromArduino' = Append(fromArduino, "dn")
  /\ sortBuffer' = <<>>
  /\ UNCHANGED toArduino

IsStop(buf) == "CONVEYOR" \in GetCommand(buf) /\ GetSerialData(buf) = <<"0">>
MayNotStop(buf) == GetCommand(buf) # {"CONVEYOR"} \/ GetSerialData(buf) # <<"0">>

SortStopped ==
  /\ EndAutoSort
  /\ Read(CR)
  /\ IsStop(sortBuffer)
  /\ sortBuffer' = <<>>
  /\ UNCHANGED fromArduino

SortRead ==
  /\ ard_pc = "autoSort"
  /\ \E token \in Token :
       /\ Read(token)
       /\ IF token = CR THEN MayNotStop(sortBuffer) /\ sortBuffer' = <<CR>>
                        ELSE sortBuffer' = Append(sortBuffer, token)
  /\ UNCHANGED <<ard_pc, mainBuffer, boardVars, fromArduino>>

----------------------------------------------------------------------------
(* sweep(): one turn of its loop.                                          *)

Sweeping == ard_pc \in {"sweepCW", "sweepCCW"}

SweepMove ==
  /\ Sweeping
  /\ \/ UNCHANGED toArduino      \* nothing has arrived yet
     \/ \E token \in Token \ {CR} : Read(token)
  /\ servoPos' = GetServoPosition(
                   IF ard_pc = "sweepCW" THEN servoPos + SweepStep
                                         ELSE servoPos - SweepStep)
  /\ UNCHANGED <<ard_pc, mainBuffer, sortBuffer, belt, laser, fromArduino>>

SweepEnd ==
  /\ Sweeping
  /\ Read(CR)
  /\ ard_pc' = "loop"
  /\ UNCHANGED <<mainBuffer, sortBuffer, boardVars, fromArduino>>

----------------------------------------------------------------------------
RunLoop ==
  \/ ReadCommand \/ StartAutoSort \/ SetServoPosition \/ StartSweep
  \/ RunConveyor \/ CommandWithoutEffect

RunSort == LaserBroken \/ SortTimeout \/ SortStopped \/ SortRead
RunSweep == SweepMove \/ SweepEnd

ArduinoNext == RunLoop \/ RunSort \/ RunSweep
============================================================================
