------------------------------- MODULE Links -------------------------------
(***************************************************************************)
(* The serial lines of the controller (software/main/main.c) and the words *)
(* spoken on them: touch packets from the screen, commands to the Arduino  *)
(* and its replies, messages to and from the Raspberry Pi.                 *)
(*                                                                         *)
(* A message to the controller is one element of a line, since it acts     *)
(* only on the terminating character.  A command to the Arduino is three   *)
(* elements (prefix, argument, carriage return), since the firmware has    *)
(* two readers with a buffer each and a command may be split between them. *)
(***************************************************************************)
EXTENDS Integers, Sequences

VARIABLES
  touchLine,     \* packets of the touch screen not yet read by the controller
  toArduino,     \* elements of commands not yet read by the firmware
  fromArduino,   \* replies of the firmware not yet read by the controller
  toRpi,         \* messages not yet read by the Raspberry Pi
  fromRpi        \* messages of the Raspberry Pi not yet read by the controller

links == <<touchLine, toArduino, fromArduino, toRpi, fromRpi>>

----------------------------------------------------------------------------
(* Touch screen.  A point is the index in boxes[] of the button under it.  *)

Nowhere == -1                 \* a point outside of every button
AutoSortBtn == 0
StopBtn == 1
SweepBtns == 2..3             \* clockwise, counter-clockwise
PositionBtns == 4..7
Point == -1..7

TouchState == {"touched", "untouched"}
Packet == [event : TouchState, at : Point]

----------------------------------------------------------------------------
(* Commands to the Arduino.                                                *)

CR == "CR"
Prefix == {"as:", "s:", "cw:", "ccw:", "cv:"}
Argument == {"0", "1", "60", "120", "180"}
Token == Prefix \cup Argument \cup {CR}

AutoSortCmd == <<"as:", "1", CR>>

(* Mutant: the empty command has no carriage return.                       *)
SweepCmd_NoStop(dir) ==
  CASE dir = "CW"  -> <<"cw:", "1", CR>>
    [] dir = "CCW" -> <<"ccw:", "1", CR>>
    [] OTHER       -> <<>>

SweepCmd(dir) ==
  CASE dir = "CW"  -> <<"cw:", "1", CR>>
    [] dir = "CCW" -> <<"ccw:", "1", CR>>
    [] OTHER       -> <<CR>>

ConveyorCmd(state) == <<"cv:", IF state = "ON" THEN "1" ELSE "0", CR>>

SetServoCmd(pos) == <<"s:", pos, CR>>

(* The servo positions of the four bins, red, green, blue and other: the   *)
(* decimal text the controller sends and the angle the firmware reads.     *)
Bin == 1..4
BinPosition == [b \in Bin |-> CASE b = 1 -> "180" [] b = 2 -> "120"
                                [] b = 3 -> "60"  [] b = 4 -> "0"]
Angle == [a \in Argument |-> CASE a = "180" -> 180 [] a = "120" -> 120
                               [] a = "60" -> 60   [] a = "1" -> 1
                               [] a = "0" -> 0]

Reply == {"ls", "dn"}         \* object in the laser beam; timed out

SendArduino(cmd) == toArduino' = toArduino \o cmd

----------------------------------------------------------------------------
(* Messages of the Raspberry Pi, which relays the server's answers and the *)
(* remote control.  val is the number a message carries, 0 if none.        *)

InitMsg == [type |-> "init", val |-> 0]
CaptureMsg == [type |-> "capture", val |-> 0]
DoneMsg(cycle) == [type |-> "done", val |-> cycle]
UplinkMsg == [type : {"init", "capture", "done"}, val : Nat]

Remote == {"ctrl/as", "ctrl/st", "ctrl/pos"}
DownlinkMsg == [type : {"cycle_id", "retry"} \cup Remote, val : Nat]
                  \cup [type : {"cat"}, val : Bin]
NoMsg == [type |-> "none", val |-> 0]

SendRpi(msg) == toRpi' = Append(toRpi, msg)

----------------------------------------------------------------------------
LinksTypeOK ==
  /\ touchLine \in Seq(Packet)
  /\ toArduino \in Seq(Token)
  /\ fromArduino \in Seq(Reply)
  /\ toRpi \in Seq(UplinkMsg)
  /\ fromRpi \in Seq(DownlinkMsg)

LinksInit ==
  /\ touchLine = <<>>
  /\ toArduino = <<>>
  /\ fromArduino = <<>>
  /\ toRpi = <<>>
  /\ fromRpi = <<>>
============================================================================
