------------------------ MODULE SortingSystem_proofs ------------------------
(***************************************************************************)
(* Proofs about SortingSystem, for every value of its constants.           *)
(***************************************************************************)
EXTENDS SortingSystem, SequenceTheorems, TLAPS

----------------------------------------------------------------------------
(* Lines: what reading from and writing to a sequence keeps.               *)

LEMMA Reading ==
  ASSUME NEW S, NEW line \in Seq(S), line # <<>>
  PROVE  Head(line) \in S /\ Tail(line) \in Seq(S)
BY HeadTailProperties

LEMMA Writing ==
  ASSUME NEW S, NEW line \in Seq(S), NEW e \in S
  PROVE  Append(line, e) \in Seq(S)
BY AppendProperties

LEMMA Joining ==
  ASSUME NEW S, NEW line \in Seq(S), NEW tail \in Seq(S)
  PROVE  line \o tail \in Seq(S)
BY ConcatProperties

----------------------------------------------------------------------------
(* The commands are sequences of tokens.                                   *)

LEMMA BinPositionType == \A b \in Bin : BinPosition[b] \in Argument
BY SMT DEF BinPosition, Bin, Argument

LEMMA AngleType == \A a \in Argument : Angle[a] \in 0..180
BY SMT DEF Angle, Argument

LEMMA ThreeTokens ==
  ASSUME NEW a \in Token, NEW b \in Token, NEW c \in Token
  PROVE  <<a, b, c>> \in Seq(Token)
OBVIOUS

LEMMA CommandType ==
  /\ AutoSortCmd \in Seq(Token)
  /\ \A dir : SweepCmd(dir) \in Seq(Token)
  /\ \A state : ConveyorCmd(state) \in Seq(Token)
  /\ \A pos \in Argument : SetServoCmd(pos) \in Seq(Token)
<1>1. Prefix \cup Argument \cup {CR} = Token
  BY DEF Token
<1>2. {"0", "1"} \subseteq Token /\ {"as:", "s:", "cw:", "ccw:", "cv:"} \subseteq Token
  BY DEF Token, Prefix, Argument
<1>3. AutoSortCmd \in Seq(Token)
  BY <1>1, <1>2, ThreeTokens DEF AutoSortCmd
<1>4. ASSUME NEW dir PROVE SweepCmd(dir) \in Seq(Token)
  <2>1. <<CR>> \in Seq(Token)
    BY <1>1
  <2>2. <<"cw:", "1", CR>> \in Seq(Token) /\ <<"ccw:", "1", CR>> \in Seq(Token)
    BY <1>1, <1>2, ThreeTokens
  <2>. QED BY <2>1, <2>2 DEF SweepCmd
<1>5. ASSUME NEW state PROVE ConveyorCmd(state) \in Seq(Token)
  <2>1. <<"cv:", "1", CR>> \in Seq(Token) /\ <<"cv:", "0", CR>> \in Seq(Token)
    BY <1>1, <1>2, ThreeTokens
  <2>. QED BY <2>1 DEF ConveyorCmd
<1>6. ASSUME NEW pos \in Argument PROVE SetServoCmd(pos) \in Seq(Token)
  BY <1>1, <1>2, ThreeTokens DEF SetServoCmd
<1>. QED BY <1>3, <1>4, <1>5, <1>6

LEMMA OverrideType ==
  ASSUME NEW b \in Bin, NEW state
  PROVE  SetServoCmd(BinPosition[b]) \o ConveyorCmd(state) \in Seq(Token)
BY BinPositionType, CommandType, Joining

----------------------------------------------------------------------------
(* Type correctness.  Counting an object sends the position of the bin of  *)
(* category_scanned, so the invariant has to know that bin: CategoryKnown. *)

TypeInv == TypeOK /\ CategoryKnown

LEMMA TypeInit == Init => TypeInv
<1>. SUFFICES ASSUME Init PROVE TypeInv
  OBVIOUS
<1>1. LinksTypeOK
  BY DEF Init, LinksInit, LinksTypeOK
<1>2. ControllerTypeOK /\ CategoryKnown
  <2>1. rpi_buff \in DownlinkMsg \cup {NoMsg} /\ ard_buff \in Seq(Reply)
    BY DEF Init, ControllerInit
  <2>2. count \in [Bin -> Nat]
    BY DEF Init, ControllerInit, NoCount
  <2>3. ts_buff \in Point \cup {NoPoint} /\ curr_btn \in Point
    BY DEF Init, ControllerInit, Point
  <2>. QED
    BY <2>1, <2>2, <2>3 DEF Init, ControllerInit, ControllerTypeOK, CategoryKnown,
         Mode, SortState, TouchState
<1>3. ArduinoTypeOK
  <2>1. mainBuffer \in Seq(Token) /\ sortBuffer \in Seq(Token)
    BY DEF Init, ArduinoInit
  <2>2. servoPos \in 0..180
    BY DEF Init, ArduinoInit
  <2>. QED
    BY <2>1, <2>2 DEF Init, ArduinoInit, ArduinoTypeOK
<1>. QED BY <1>1, <1>2, <1>3, SystemAssumption DEF Init, TypeInv, TypeOK

(* set_mode and the commands it sends.                                     *)
LEMMA SendArduinoType ==
  ASSUME toArduino \in Seq(Token), NEW cmd \in Seq(Token), SendArduino(cmd)
  PROVE  toArduino' \in Seq(Token)
BY Joining DEF SendArduino

LEMMA SendRpiType ==
  ASSUME toRpi \in Seq(UplinkMsg), NEW msg \in UplinkMsg, SendRpi(msg)
  PROVE  toRpi' \in Seq(UplinkMsg)
BY Writing DEF SendRpi

LEMMA UplinkType ==
  /\ InitMsg \in UplinkMsg
  /\ CaptureMsg \in UplinkMsg
  /\ \A cycle \in Nat : DoneMsg(cycle) \in UplinkMsg
BY DEF InitMsg, CaptureMsg, DoneMsg, UplinkMsg

(* What set_mode changes keeps its type.                                   *)
ModeType ==
  /\ curr_mode \in Mode
  /\ curr_sort \in SortState
  /\ count \in [Bin -> Nat]
  /\ toArduino \in Seq(Token)
  /\ toRpi \in Seq(UplinkMsg)

LEMMA SetModeType ==
  ASSUME ModeType, cycle_id \in Nat
  PROVE  /\ EnterAutoSort => ModeType'
         /\ \A dir : EnterSweep(dir) => ModeType'
         /\ \A bin \in Bin : EnterOverride(bin) => ModeType'
         /\ EnterIdle => ModeType'
<1>1. EnterAutoSort => ModeType'
  BY DEF EnterAutoSort, ModeType, Mode, SortState, NoCount
<1>2. ASSUME NEW dir, EnterSweep(dir) PROVE ModeType'
  BY <1>2, CommandType, SendArduinoType DEF EnterSweep, ModeType, Mode
<1>3. ASSUME NEW bin \in Bin, EnterOverride(bin) PROVE ModeType'
  BY <1>3, OverrideType, SendArduinoType DEF EnterOverride, ModeType, Mode
<1>4. ASSUME EnterIdle PROVE ModeType'
  <2>1. toArduino' \in Seq(Token)
    BY <1>4, CommandType, SendArduinoType DEF EnterIdle, ModeType
  <2>2. toRpi' \in Seq(UplinkMsg)
    BY <1>4, UplinkType, SendRpiType DEF EnterIdle, ModeType
  <2>. QED BY <1>4, <2>1, <2>2 DEF EnterIdle, ModeType, Mode
<1>. QED BY <1>1, <1>2, <1>3, <1>4

(* The board: each of its actions keeps what it reads, writes and moves.   *)
LEMMA ServoType ==
  /\ \A pos \in Int : GetServoPosition(pos) \in 0..180
  /\ \A data : ToInt(data) \in Int
<1>1. ASSUME NEW pos \in Int PROVE GetServoPosition(pos) \in 0..180
  BY DEF GetServoPosition
<1>2. ASSUME NEW data PROVE ToInt(data) \in Int
  <2>1. 0 \in Int /\ 0..180 \subseteq Int
    OBVIOUS
  <2>. QED BY <2>1, AngleType, Zenon DEF ToInt
<1>. QED BY <1>1, <1>2

LEMMA SortEndType ==
  ASSUME ArduinoTypeOK, EndAutoSort
  PROVE  /\ ard_pc' = "loop" /\ belt' \in BOOLEAN /\ laser' \in BOOLEAN
         /\ mainBuffer' \in Seq(Token) /\ servoPos' \in 0..180
BY DEF EndAutoSort, ArduinoTypeOK

LEMMA ArduinoStep ==
  ASSUME ArduinoTypeOK, toArduino \in Seq(Token), fromArduino \in Seq(Reply),
         ArduinoNext
  PROVE  ArduinoTypeOK' /\ toArduino' \in Seq(Token) /\ fromArduino' \in Seq(Reply)
<1>1. CASE ReadCommand
  BY <1>1, Reading, Writing DEF ReadCommand, ArduinoTypeOK, boardVars
<1>2. ASSUME NEW cmd, RunCommand(cmd)
      PROVE  /\ toArduino' \in Seq(Token) /\ fromArduino' \in Seq(Reply)
             /\ mainBuffer' \in Seq(Token) /\ sortBuffer' \in Seq(Token)
  BY <1>2, Reading DEF RunCommand, Read, ArduinoTypeOK
<1>3. CASE StartAutoSort
  BY <1>2, <1>3 DEF StartAutoSort, ArduinoTypeOK
<1>4. CASE SetServoPosition
  <2>1. servoPos' \in 0..180
    BY <1>4, ServoType DEF SetServoPosition
  <2>. QED BY <1>2, <1>4, <2>1 DEF SetServoPosition, ArduinoTypeOK
<1>5. CASE StartSweep
  BY <1>2, <1>5 DEF StartSweep, ArduinoTypeOK, boardVars
<1>6. CASE RunConveyor
  BY <1>2, <1>6 DEF RunConveyor, ArduinoTypeOK
<1>7. CASE CommandWithoutEffect
  BY <1>2, <1>7 DEF CommandWithoutEffect, ArduinoTypeOK, boardVars
<1>8. CASE LaserBroken
  BY <1>8, Writing, SortEndType DEF LaserBroken, ArduinoTypeOK, Reply
<1>9. CASE SortTimeout
  BY <1>9, Writing, SortEndType DEF SortTimeout, ArduinoTypeOK, Reply
<1>10. CASE SortStopped
  BY <1>10, Reading, SortEndType DEF SortStopped, Read, ArduinoTypeOK
<1>11. CASE SortRead
  <2>1. PICK token \in Token :
          /\ Read(token)
          /\ sortBuffer' \in {<<CR>>, Append(sortBuffer, token)}
    BY <1>11, Zenon DEF SortRead
  <2>2. <<CR>> \in Seq(Token)
    BY DEF Token
  <2>3. sortBuffer' \in Seq(Token)
    BY <2>1, <2>2, Writing DEF ArduinoTypeOK
  <2>4. toArduino' \in Seq(Token)
    BY <2>1, Reading DEF Read
  <2>. QED BY <1>11, <2>3, <2>4 DEF SortRead, ArduinoTypeOK, boardVars
<1>12. CASE SweepMove
  <2>1. servoPos' \in 0..180
    <3>1. servoPos + SweepStep \in Int /\ servoPos - SweepStep \in Int
      BY SweepStepAssumption DEF ArduinoTypeOK
    <3>2. servoPos' = GetServoPosition(servoPos + SweepStep)
            \/ servoPos' = GetServoPosition(servoPos - SweepStep)
      BY <1>12, Zenon DEF SweepMove
    <3>. QED BY <3>1, <3>2, ServoType
  <2>2. toArduino' \in Seq(Token)
    BY <1>12, Reading DEF SweepMove, Read
  <2>. QED BY <1>12, <2>1, <2>2 DEF SweepMove, ArduinoTypeOK
<1>13. CASE SweepEnd
  BY <1>13, Reading DEF SweepEnd, Read, ArduinoTypeOK, boardVars
<1>. QED
  BY <1>1, <1>3, <1>4, <1>5, <1>6, <1>7, <1>8, <1>9, <1>10, <1>11, <1>12, <1>13
     DEF ArduinoNext, RunLoop, RunSort, RunSweep

(* The controller.                                                         *)
ControllerInv == LinksTypeOK /\ ControllerTypeOK /\ CategoryKnown

(* What the polls and handlers leave to the other places in the loop.      *)
LEMMA PlaceType ==
  ASSUME pc' \in {AfterHandlers, AfterTouch, AfterPoll}
  PROVE  pc' \in {"poll", "touch", "rpi", "sort"}
BY DEF AfterHandlers, AfterTouch, AfterPoll

LEMMA PollType ==
  ASSUME ControllerInv, Poll
  PROVE  ControllerInv'
<1>1. /\ touchLine' \in Seq(Packet)
      /\ ts_state' \in TouchState \cup {"unset"}
      /\ ts_buff' \in Point \cup {NoPoint}
  <2>1. CASE touchLine = <<>>
    BY <2>1 DEF Poll, PollTouchscreen, ControllerInv, LinksTypeOK, ControllerTypeOK
  <2>2. CASE touchLine # <<>>
    <3>1. Head(touchLine) \in Packet /\ Tail(touchLine) \in Seq(Packet)
      BY <2>2, Reading DEF ControllerInv, LinksTypeOK
    <3>2. Head(touchLine).event \in TouchState /\ Head(touchLine).at \in Point
      BY <3>1 DEF Packet
    <3>. QED BY <2>2, <3>1, <3>2, Zenon DEF Poll, PollTouchscreen
  <2>. QED BY <2>1, <2>2
<1>2. /\ fromArduino' \in Seq(Reply)
      /\ ard_buff' \in Seq(Reply)
      /\ curr_sort' \in SortState
      /\ CategoryKnown'
  <2>1. CASE fromArduino = <<>>
    BY <2>1 DEF Poll, PollArduino, ControllerInv, LinksTypeOK, ControllerTypeOK,
                CategoryKnown
  <2>2. CASE fromArduino # <<>>
    <3>1. Head(fromArduino) \in Reply /\ Tail(fromArduino) \in Seq(Reply)
      BY <2>2, Reading DEF ControllerInv, LinksTypeOK
    <3>2. Append(ard_buff, Head(fromArduino)) \in Seq(Reply)
      BY <3>1, Writing DEF ControllerInv, ControllerTypeOK
    <3>. QED BY <2>2, <3>1, <3>2 DEF Poll, PollArduino, SortState, CategoryKnown
  <2>. QED BY <2>1, <2>2
<1>3. /\ fromRpi' \in Seq(DownlinkMsg)
      /\ rpi_buff' \in DownlinkMsg \cup {NoMsg}
  BY Reading DEF Poll, PollRpi, ControllerInv, LinksTypeOK, ControllerTypeOK
<1>4. pc' \in {"poll", "touch", "rpi", "sort"}
  BY PlaceType DEF Poll
<1>. QED
  BY <1>1, <1>2, <1>3, <1>4 DEF Poll, ControllerInv, LinksTypeOK, ControllerTypeOK

LEMMA TouchType ==
  ASSUME ControllerInv, TouchHandler
  PROVE  ControllerInv'
<1>1. ModeType /\ cycle_id \in Nat
  BY DEF ControllerInv, LinksTypeOK, ControllerTypeOK, ModeType
<1>2. HandleTouchscreen
  BY DEF TouchHandler, TouchUnchanged, PressStop, PressAutoSort, PressSweep,
         PressPosition, PressNothing, Release
<1>3. ModeType' /\ (curr_sort' = curr_sort \/ curr_sort' = "INIT")
  <2>1. CASE PressStop
    BY <1>1, <2>1, SetModeType DEF PressStop, EnterIdle
  <2>2. CASE PressAutoSort
    BY <1>1, <2>2, SetModeType DEF PressAutoSort, EnterAutoSort
  <2>3. CASE PressSweep
    BY <1>1, <2>3, SetModeType DEF PressSweep, EnterSweep
  <2>4. CASE PressPosition
    <3>1. ts_buff - 3 \in Bin
      BY <2>4 DEF PressPosition, Pressed, PositionBtns, Bin
    <3>. QED BY <1>1, <2>4, <3>1, SetModeType DEF PressPosition, EnterOverride
  <2>5. CASE Release
    BY <1>1, <2>5, CommandType, SendArduinoType DEF Release, EndSweep, ModeType, Mode
  <2>6. CASE TouchUnchanged \/ PressNothing
    BY <1>1, <2>6 DEF TouchUnchanged, PressNothing, ModeType
  <2>. QED BY <2>1, <2>2, <2>3, <2>4, <2>5, <2>6 DEF TouchHandler
<1>4. curr_btn' \in Point
  <2>1. {-1, curr_btn, ts_buff} \ {NoPoint} \subseteq Point
    BY DEF ControllerInv, ControllerTypeOK, Point
  <2>2. CASE PressAutoSort \/ PressSweep \/ PressPosition
    BY <2>2 DEF PressAutoSort, PressSweep, PressPosition, Pressed, AutoSortBtn,
                SweepBtns, PositionBtns, Point
  <2>3. CASE PressStop \/ TouchUnchanged
    BY <2>3 DEF PressStop, TouchUnchanged, ControllerInv, ControllerTypeOK
  <2>4. CASE PressNothing \/ Release
    <3>1. curr_btn' \in {-1, curr_btn}
      BY <2>4, Zenon DEF PressNothing, Release, ResetPressed
    <3>. QED BY <3>1 DEF ControllerInv, ControllerTypeOK, Point
  <2>. QED BY <2>2, <2>3, <2>4 DEF TouchHandler
<1>5. stop_btn_pressed' \in BOOLEAN
  BY Zenon DEF TouchHandler, TouchUnchanged, PressStop, PressAutoSort, PressSweep,
         PressPosition, PressNothing, Release, ResetPressed, ControllerInv,
         ControllerTypeOK
<1>6. prev_ts_state' \in TouchState
  BY DEF TouchHandler, TouchUnchanged, PressStop, PressAutoSort, PressSweep,
         PressPosition, PressNothing, Release, Pressed, Changed, TouchState,
         HandleTouchscreen, ControllerInv, ControllerTypeOK
<1>7. pc' \in {"poll", "touch", "rpi", "sort"}
  BY <1>2, PlaceType DEF HandleTouchscreen
<1>8. CategoryKnown'
  BY <1>2, <1>3 DEF ControllerInv, CategoryKnown, HandleTouchscreen, inputVars
<1>9. UNCHANGED <<ts_state, inputVars, inputLines>> /\ ts_buff' = NoPoint
  BY <1>2 DEF HandleTouchscreen
<1>. QED
  BY <1>3, <1>4, <1>5, <1>6, <1>7, <1>8, <1>9
     DEF ControllerInv, LinksTypeOK, ControllerTypeOK, ModeType, inputVars, inputLines

LEMMA AnswerType ==
  ASSUME NEW msg \in DownlinkMsg
  PROVE  /\ msg.val \in Nat
         /\ msg.type = "cat" => msg.val \in Bin
BY DEF DownlinkMsg, Remote, Bin

LEMMA RpiType ==
  ASSUME ControllerInv, RpiHandler
  PROVE  ControllerInv'
<1>1. ModeType /\ cycle_id \in Nat
  BY DEF ControllerInv, LinksTypeOK, ControllerTypeOK, ModeType
<1>2. HandleRpi
  BY DEF RpiHandler, ReceiveCycleId, ReceiveRetry, ReceiveCategory, RemoteAutoSort,
         RemoteStop, RemotePosition
<1>3. rpi_buff \in DownlinkMsg
  BY DEF RpiHandler, ReceiveCycleId, ReceiveRetry, ReceiveCategory, RemoteAutoSort,
         RemoteStop, RemotePosition, Received, NoMsg, ControllerInv, ControllerTypeOK
<1>4. /\ ModeType' /\ cycle_id' \in Nat /\ category_scanned' \in Bin \cup {0}
      /\ CategoryKnown'
  <2>1. CASE ReceiveCycleId
    BY <1>1, <1>3, <2>1, AnswerType
       DEF ReceiveCycleId, ModeType, SortState, CategoryKnown, ControllerInv,
           ControllerTypeOK
  <2>2. CASE ReceiveRetry
    BY <1>1, <2>2 DEF ReceiveRetry, ModeType, SortState, CategoryKnown, ControllerInv,
                      ControllerTypeOK
  <2>3. CASE ReceiveCategory
    BY <1>1, <1>3, <2>3, AnswerType
       DEF ReceiveCategory, Received, ModeType, SortState, CategoryKnown
  <2>4. CASE RemoteAutoSort
    BY <1>1, <2>4, SetModeType DEF RemoteAutoSort, EnterAutoSort, CategoryKnown,
                                   ControllerInv, ControllerTypeOK
  <2>5. CASE RemoteStop
    BY <1>1, <2>5, SetModeType DEF RemoteStop, EnterIdle, CategoryKnown,
                                   ControllerInv, ControllerTypeOK
  <2>6. CASE RemotePosition
    <3>1. CASE rpi_buff.val \in Bin
      BY <1>1, <2>6, <3>1, SetModeType DEF RemotePosition, EnterOverride,
                                 CategoryKnown, ControllerInv, ControllerTypeOK
    <3>2. CASE rpi_buff.val \notin Bin
      BY <1>1, <2>6, <3>2 DEF RemotePosition, ModeType, CategoryKnown, ControllerInv,
                              ControllerTypeOK
    <3>. QED BY <3>1, <3>2
  <2>. QED BY <2>1, <2>2, <2>3, <2>4, <2>5, <2>6 DEF RpiHandler
<1>5. pc' \in {"poll", "touch", "rpi", "sort"}
  BY <1>2, PlaceType DEF HandleRpi
<1>6. UNCHANGED <<touchVars, curr_btn, ard_buff, inputLines>> /\ rpi_buff' = NoMsg
  BY <1>2 DEF HandleRpi
<1>. QED
  BY <1>4, <1>5, <1>6
     DEF ControllerInv, LinksTypeOK, ControllerTypeOK, ModeType, touchVars, inputLines

LEMMA SortType ==
  ASSUME ControllerInv, AutoSort
  PROVE  ControllerInv'
<1>1. ModeType /\ cycle_id \in Nat
  BY DEF ControllerInv, LinksTypeOK, ControllerTypeOK, ModeType
<1>2. /\ UNCHANGED <<touchVars, rpi_buff, cycle_id, category_scanned, inputLines>>
      /\ pc' = "poll"
  BY DEF AutoSort, InitializeAutosort, BeginCycle, ObjectReady, CycleTimedOut,
         ReplyNotUnderstood, CaptureImage, CountObject, HandleArduino, SortStep
<1>3. ModeType' /\ curr_sort' # "IMG_READY"
  <2>1. CASE InitializeAutosort \/ CaptureImage
    BY <1>1, <2>1, UplinkType, SendRpiType
       DEF InitializeAutosort, CaptureImage, ModeType, SortState
  <2>2. CASE BeginCycle
    BY <1>1, <2>2, CommandType, SendArduinoType DEF BeginCycle, ModeType, SortState
  <2>3. CASE ObjectReady \/ ReplyNotUnderstood
    BY <1>1, <2>3 DEF ObjectReady, ReplyNotUnderstood, HandleArduino, ModeType, SortState
  <2>4. CASE CycleTimedOut
    BY <1>1, <2>4, UplinkType, SendRpiType
       DEF CycleTimedOut, HandleArduino, ModeType, SortState, Mode
  <2>5. CASE CountObject
    <3>1. category_scanned \in Bin
      BY <2>5 DEF CountObject, SortStep, ControllerInv, CategoryKnown
    <3>2. toArduino' \in Seq(Token)
      BY <1>1, <2>5, <3>1, OverrideType, SendArduinoType DEF CountObject, ModeType
    <3>3. count' \in [Bin -> Nat]
      <4>1. count[category_scanned] + 1 \in Nat
        BY <1>1, <3>1 DEF ModeType
      <4>2. count' = [count EXCEPT ![category_scanned] = count[category_scanned] + 1]
        BY <2>5 DEF CountObject
      <4>. QED BY <1>1, <4>1, <4>2, Zenon DEF ModeType
    <3>. QED BY <1>1, <2>5, <3>2, <3>3 DEF CountObject, ModeType, SortState
  <2>. QED BY <2>1, <2>2, <2>3, <2>4, <2>5 DEF AutoSort
<1>4. curr_btn' \in Point
  BY DEF AutoSort, InitializeAutosort, BeginCycle, ObjectReady, CycleTimedOut,
         ReplyNotUnderstood, CaptureImage, CountObject, ControllerInv,
         ControllerTypeOK, Point
<1>5. ard_buff' \in Seq(Reply)
  <2>1. ard_buff' = ard_buff \/ ard_buff' = <<>>
    BY DEF AutoSort, InitializeAutosort, BeginCycle, ObjectReady, CycleTimedOut,
           ReplyNotUnderstood, CaptureImage, CountObject, HandleArduino
  <2>2. ard_buff \in Seq(Reply) /\ <<>> \in Seq(Reply)
    BY DEF ControllerInv, ControllerTypeOK
  <2>. QED BY <2>1, <2>2, Zenon
<1>. QED
  BY <1>2, <1>3, <1>4, <1>5
     DEF ControllerInv, LinksTypeOK, ControllerTypeOK, CategoryKnown, ModeType,
         touchVars, inputLines

LEMMA ControllerStep ==
  ASSUME ControllerInv, ControllerNext
  PROVE  ControllerInv'
BY PollType, TouchType, RpiType, SortType DEF ControllerNext

----------------------------------------------------------------------------
(* The system: the environment writes packets and messages of their type.  *)

LEMMA SpendType ==
  ASSUME left \in [touches : Nat, objects : Nat, retries : Nat, remote : Nat],
         NEW what \in {"touches", "objects", "retries", "remote"}, Spend(what)
  PROVE  left' \in [touches : Nat, objects : Nat, retries : Nat, remote : Nat]
BY DEF Spend

LEMMA OperatorStep ==
  ASSUME TypeInv, Operator
  PROVE  TypeInv'
<1>1. PICK event \in TouchState, at \in Point : SendPacket(event, at)
  BY SystemAssumption DEF Operator, FingerUp, FingerDown, FingerDrag, TouchState,
                          Nowhere, Point
<1>2. touchLine' \in Seq(Packet)
  <2>1. [event |-> event, at |-> at] \in Packet
    BY DEF Packet
  <2>. QED BY <1>1, <2>1 DEF SendPacket
<1>3. /\ finger' \in {"up", "down"}
      /\ left' \in [touches : Nat, objects : Nat, retries : Nat, remote : Nat]
  BY SpendType DEF Operator, FingerUp, FingerDown, FingerDrag, TypeInv, TypeOK
<1>. QED
  BY <1>1, <1>2, <1>3
     DEF SendPacket, TypeInv, TypeOK, LinksTypeOK, ControllerTypeOK, ArduinoTypeOK,
         CategoryKnown, controllerVars, arduinoVars

LEMMA ServerStepType ==
  ASSUME TypeInv, Server \/ RemoteControl
  PROVE  TypeInv'
<1>1. /\ UNCHANGED <<touchLine, toArduino, fromArduino, controllerVars, arduinoVars,
                     finger>>
      /\ toRpi' \in Seq(UplinkMsg)
  <2>1. CASE RemoteControl
    BY <2>1 DEF RemoteControl, TypeInv, TypeOK, LinksTypeOK
  <2>2. ASSUME NEW type, ServerStep(type)
        PROVE  /\ UNCHANGED <<touchLine, toArduino, fromArduino, controllerVars,
                               arduinoVars, finger>>
               /\ toRpi' \in Seq(UplinkMsg)
    BY <2>2, Reading DEF ServerStep, TypeInv, TypeOK, LinksTypeOK
  <2>. QED
    BY <2>1, <2>2 DEF Server, OpenSession, CloseSession, Classify, AskAgain
<1>2. fromRpi' \in Seq(DownlinkMsg)
  <2>1. CASE OpenSession
    <3>1. [type |-> "cycle_id", val |-> lastCycle + 1] \in DownlinkMsg
      BY DEF DownlinkMsg, TypeInv, TypeOK
    <3>. QED BY <2>1, <3>1, Writing DEF OpenSession, Answer, TypeInv, TypeOK, LinksTypeOK
  <2>2. CASE CloseSession
    BY <2>2 DEF CloseSession, TypeInv, TypeOK, LinksTypeOK
  <2>3. CASE Classify
    <3>1. \A bin \in Bins : [type |-> "cat", val |-> bin] \in DownlinkMsg
      BY SystemAssumption DEF DownlinkMsg
    <3>. QED BY <2>3, <3>1, Writing DEF Classify, Answer, TypeInv, TypeOK, LinksTypeOK
  <2>4. CASE AskAgain
    <3>1. [type |-> "retry", val |-> 0] \in DownlinkMsg
      BY DEF DownlinkMsg
    <3>. QED BY <2>4, <3>1, Writing DEF AskAgain, Answer, TypeInv, TypeOK, LinksTypeOK
  <2>5. CASE RemoteControl
    <3>1. \A msg \in RemoteCmds : msg \in DownlinkMsg
      BY SystemAssumption DEF DownlinkMsg, Remote
    <3>. QED BY <2>5, <3>1, Writing DEF RemoteControl, TypeInv, TypeOK, LinksTypeOK
  <2>. QED BY <2>1, <2>2, <2>3, <2>4, <2>5 DEF Server
<1>3. lastCycle' \in Nat /\ sessionOpen' \in BOOLEAN
  <2>1. lastCycle' \in {lastCycle, lastCycle + 1}
    BY DEF Server, RemoteControl, OpenSession, CloseSession, Classify, AskAgain
  <2>2. sessionOpen' \in {sessionOpen, TRUE, FALSE}
    BY Zenon DEF Server, RemoteControl, OpenSession, CloseSession, Classify, AskAgain
  <2>3. lastCycle' \in Nat
    BY <2>1 DEF TypeInv, TypeOK
  <2>4. sessionOpen' \in BOOLEAN
    BY <2>2, Zenon DEF TypeInv, TypeOK
  <2>. QED BY <2>3, <2>4
<1>4. left' \in [touches : Nat, objects : Nat, retries : Nat, remote : Nat]
  BY SpendType DEF Server, RemoteControl, OpenSession, CloseSession, Classify, AskAgain,
                   TypeInv, TypeOK
<1>. QED
  BY <1>1, <1>2, <1>3, <1>4
     DEF TypeInv, TypeOK, LinksTypeOK, ControllerTypeOK, ArduinoTypeOK, CategoryKnown,
         controllerVars, arduinoVars

LEMMA TypeStep == TypeInv /\ [Next]_vars => TypeInv'
<1>. SUFFICES ASSUME TypeInv, [Next]_vars PROVE TypeInv'
  OBVIOUS
<1>1. CASE Controls
  <2>1. ControllerInv'
    BY <1>1, ControllerStep DEF Controls, TypeInv, TypeOK, ControllerInv
  <2>. QED
    BY <1>1, <2>1 DEF Controls, TypeInv, TypeOK, ControllerInv, ArduinoTypeOK,
                      arduinoVars, envVars
<1>2. CASE Arduino
  <2>1. ArduinoNext /\ left' \in [touches : Nat, objects : Nat, retries : Nat, remote : Nat]
    BY <1>2, SpendType DEF Arduino, ArduinoNext, RunSort, TypeInv, TypeOK
  <2>2. ArduinoTypeOK' /\ toArduino' \in Seq(Token) /\ fromArduino' \in Seq(Reply)
    BY <2>1, ArduinoStep DEF TypeInv, TypeOK, LinksTypeOK
  <2>. QED
    BY <1>2, <2>1, <2>2 DEF Arduino, TypeInv, TypeOK, LinksTypeOK, ControllerTypeOK,
                            CategoryKnown, controllerVars
<1>3. CASE Operator
  BY <1>3, OperatorStep
<1>4. CASE Server \/ RemoteControl
  BY <1>4, ServerStepType
<1>5. CASE UNCHANGED vars
  BY <1>5 DEF TypeInv, TypeOK, LinksTypeOK, ControllerTypeOK, ArduinoTypeOK,
              CategoryKnown, vars, links, controllerVars, arduinoVars, envVars
<1>. QED BY <1>1, <1>2, <1>3, <1>4, <1>5 DEF Next

(* Every variable keeps its type, in every session and whatever arrives on *)
(* the lines.                                                              *)
THEOREM TypeCorrect == Spec => []TypeOK
<1>1. Spec => []TypeInv
  BY TypeInit, TypeStep, PTL DEF Spec
<1>2. TypeInv => TypeOK
  BY DEF TypeInv
<1>. QED BY <1>1, <1>2, PTL

(* The object that is counted is one of the four of objects[].             *)
THEOREM CountedObjectExists == Spec => []CategoryKnown
<1>1. Spec => []TypeInv
  BY TypeInit, TypeStep, PTL DEF Spec
<1>2. TypeInv => CategoryKnown
  BY DEF TypeInv
<1>. QED BY <1>1, <1>2, PTL

----------------------------------------------------------------------------
(* A sweep is held.  The invariant is inductive as it stands: a press that *)
(* changes ts_state cannot find the screen already touched.                *)

LEMMA SweepHeldTouch ==
  ASSUME SweepHeld, TouchHandler
  PROVE  SweepHeld'
<1>1. prev_ts_state' = ts_state
  BY DEF TouchHandler, TouchUnchanged, PressStop, PressAutoSort, PressSweep,
         PressPosition, PressNothing, Release, HandleTouchscreen
<1>2. CASE TouchUnchanged
  BY <1>1, <1>2 DEF TouchUnchanged, Changed, SweepHeld
<1>3. CASE PressSweep
  BY <1>1, <1>3 DEF PressSweep, Pressed, SweepHeld
<1>4. CASE PressStop \/ PressAutoSort \/ PressPosition
  BY <1>4 DEF PressStop, PressAutoSort, PressPosition, EnterIdle, EnterAutoSort,
              EnterOverride, SweepHeld
<1>5. CASE PressNothing
  BY <1>5 DEF PressNothing, Pressed, Changed, SweepHeld
<1>6. CASE Release
  BY <1>6 DEF Release, EndSweep, SweepHeld
<1>. QED BY <1>2, <1>3, <1>4, <1>5, <1>6 DEF TouchHandler

LEMMA SweepHeldStep == SweepHeld /\ [Next]_vars => SweepHeld'
<1>. SUFFICES ASSUME SweepHeld, [Next]_vars PROVE SweepHeld'
  OBVIOUS
<1>1. CASE Poll
  BY <1>1 DEF Poll, SweepHeld
<1>2. CASE TouchHandler
  BY <1>2, SweepHeldTouch
<1>3. CASE RpiHandler
  BY <1>3 DEF RpiHandler, ReceiveCycleId, ReceiveRetry, ReceiveCategory, RemoteAutoSort,
              RemoteStop, RemotePosition, HandleRpi, touchVars, EnterAutoSort, EnterIdle,
              EnterOverride, SweepHeld
<1>4. CASE AutoSort
  BY <1>4 DEF AutoSort, InitializeAutosort, BeginCycle, ObjectReady, CycleTimedOut,
              ReplyNotUnderstood, CaptureImage, CountObject, HandleArduino, SortStep,
              touchVars, SweepHeld
<1>5. CASE UNCHANGED controllerVars
  BY <1>5 DEF controllerVars, SweepHeld
<1>6. UNCHANGED controllerVars \/ ControllerNext
  BY DEF Next, Controls, Arduino, Operator, FingerUp, FingerDown, FingerDrag, SendPacket,
         Server, OpenSession, CloseSession, Classify, AskAgain, ServerStep, RemoteControl,
         vars
<1>. QED BY <1>1, <1>2, <1>3, <1>4, <1>5, <1>6 DEF ControllerNext

(* In MODE_SWEEP the finger is on a sweep button and its release is still  *)
(* to come, also when the remote control interferes.                       *)
THEOREM SweepIsHeld == Spec => []SweepHeld
<1>1. Init => SweepHeld
  BY DEF Init, ControllerInit, SweepHeld
<1>. QED BY <1>1, SweepHeldStep, PTL DEF Spec

----------------------------------------------------------------------------
(* The pressed button.  Without the remote control a session or an         *)
(* override has a button, STOP leaves it in place until the finger is      *)
(* lifted, and only a sort step runs at "sort".                            *)

HoldBtns == {AutoSortBtn} \cup PositionBtns
AnswerMsg == [type : {"cycle_id", "retry"}, val : Nat] \cup [type : {"cat"}, val : Bin]

StopHeld ==
  stop_btn_pressed =>
    prev_ts_state = "touched" /\ curr_btn \in HoldBtns /\ curr_mode = "IDLE"
ModeHasButton == StopsOnTouch => curr_btn \in HoldBtns
SortPlace == pc = "sort" => curr_mode = "AUTO_SORT"
OnlyAnswers == fromRpi \in Seq(AnswerMsg) /\ rpi_buff \in AnswerMsg \cup {NoMsg}

ButtonInv == StopHeld /\ ModeHasButton /\ SweepHeld /\ SortPlace /\ OnlyAnswers

LEMMA ButtonSets ==
  /\ HoldBtns \cap SweepBtns = {}
  /\ -1 \notin HoldBtns /\ -1 \notin SweepBtns
  /\ \A b \in HoldBtns : b >= 0
BY DEF HoldBtns, SweepBtns, PositionBtns, AutoSortBtn

LEMMA AfterHandlersPlace ==
  ASSUME pc' \in {AfterHandlers, AfterTouch, AfterPoll}
  PROVE  SortPlace'
BY DEF AfterHandlers, AfterTouch, AfterPoll, SortPlace

LEMMA ButtonInit == Init => ButtonInv
BY DEF Init, LinksInit, ControllerInit, ButtonInv, StopHeld, ModeHasButton,
       StopsOnTouch, SweepHeld, SortPlace, OnlyAnswers

LEMMA ButtonTouch ==
  ASSUME ButtonInv, TouchHandler
  PROVE  StopHeld' /\ ModeHasButton'
<1>1. prev_ts_state' = ts_state
  BY DEF TouchHandler, TouchUnchanged, PressStop, PressAutoSort, PressSweep,
         PressPosition, PressNothing, Release, HandleTouchscreen
<1>2. CASE TouchUnchanged
  BY <1>1, <1>2 DEF TouchUnchanged, Changed, ButtonInv, StopHeld, ModeHasButton,
                    StopsOnTouch
<1>3. CASE PressStop
  BY <1>1, <1>3 DEF PressStop, Pressed, EnterIdle, ButtonInv, StopHeld, ModeHasButton,
                    StopsOnTouch
<1>4. ASSUME Changed, ts_state = "touched" PROVE ~stop_btn_pressed
  BY <1>4 DEF Changed, ButtonInv, StopHeld
<1>5. CASE PressAutoSort \/ PressPosition
  <2>1. ~stop_btn_pressed' /\ curr_btn' \in HoldBtns
    BY <1>4, <1>5 DEF PressAutoSort, PressPosition, Pressed, HoldBtns
  <2>. QED BY <2>1 DEF StopHeld, ModeHasButton
<1>6. CASE PressSweep
  BY <1>4, <1>6 DEF PressSweep, Pressed, EnterSweep, StopHeld, ModeHasButton, StopsOnTouch
<1>7. CASE PressNothing
  BY <1>4, <1>7 DEF PressNothing, Pressed, ButtonInv, StopHeld, ModeHasButton,
                    StopsOnTouch
<1>8. CASE Release
  <2>1. ~stop_btn_pressed'
    BY <1>8, ButtonSets, Zenon DEF Release, ResetPressed, ButtonInv, StopHeld
  <2>2. ASSUME StopsOnTouch' PROVE curr_btn' \in HoldBtns
    <3>1. StopsOnTouch
      BY <1>8, <2>2 DEF Release, EndSweep, StopsOnTouch
    <3>2. curr_btn \in HoldBtns /\ ~stop_btn_pressed
      BY <3>1 DEF ButtonInv, StopHeld, ModeHasButton, StopsOnTouch
    <3>. QED BY <1>8, <3>2, ButtonSets DEF Release, ResetPressed
  <2>. QED BY <2>1, <2>2 DEF StopHeld, ModeHasButton
<1>. QED BY <1>2, <1>3, <1>5, <1>6, <1>7, <1>8 DEF TouchHandler

LEMMA ButtonStep ==
  ASSUME RemoteCmds = {}, TypeInv, ButtonInv, [Next]_vars
  PROVE  ButtonInv'
<1>1. SweepHeld'
  BY SweepHeldStep DEF ButtonInv
<1>2. UNCHANGED controllerVars \/ ControllerNext
  BY DEF Next, Controls, Arduino, Operator, FingerUp, FingerDown, FingerDrag, SendPacket,
         Server, OpenSession, CloseSession, Classify, AskAgain, ServerStep, RemoteControl,
         vars
<1>3. StopHeld' /\ ModeHasButton'
  <2>1. CASE Poll
    BY <2>1 DEF Poll, ButtonInv, StopHeld, ModeHasButton, StopsOnTouch
  <2>2. CASE TouchHandler
    BY <2>2, ButtonTouch
  <2>3. CASE RpiHandler
    <3>1. rpi_buff.type \notin Remote
      BY <2>3 DEF ButtonInv, OnlyAnswers, AnswerMsg, NoMsg, Remote
    <3>2. ReceiveCycleId \/ ReceiveRetry \/ ReceiveCategory
      BY <2>3, <3>1 DEF RpiHandler, RemoteAutoSort, RemoteStop, RemotePosition, Received,
                        Remote
    <3>. QED
      BY <3>2 DEF ReceiveCycleId, ReceiveRetry, ReceiveCategory, HandleRpi, touchVars,
                  ButtonInv, StopHeld, ModeHasButton, StopsOnTouch
  <2>4. CASE AutoSort
    <3>1. curr_mode = "AUTO_SORT" /\ UNCHANGED touchVars
      BY <2>4 DEF AutoSort, InitializeAutosort, BeginCycle, ObjectReady, CycleTimedOut,
                  ReplyNotUnderstood, CaptureImage, CountObject, HandleArduino, SortStep,
                  ButtonInv, SortPlace
    <3>2. ~stop_btn_pressed /\ curr_btn \in HoldBtns
      BY <3>1 DEF ButtonInv, StopHeld, ModeHasButton, StopsOnTouch
    <3>3. CASE CycleTimedOut
      BY <3>1, <3>2, <3>3 DEF CycleTimedOut, touchVars, StopHeld, ModeHasButton,
                              StopsOnTouch
    <3>4. CASE UNCHANGED curr_btn
      BY <3>1, <3>2, <3>4 DEF touchVars, StopHeld, ModeHasButton
    <3>. QED
      BY <2>4, <3>3, <3>4 DEF AutoSort, InitializeAutosort, BeginCycle, ObjectReady,
                              ReplyNotUnderstood, CaptureImage, CountObject
  <2>5. CASE UNCHANGED controllerVars
    BY <2>5 DEF controllerVars, ButtonInv, StopHeld, ModeHasButton, StopsOnTouch
  <2>. QED BY <1>2, <2>1, <2>2, <2>3, <2>4, <2>5 DEF ControllerNext
<1>4. SortPlace'
  <2>1. CASE Poll
    BY <2>1, AfterHandlersPlace DEF Poll
  <2>2. CASE TouchHandler
    BY <2>2, AfterHandlersPlace
       DEF TouchHandler, TouchUnchanged, PressStop, PressAutoSort, PressSweep,
           PressPosition, PressNothing, Release, HandleTouchscreen
  <2>3. CASE RpiHandler
    BY <2>3, AfterHandlersPlace
       DEF RpiHandler, ReceiveCycleId, ReceiveRetry, ReceiveCategory, RemoteAutoSort,
           RemoteStop, RemotePosition, HandleRpi
  <2>4. CASE AutoSort
    BY <2>4 DEF AutoSort, InitializeAutosort, BeginCycle, ObjectReady, CycleTimedOut,
                ReplyNotUnderstood, CaptureImage, CountObject, HandleArduino, SortStep,
                SortPlace
  <2>5. CASE UNCHANGED controllerVars
    BY <2>5 DEF controllerVars, ButtonInv, SortPlace
  <2>. QED BY <1>2, <2>1, <2>2, <2>3, <2>4, <2>5 DEF ControllerNext
<1>5. OnlyAnswers'
  <2>1. fromRpi \in Seq(AnswerMsg) /\ rpi_buff \in AnswerMsg \cup {NoMsg}
    BY DEF ButtonInv, OnlyAnswers
  <2>2. CASE Poll
    BY <2>1, <2>2, Reading DEF Poll, PollRpi, OnlyAnswers
  <2>3. CASE UNCHANGED fromRpi /\ rpi_buff' \in {rpi_buff, NoMsg}
    BY <2>1, <2>3 DEF OnlyAnswers
  <2>4. CASE Server
    <3>1. \A cycle \in Nat : [type |-> "cycle_id", val |-> cycle] \in AnswerMsg
      BY DEF AnswerMsg
    <3>2. \A bin \in Bins : [type |-> "cat", val |-> bin] \in AnswerMsg
      BY SystemAssumption DEF AnswerMsg
    <3>3. [type |-> "retry", val |-> 0] \in AnswerMsg
      BY DEF AnswerMsg
    <3>4. lastCycle + 1 \in Nat
      BY DEF TypeInv, TypeOK
    <3>5. UNCHANGED rpi_buff /\ (UNCHANGED fromRpi
            \/ \E msg \in AnswerMsg : fromRpi' = Append(fromRpi, msg))
      BY <2>4, <3>1, <3>2, <3>3, <3>4
         DEF Server, OpenSession, CloseSession, Classify, AskAgain, Answer, ServerStep,
             controllerVars
    <3>. QED BY <2>1, <3>5, Writing DEF OnlyAnswers
  <2>5. CASE RemoteControl
    BY <2>5 DEF RemoteControl
  <2>6. CASE TouchHandler \/ RpiHandler \/ AutoSort
    BY <2>3, <2>6
       DEF TouchHandler, TouchUnchanged, PressStop, PressAutoSort, PressSweep,
           PressPosition, PressNothing, Release, HandleTouchscreen, RpiHandler,
           ReceiveCycleId, ReceiveRetry, ReceiveCategory, RemoteAutoSort, RemoteStop,
           RemotePosition, HandleRpi, AutoSort, InitializeAutosort, BeginCycle,
           ObjectReady, CycleTimedOut, ReplyNotUnderstood, CaptureImage, CountObject,
           HandleArduino, SortStep, inputVars, inputLines
  <2>7. CASE Arduino \/ Operator \/ UNCHANGED vars
    BY <2>3, <2>7
       DEF Arduino, Operator, FingerUp, FingerDown, FingerDrag, SendPacket, vars, links,
           controllerVars
  <2>. QED
    BY <2>2, <2>4, <2>5, <2>6, <2>7 DEF Next, Controls, ControllerNext
<1>. QED BY <1>1, <1>3, <1>4, <1>5 DEF ButtonInv

(* Without the remote control the handlers never redraw boxes[-1].         *)
THEOREM RedrawsAreInRange ==
  ASSUME RemoteCmds = {}
  PROVE  Spec => []BoxIndexInRange
<1>1. Init => ButtonInv
  BY ButtonInit
<1>2. ButtonInv /\ TypeInv /\ TypeInv' /\ [Next]_vars => ButtonInv'
  BY ButtonStep
<1>3. ButtonInv => BoxIndexInRange
  BY ButtonSets DEF ButtonInv, StopHeld, ModeHasButton, StopsOnTouch, SortPlace,
                    BoxIndexInRange, RedrawsStop, RedrawsAutoSort
<1>. QED BY <1>1, <1>2, <1>3, TypeInit, TypeStep, PTL DEF Spec

=============================================================================
