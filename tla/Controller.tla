----------------------------- MODULE Controller -----------------------------
(***************************************************************************)
(* The super-loop of software/main/main.c: each iteration polls the serial *)
(* lines, runs the handlers whose input is complete, then one step of the  *)
(* automated sort.  pc is the place in the loop; an action is one handler. *)
(*                                                                         *)
(* Time, the GPS and the drawing on the screen are left out; drawing is    *)
(* present only as the index into boxes[] a handler uses.                  *)
(***************************************************************************)
EXTENDS Links

VARIABLES
  pc,                \* "poll", "touch", "rpi" or "sort"
  curr_mode, curr_sort,
  ts_state, prev_ts_state,
  ts_buff,           \* the point of an unhandled packet, or NoPoint
  curr_btn,          \* index in boxes[] of the pressed button, or -1
  stop_btn_pressed,
  ard_buff,          \* replies gathered since the buffer was last cleared
  rpi_buff,          \* the unhandled message, or NoMsg
  cycle_id, category_scanned,
  count              \* objects counted per bin

controllerVars ==
  <<pc, curr_mode, curr_sort, ts_state, prev_ts_state, ts_buff, curr_btn,
    stop_btn_pressed, ard_buff, rpi_buff, cycle_id, category_scanned, count>>

(* What the touch handler leaves alone, and what the sort steps do.        *)
touchVars == <<ts_state, prev_ts_state, ts_buff, stop_btn_pressed>>
inputVars == <<ard_buff, rpi_buff, cycle_id, category_scanned>>
inputLines == <<touchLine, fromArduino, fromRpi>>

Mode == {"IDLE", "AUTO_SORT", "SWEEP", "OVERRIDE"}
SortState == {"IDLE", "INIT", "INIT_WAIT", "BEGIN_CYCLE", "ARD_WAIT",
              "ARD_READY", "CAM_READY", "IMG_WAIT", "IMG_READY"}
Waiting == {"IDLE", "INIT_WAIT", "ARD_WAIT", "IMG_WAIT"}

NoPoint == -2
NoCount == [b \in Bin |-> 0]

----------------------------------------------------------------------------
ControllerTypeOK ==
  /\ pc \in {"poll", "touch", "rpi", "sort"}
  /\ curr_mode \in Mode
  /\ curr_sort \in SortState
  /\ ts_state \in TouchState \cup {"unset"}
  /\ prev_ts_state \in TouchState
  /\ ts_buff \in Point \cup {NoPoint}
  /\ curr_btn \in Point
  /\ stop_btn_pressed \in BOOLEAN
  /\ ard_buff \in Seq(Reply)
  /\ rpi_buff \in DownlinkMsg \cup {NoMsg}
  /\ cycle_id \in Nat
  /\ category_scanned \in Bin \cup {0}
  /\ count \in [Bin -> Nat]

ControllerInit ==
  /\ pc = "poll"
  /\ curr_mode = "IDLE"
  /\ curr_sort = "IDLE"
  /\ ts_state = "unset"
  /\ prev_ts_state = "untouched"
  /\ ts_buff = NoPoint
  /\ curr_btn = -1
  /\ stop_btn_pressed = FALSE
  /\ ard_buff = <<>>
  /\ rpi_buff = NoMsg
  /\ cycle_id = 0
  /\ category_scanned = 0
  /\ count = NoCount

----------------------------------------------------------------------------
(* The next place in the loop: a sort step is due only in MODE_AUTO_SORT,  *)
(* and does nothing in the states that wait for an answer.                 *)
AfterHandlers ==
  IF curr_mode' = "AUTO_SORT" /\ curr_sort' \notin Waiting THEN "sort" ELSE "poll"
AfterTouch == IF rpi_buff' # NoMsg THEN "rpi" ELSE AfterHandlers
AfterPoll == IF ts_buff' # NoPoint THEN "touch" ELSE AfterTouch

PollTouchscreen ==
  IF touchLine = <<>>
  THEN UNCHANGED <<touchLine, ts_state, ts_buff>>
  ELSE /\ touchLine' = Tail(touchLine)
       /\ ts_state' = Head(touchLine).event
       /\ ts_buff' = Head(touchLine).at

PollArduino ==
  IF fromArduino = <<>>
  THEN UNCHANGED <<fromArduino, ard_buff, curr_sort>>
  ELSE /\ fromArduino' = Tail(fromArduino)
       /\ ard_buff' = Append(ard_buff, Head(fromArduino))
       /\ curr_sort' = "ARD_READY"

PollRpi ==
  IF fromRpi = <<>>
  THEN UNCHANGED <<fromRpi, rpi_buff>>
  ELSE /\ fromRpi' = Tail(fromRpi)
       /\ rpi_buff' = Head(fromRpi)

Poll ==
  /\ pc = "poll"
  /\ PollTouchscreen
  /\ PollArduino
  /\ PollRpi
  /\ UNCHANGED <<curr_mode, prev_ts_state, curr_btn, stop_btn_pressed,
                 cycle_id, category_scanned, count, toArduino, toRpi>>
  /\ pc' = AfterPoll

----------------------------------------------------------------------------
(* set_mode: one operator per case of its switch.                          *)

(* Mutant: the first cycle starts without asking the server for it.        *)
EnterAutoSort_NoInit ==
  /\ curr_mode' = "AUTO_SORT"
  /\ curr_sort' = "BEGIN_CYCLE"
  /\ count' = NoCount
  /\ UNCHANGED <<toArduino, toRpi>>

EnterAutoSort ==
  /\ curr_mode' = "AUTO_SORT"
  /\ curr_sort' = "INIT"
  /\ count' = NoCount
  /\ UNCHANGED <<toArduino, toRpi>>

EnterSweep(dir) ==
  /\ curr_mode' = "SWEEP"
  /\ SendArduino(SweepCmd(dir))
  /\ UNCHANGED <<curr_sort, count, toRpi>>

(* Mutant: the belt is started without setting the servo.                  *)
EnterOverride_NoServo(bin) ==
  /\ curr_mode' = "OVERRIDE"
  /\ SendArduino(ConveyorCmd("ON"))
  /\ UNCHANGED <<curr_sort, count, toRpi>>

EnterOverride(bin) ==
  /\ curr_mode' = "OVERRIDE"
  /\ SendArduino(SetServoCmd(BinPosition[bin]) \o ConveyorCmd("ON"))
  /\ UNCHANGED <<curr_sort, count, toRpi>>

(* Mutants: the server is not told, the belt is not stopped.               *)
EnterIdle_NoDone ==
  /\ curr_mode' = "IDLE"
  /\ SendArduino(ConveyorCmd("OFF"))
  /\ UNCHANGED <<curr_sort, count, toRpi>>

EnterIdle_NoConveyor ==
  /\ IF curr_mode = "AUTO_SORT" THEN SendRpi(DoneMsg(cycle_id))
                                ELSE UNCHANGED toRpi
  /\ curr_mode' = "IDLE"
  /\ UNCHANGED <<curr_sort, count, toArduino>>

EnterIdle ==
  /\ IF curr_mode = "AUTO_SORT" THEN SendRpi(DoneMsg(cycle_id))
                                ELSE UNCHANGED toRpi
  /\ curr_mode' = "IDLE"
  /\ SendArduino(ConveyorCmd("OFF"))
  /\ UNCHANGED <<curr_sort, count>>

----------------------------------------------------------------------------
(* handle_touchscreen.                                                     *)

HandleTouchscreen ==
  /\ pc = "touch"
  /\ prev_ts_state' = ts_state
  /\ ts_buff' = NoPoint
  /\ UNCHANGED <<ts_state, inputVars, inputLines>>
  /\ pc' = AfterTouch

Changed == ts_state # prev_ts_state
Pressed(points) == Changed /\ ts_state = "touched" /\ ts_buff \in points
StopsOnTouch == curr_mode \in {"AUTO_SORT", "OVERRIDE"}

(* The buttons that mean something in this mode.                           *)
LiveButtons ==
  CASE StopsOnTouch       -> {StopBtn}
    [] curr_mode = "IDLE" -> {AutoSortBtn} \cup SweepBtns \cup PositionBtns
    [] OTHER              -> {}

TouchUnchanged ==
  /\ ~Changed
  /\ UNCHANGED <<curr_mode, curr_sort, curr_btn, stop_btn_pressed, count,
                 toArduino, toRpi>>
  /\ HandleTouchscreen

PressStop ==
  /\ StopsOnTouch
  /\ Pressed({StopBtn})
  /\ EnterIdle
  /\ stop_btn_pressed' = TRUE
  /\ UNCHANGED curr_btn
  /\ HandleTouchscreen

PressAutoSort ==
  /\ curr_mode = "IDLE"
  /\ Pressed({AutoSortBtn})
  /\ EnterAutoSort
  /\ curr_btn' = ts_buff
  /\ UNCHANGED stop_btn_pressed
  /\ HandleTouchscreen

PressSweep ==
  /\ curr_mode = "IDLE"
  /\ Pressed(SweepBtns)
  /\ EnterSweep(IF ts_buff = 2 THEN "CW" ELSE "CCW")
  /\ curr_btn' = ts_buff
  /\ UNCHANGED stop_btn_pressed
  /\ HandleTouchscreen

PressPosition ==
  /\ curr_mode = "IDLE"
  /\ Pressed(PositionBtns)
  /\ EnterOverride(ts_buff - 3)
  /\ curr_btn' = ts_buff
  /\ UNCHANGED stop_btn_pressed
  /\ HandleTouchscreen

PressNothing ==
  /\ Pressed(Point \ LiveButtons)
  /\ curr_btn' = IF curr_mode = "SWEEP" THEN -1 ELSE curr_btn
  /\ UNCHANGED <<curr_mode, curr_sort, stop_btn_pressed, count, toArduino, toRpi>>
  /\ HandleTouchscreen

(* Mutant: the mode is not left with the sweep.                            *)
EndSweep_ModeKept ==
  /\ UNCHANGED curr_mode
  /\ IF curr_mode = "SWEEP" THEN SendArduino(SweepCmd("STOP"))
                            ELSE UNCHANGED toArduino

EndSweep ==
  IF curr_mode = "SWEEP"
  THEN curr_mode' = "IDLE" /\ SendArduino(SweepCmd("STOP"))
  ELSE UNCHANGED <<curr_mode, toArduino>>

(* Mutant: any release clears the pressed button.                          *)
ResetPressed_Always == curr_btn' = -1 /\ stop_btn_pressed' = FALSE

ResetPressed ==
  IF curr_btn \in SweepBtns
  THEN curr_btn' = -1 /\ UNCHANGED stop_btn_pressed
  ELSE /\ stop_btn_pressed' = FALSE
       /\ curr_btn' = IF stop_btn_pressed THEN -1 ELSE curr_btn

Release ==
  /\ Changed
  /\ ts_state = "untouched"
  /\ EndSweep
  /\ ResetPressed
  /\ UNCHANGED <<curr_sort, count, toRpi>>
  /\ HandleTouchscreen

----------------------------------------------------------------------------
(* handle_rpi: every message is obeyed whatever the mode and sort state.   *)

Received(type) == pc = "rpi" /\ rpi_buff.type = type

HandleRpi ==
  /\ rpi_buff' = NoMsg
  /\ UNCHANGED <<touchVars, curr_btn, ard_buff, inputLines>>
  /\ pc' = AfterHandlers

ReceiveCycleId ==
  /\ Received("cycle_id")
  /\ cycle_id' = rpi_buff.val
  /\ curr_sort' = "BEGIN_CYCLE"
  /\ UNCHANGED <<curr_mode, category_scanned, count, toArduino, toRpi>>
  /\ HandleRpi

ReceiveRetry ==
  /\ Received("retry")
  /\ curr_sort' = "CAM_READY"
  /\ UNCHANGED <<curr_mode, cycle_id, category_scanned, count, toArduino, toRpi>>
  /\ HandleRpi

(* Mutant: the category of the message is not kept.                        *)
ReceiveCategory_NotKept ==
  /\ Received("cat")
  /\ curr_sort' = "IMG_READY"
  /\ UNCHANGED <<curr_mode, cycle_id, category_scanned, count, toArduino, toRpi>>
  /\ HandleRpi

ReceiveCategory ==
  /\ Received("cat")
  /\ category_scanned' = rpi_buff.val
  /\ curr_sort' = "IMG_READY"
  /\ UNCHANGED <<curr_mode, cycle_id, count, toArduino, toRpi>>
  /\ HandleRpi

RemoteAutoSort ==
  /\ Received("ctrl/as")
  /\ EnterAutoSort
  /\ UNCHANGED <<cycle_id, category_scanned>>
  /\ HandleRpi

RemoteStop ==
  /\ Received("ctrl/st")
  /\ EnterIdle
  /\ UNCHANGED <<cycle_id, category_scanned>>
  /\ HandleRpi

RemotePosition ==
  /\ Received("ctrl/pos")
  /\ IF rpi_buff.val \in Bin
     THEN EnterOverride(rpi_buff.val)
     ELSE UNCHANGED <<curr_mode, curr_sort, count, toArduino, toRpi>>
  /\ UNCHANGED <<cycle_id, category_scanned>>
  /\ HandleRpi

----------------------------------------------------------------------------
(* The automated sort, main.c:149-191, one step an iteration.              *)

SortStep(state) ==
  /\ pc = "sort"
  /\ curr_sort = state
  /\ pc' = "poll"
  /\ UNCHANGED <<touchVars, rpi_buff, cycle_id, category_scanned, inputLines>>

InitializeAutosort ==
  /\ SortStep("INIT")
  /\ SendRpi(InitMsg)
  /\ curr_sort' = "INIT_WAIT"
  /\ UNCHANGED <<curr_mode, curr_btn, ard_buff, count, toArduino>>

(* Mutant: the state is not advanced.                                      *)
BeginCycle_Repeated ==
  /\ SortStep("BEGIN_CYCLE")
  /\ SendArduino(AutoSortCmd)
  /\ UNCHANGED <<curr_sort, curr_mode, curr_btn, ard_buff, count, toRpi>>

BeginCycle ==
  /\ SortStep("BEGIN_CYCLE")
  /\ SendArduino(AutoSortCmd)
  /\ curr_sort' = "ARD_WAIT"
  /\ UNCHANGED <<curr_mode, curr_btn, ard_buff, count, toRpi>>

(* Mutant: the buffer is not cleared.                                      *)
HandleArduino_BufferKept ==
  /\ SortStep("ARD_READY")
  /\ UNCHANGED <<ard_buff, count, toArduino>>

(* handle_arduino compares the whole buffer with one reply.                *)
HandleArduino ==
  /\ SortStep("ARD_READY")
  /\ ard_buff' = <<>>
  /\ UNCHANGED <<count, toArduino>>

ObjectReady ==
  /\ HandleArduino
  /\ ard_buff = <<"ls">>
  /\ curr_sort' = "CAM_READY"
  /\ UNCHANGED <<curr_mode, curr_btn, toRpi>>

(* Mutant: the mode is not left.                                           *)
CycleTimedOut_ModeKept ==
  /\ HandleArduino
  /\ ard_buff = <<"dn">>
  /\ SendRpi(DoneMsg(cycle_id))
  /\ curr_btn' = -1
  /\ curr_sort' = "IDLE"
  /\ UNCHANGED curr_mode

CycleTimedOut ==
  /\ HandleArduino
  /\ ard_buff = <<"dn">>
  /\ SendRpi(DoneMsg(cycle_id))
  /\ curr_btn' = -1
  /\ curr_sort' = "IDLE"
  /\ curr_mode' = "IDLE"

ReplyNotUnderstood ==
  /\ HandleArduino
  /\ ard_buff \notin {<<"ls">>, <<"dn">>}
  /\ curr_sort' = "IDLE"
  /\ UNCHANGED <<curr_mode, curr_btn, toRpi>>

(* Mutant: the image is asked for again in every iteration.                *)
CaptureImage_Repeated ==
  /\ SortStep("CAM_READY")
  /\ SendRpi(CaptureMsg)
  /\ UNCHANGED <<curr_sort, curr_mode, curr_btn, ard_buff, count, toArduino>>

CaptureImage ==
  /\ SortStep("CAM_READY")
  /\ SendRpi(CaptureMsg)
  /\ curr_sort' = "IMG_WAIT"
  /\ UNCHANGED <<curr_mode, curr_btn, ard_buff, count, toArduino>>

(* Mutant: the bin is taken from the category without its offset of one.   *)
CountObject_WrongBin ==
  /\ SortStep("IMG_READY")
  /\ count' = [count EXCEPT ![category_scanned] = @ + 1]
  /\ SendArduino(SetServoCmd(BinPosition[(category_scanned % 4) + 1]) \o ConveyorCmd("ON"))
  /\ curr_sort' = "BEGIN_CYCLE"
  /\ UNCHANGED <<curr_mode, curr_btn, ard_buff, toRpi>>

CountObject ==
  /\ SortStep("IMG_READY")
  /\ count' = [count EXCEPT ![category_scanned] = @ + 1]
  /\ SendArduino(SetServoCmd(BinPosition[category_scanned]) \o ConveyorCmd("ON"))
  /\ curr_sort' = "BEGIN_CYCLE"
  /\ UNCHANGED <<curr_mode, curr_btn, ard_buff, toRpi>>

----------------------------------------------------------------------------
TouchHandler ==
  \/ TouchUnchanged \/ PressStop \/ PressAutoSort \/ PressSweep
  \/ PressPosition \/ PressNothing \/ Release

RpiHandler ==
  \/ ReceiveCycleId \/ ReceiveRetry \/ ReceiveCategory
  \/ RemoteAutoSort \/ RemoteStop \/ RemotePosition

AutoSort ==
  \/ InitializeAutosort \/ BeginCycle \/ ObjectReady \/ CycleTimedOut
  \/ ReplyNotUnderstood \/ CaptureImage \/ CountObject

ControllerNext == Poll \/ TouchHandler \/ RpiHandler \/ AutoSort
============================================================================
