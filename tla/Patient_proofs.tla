---------------------------- MODULE Patient_proofs ----------------------------
(***************************************************************************)
(* What holds of the sorting line when its operator is patient: touches    *)
(* anything but STOP only when nothing is under way.  The code tells no    *)
(* answer and no reply from one of an earlier session, so that these       *)
(* properties need that no such message is ever under way when a session   *)
(* begins.  PatientInv says which messages can be, in each state of the    *)
(* sort, and what the board and the server do with them.                   *)
(***************************************************************************)
EXTENDS Board_proofs

----------------------------------------------------------------------------
(* Nothing is under way, as after a start.  More than Quiet of the operator *)
(* only in that the controller has taken what came.                        *)
Calm ==
  /\ toArduino = <<>> /\ fromArduino = <<>> /\ toRpi = <<>> /\ fromRpi = <<>>
  /\ rpi_buff = NoMsg /\ ard_pc = "loop" /\ curr_mode = "IDLE"

(* What the place in the loop says: messages are handled in the iteration  *)
(* that read them, and a sort step follows the touch that began the session. *)
PlaceInv ==
  /\ pc \in {"poll", "sort"} => rpi_buff = NoMsg
  /\ pc # "touch" => ts_buff = NoPoint /\ (ts_state = "touched" <=> prev_ts_state = "touched")
  /\ curr_mode = "AUTO_SORT" /\ curr_sort = "INIT" => pc = "sort"

(* The panel has sent at most one packet that was not read; the finger is  *)
(* where that packet, or else the last one read, says.                     *)
FingerInv ==
  /\ touchLine = <<>> => (finger = "down" <=> ts_state = "touched")
  /\ touchLine # <<>> => /\ Len(touchLine) = 1
                         /\ finger = "down" <=> Head(touchLine).event = "touched"

(* A press other than STOP was begun when nothing was under way, and nothing *)
(* has begun since, on its way through the line and the controller.        *)
Comes == touchLine # <<>> /\ Head(touchLine).event = "touched" /\ ts_state # "touched"
Arrived == pc = "touch" /\ ts_state = "touched" /\ prev_ts_state # "touched"
StartInv ==
  /\ Comes /\ Head(touchLine).at # StopBtn => pc = "poll" /\ Calm
  /\ Arrived /\ ts_buff # StopBtn => Calm

(* A question to the server, its answer on the line, or the answer read.   *)
Asked(msg, types) ==
  \/ toRpi = <<msg>> /\ fromRpi = <<>> /\ rpi_buff = NoMsg
  \/ toRpi = <<>> /\ Len(fromRpi) = 1 /\ Head(fromRpi).type \in types /\ rpi_buff = NoMsg
  \/ toRpi = <<>> /\ fromRpi = <<>> /\ rpi_buff.type \in types
Silent == toRpi = <<>> /\ fromRpi = <<>> /\ rpi_buff = NoMsg

(* MODE_AUTO_SORT: at most one question is open, the one the sort state    *)
(* waits for, and the session is open from the answer to init on.          *)
ServerInSession ==
  CASE curr_sort = "INIT" -> Silent /\ ~sessionOpen
    [] curr_sort = "INIT_WAIT" -> /\ Asked(InitMsg, {"cycle_id"})
                                  /\ sessionOpen <=> toRpi = <<>>
    [] curr_sort = "IMG_WAIT" -> Asked(CaptureMsg, {"cat", "retry"}) /\ sessionOpen
    [] OTHER -> Silent /\ sessionOpen

(* Any other mode: the session is closed, or done is on the line behind the *)
(* question that STOP left open.                                           *)
ServerAtEnd ==
  \/ toRpi = <<>> /\ ~sessionOpen
  \/ \E c \in Nat :
       \/ toRpi \in {<<DoneMsg(c)>>, <<CaptureMsg, DoneMsg(c)>>} /\ sessionOpen
       \/ toRpi = <<InitMsg, DoneMsg(c)>> /\ ~sessionOpen

ServerInv ==
  /\ curr_mode = "AUTO_SORT" => ServerInSession
  /\ curr_mode # "AUTO_SORT" => ServerAtEnd

(* The inductive invariant.                                                *)
PatientInv ==
  PlaceInv /\ FingerInv /\ StartInv /\ ServerInv /\ BufferInv /\ BoardInv

LEMMA OneElement ==
  /\ \A S : \A line \in Seq(S) : Len(line) = 1 => line # <<>> /\ Tail(line) = <<>>
  /\ \A e : <<e>> # <<>> /\ Head(<<e>>) = e /\ Tail(<<e>>) = <<>> /\ Len(<<e>>) = 1
            /\ Append(<<>>, e) = <<e>>
<1>1. ASSUME NEW S, NEW line \in Seq(S), Len(line) = 1
      PROVE  line # <<>> /\ Tail(line) = <<>>
  <2>1. line # <<>>
    BY <1>1
  <2>2. Tail(line) \in Seq(S) /\ Len(Tail(line)) = 0
    BY <1>1, <2>1, HeadTailProperties
  <2>. QED BY <2>1, <2>2, EmptySeq
<1>2. ASSUME NEW e
      PROVE  <<e>> # <<>> /\ Head(<<e>>) = e /\ Tail(<<e>>) = <<>> /\ Len(<<e>>) = 1
             /\ Append(<<>>, e) = <<e>>
  OBVIOUS
<1>. QED BY <1>1, <1>2

LEMMA PatientInit == Init => PatientInv
<1>. SUFFICES ASSUME Init PROVE PatientInv
  OBVIOUS
<1>1. PlaceInv /\ FingerInv /\ StartInv /\ ServerInv
  BY DEF Init, LinksInit, ControllerInit, ArduinoInit, PlaceInv, FingerInv, StartInv, Comes,
         Arrived, ServerInv, ServerAtEnd
<1>2. BufferInv
  BY DEF Init, ArduinoInit, BufferInv
<1>3. BoardInv
  <2>1. Unread = <<>>
    BY DEF Init, LinksInit, ArduinoInit, Unread
  <2>. QED BY <2>1 DEF Init, ControllerInit, ArduinoInit, BoardInv, BoardAtIdle, Resting
<1>. QED BY <1>1, <1>2, <1>3 DEF PatientInv

(* Nothing on the line and nobody at work: what STOP began has been done,  *)
(* and the belt is at rest.                                                *)
LEMMA IdleRests ==
  ASSUME TypeInv, BufferInv, BoardAtIdle, toArduino = <<>>, ard_pc = "loop"
  PROVE  Resting
<1>1. BoardAtIdle /\ toArduino = <<>> /\ ard_pc = "loop"
  OBVIOUS
<1>2. ASSUME NEW p \in Prefix, NEW a \in Argument, NEW rest \in Seq(Token),
             Unread = Cmd(p, a) \o rest
      PROVE  FALSE
  BY <1>1, <1>2, NotDrained
<1>3. Unread \notin Part
  <2>1. "as:" \in Prefix /\ "0" \in Argument /\ <<>> \in Seq(Token)
    BY Letters, Lines
  <2>. QED BY <1>1, <2>1, NotDrained
<1>4. ASSUME NEW tail \in Seq(Token), Ending(tail)
      PROVE  Unread = tail
  <2>1. BeltOn \o tail \in Seq(Token) /\ BeltOn = Cmd("cv:", "1")
    BY Lines, Commands
  <2>2. Unread # BeltOn \o tail
    BY <1>2, <2>1, Letters
  <2>3. \A b \in Bin : Unread # Servo(b) \o (BeltOn \o tail)
    BY <1>2, <2>1, Letters, Commands, BinPositionType
  <2>. QED BY <1>4, <2>2, <2>3 DEF Ending
<1>5. ~Ending(BeltOff)
  <2>1. BeltOff = Cmd("cv:", "0") \o <<>>
    BY Commands, Lines, Zenon
  <2>2. "cv:" \in Prefix /\ "0" \in Argument /\ <<>> \in Seq(Token)
    BY Letters, Lines
  <2>3. Unread # BeltOff
    BY <1>2, <2>1, <2>2
  <2>. QED BY <1>4, <2>3, Lines
<1>6. ~Ending(AutoSortCmd \o BeltOff)
  <2>1. "as:" \in Prefix /\ "1" \in Argument /\ BeltOff \in Seq(Token)
    BY Letters, Lines
  <2>2. Unread # AutoSortCmd \o BeltOff
    BY <1>2, <2>1, Commands
  <2>. QED BY <1>4, <2>2, Lines
<1>7. \A d \in Turns : Unread # Cmd(d, "1") \o <<CR>>
  <2>1. Turns \subseteq Prefix /\ "1" \in Argument /\ <<CR>> \in Seq(Token)
    BY Letters, Lines
  <2>. QED BY <1>2, <2>1
<1>. QED BY <1>1, <1>3, <1>5, <1>6, <1>7 DEF BoardAtIdle, Sweeping

LEMMA CalmRests ==
  ASSUME TypeInv, BufferInv, BoardInv, Calm
  PROVE  Resting
BY IdleRests DEF Calm, BoardInv

----------------------------------------------------------------------------
(* What leaves the board and the lines alone keeps their parts.            *)
LEMMA BoardHolds ==
  ASSUME BufferInv, BoardInv,
         UNCHANGED <<toArduino, fromArduino, curr_mode, curr_sort, curr_btn,
                     category_scanned, count, ard_pc, mainBuffer, belt, servoPos>>
  PROVE  BufferInv' /\ BoardInv'
<1>1. Unread' = Unread
  BY DEF Unread
<1>2. BufferInv'
  BY DEF BufferInv
<1>3. BoardInSession => BoardInSession'
  BY <1>1 DEF BoardInSession, ArmSet, ArmFor, Moving, At, Resting
<1>4. BoardAtIdle => BoardAtIdle'
  BY <1>1 DEF BoardAtIdle, Resting, Ending, Sweeping
<1>5. BoardInSweep => BoardInSweep'
  BY <1>1 DEF BoardInSweep, Sweeping
<1>6. BoardInOverride => BoardInOverride'
  BY <1>1 DEF BoardInOverride, ArmFor, Moving, At
<1>. QED BY <1>2, <1>3, <1>4, <1>5, <1>6 DEF BoardInv

LEMMA ServerHolds ==
  ASSUME ServerInv,
         UNCHANGED <<toRpi, fromRpi, curr_mode, curr_sort, rpi_buff, sessionOpen>>
  PROVE  ServerInv'
BY DEF ServerInv, ServerInSession, ServerAtEnd, Asked, Silent

(* The operator: a press other than STOP waits for a quiet line.           *)
LEMMA OperatorKeeps ==
  ASSUME Patient, TypeInv, PatientInv, Operator
  PROVE  PatientInv'
<1>1. touchLine = <<>>
      /\ UNCHANGED <<toArduino, fromArduino, toRpi, fromRpi, controllerVars, arduinoVars,
                     lastCycle, sessionOpen>>
  BY DEF Operator, FingerUp, FingerDown, FingerDrag, SendPacket
<1>2. PlaceInv'
  BY <1>1 DEF controllerVars, PatientInv, PlaceInv
<1>3. FingerInv' /\ StartInv'
  <2>1. Arrived' = Arrived /\ Calm' = Calm
    BY <1>1 DEF controllerVars, arduinoVars, Arrived, Calm
  <2>2. Arrived' /\ ts_buff' # StopBtn => Calm'
    BY <1>1, <2>1 DEF PatientInv, StartInv, controllerVars
  <2>3. CASE FingerUp
    <3>1. touchLine' = <<[event |-> "untouched", at |-> Nowhere]>> /\ finger' = "up"
      BY <2>3 DEF FingerUp, SendPacket
    <3>2. touchLine' # <<>> /\ Len(touchLine') = 1 /\ Head(touchLine').event = "untouched"
      BY <3>1
    <3>. QED BY <2>2, <3>1, <3>2 DEF FingerInv, StartInv, Comes
  <2>4. ASSUME NEW at \in Buttons, FingerDown(at) \/ FingerDrag(at)
        PROVE  FingerInv' /\ StartInv'
    <3>1. touchLine' = <<[event |-> "touched", at |-> at]>> /\ finger' = "down"
      BY <2>4 DEF FingerDown, FingerDrag, SendPacket
    <3>2. touchLine' # <<>> /\ Len(touchLine') = 1 /\ Head(touchLine').event = "touched"
          /\ Head(touchLine').at = at
      BY <3>1
    <3>3. CASE FingerDown(at) /\ at # StopBtn
      <4>1. Quiet
        BY <3>3 DEF FingerDown
      <4>2. pc = "poll" /\ Calm
        BY <4>1 DEF Quiet, links, Calm, PatientInv, PlaceInv
      <4>3. pc' = "poll" /\ Calm'
        BY <1>1, <2>1, <4>2 DEF controllerVars
      <4>. QED BY <2>2, <3>1, <3>2, <4>3 DEF FingerInv, StartInv
    <3>4. CASE at = StopBtn
      BY <2>2, <3>1, <3>2, <3>4 DEF FingerInv, StartInv
    <3>5. CASE FingerDrag(at)
      <4>1. ts_state' = "touched"
        BY <1>1, <3>5 DEF FingerDrag, PatientInv, FingerInv, controllerVars
      <4>. QED BY <2>2, <3>1, <3>2, <4>1 DEF FingerInv, StartInv, Comes
    <3>. QED BY <2>4, <3>3, <3>4, <3>5
  <2>. QED BY <2>3, <2>4 DEF Operator
<1>4. ServerInv'
  BY <1>1, ServerHolds DEF PatientInv, controllerVars
<1>5. BufferInv' /\ BoardInv'
  BY <1>1, BoardHolds DEF PatientInv, controllerVars, arduinoVars
<1>. QED BY <1>2, <1>3, <1>4, <1>5 DEF PatientInv

(* The firmware: it has nothing to do when nothing is under way.           *)
LEMMA ArduinoKeeps ==
  ASSUME TypeInv, PatientInv, Arduino
  PROVE  PatientInv'
<1>1. UNCHANGED <<touchLine, toRpi, fromRpi, controllerVars, finger, lastCycle, sessionOpen>>
  BY DEF Arduino
<1>2. PlaceInv' /\ FingerInv'
  BY <1>1 DEF controllerVars, PatientInv, PlaceInv, FingerInv
<1>3. StartInv'
  <2>1. ~Calm
    <3>1. ASSUME Calm PROVE FALSE
      <4>1. Resting /\ ard_pc = "loop" /\ toArduino = <<>>
        BY <3>1, CalmRests DEF PatientInv, Calm
      <4>2. ~RunLoop
        BY <4>1, LoopReads DEF PatientInv
      <4>. QED
        BY <4>1, <4>2 DEF Arduino, LaserBroken, SortTimeout, SortStopped, SortRead,
           EndAutoSort, RunSweep, SweepMove, SweepEnd, Sweeping
    <3>. QED BY <3>1
  <2>. QED BY <1>1, <2>1 DEF PatientInv, StartInv, Comes, Arrived, controllerVars
<1>4. ServerInv'
  BY <1>1, ServerHolds DEF PatientInv, controllerVars
<1>. QED BY <1>2, <1>3, <1>4, BoardStep DEF PatientInv

(* The server: one answer to a question, and done closes what is open.     *)
LEMMA ServerKeeps ==
  ASSUME TypeInv, PatientInv, Server
  PROVE  PatientInv'
<1>1. UNCHANGED <<touchLine, toArduino, fromArduino, controllerVars, arduinoVars, finger>>
      /\ toRpi # <<>> /\ toRpi' = Tail(toRpi)
  BY DEF Server, OpenSession, CloseSession, Classify, AskAgain, ServerStep
<1>2. PlaceInv' /\ FingerInv'
  BY <1>1 DEF controllerVars, PatientInv, PlaceInv, FingerInv
<1>3. StartInv'
  BY <1>1 DEF PatientInv, StartInv, Comes, Arrived, Calm, controllerVars
<1>4. BufferInv' /\ BoardInv'
  BY <1>1, BoardHolds DEF PatientInv, controllerVars, arduinoVars
<1>5. ServerInv'
  <2>. DEFINE h == Head(toRpi).type
  <2>1. UNCHANGED <<curr_mode, curr_sort, rpi_buff>>
    BY <1>1 DEF controllerVars
  <2>2. \/ h = "init" /\ sessionOpen'
           /\ fromRpi' = Append(fromRpi, [type |-> "cycle_id", val |-> lastCycle + 1])
        \/ h = "done" /\ ~sessionOpen' /\ UNCHANGED fromRpi
        \/ h = "capture" /\ UNCHANGED sessionOpen
           /\ \E t \in {"cat", "retry"}, v \in Nat :
                fromRpi' = Append(fromRpi, [type |-> t, val |-> v])
    <3>1. \A v \in Bins : v \in Nat
      BY SystemAssumption DEF Bin
    <3>. QED
      BY <3>1 DEF Server, OpenSession, CloseSession, Classify, AskAgain, ServerStep, Answer
  <2>3. CASE curr_mode = "AUTO_SORT"
    <3>1. toRpi \in {<<InitMsg>>, <<CaptureMsg>>} /\ fromRpi = <<>> /\ rpi_buff = NoMsg
      BY <1>1, <2>3 DEF PatientInv, ServerInv, ServerInSession, Asked, Silent
    <3>2. toRpi' = <<>>
      BY <1>1, <3>1
    <3>3. CASE curr_sort = "INIT_WAIT"
      <4>1. toRpi = <<InitMsg>>
        BY <1>1, <2>3, <3>3 DEF PatientInv, ServerInv, ServerInSession, Asked
      <4>2. h = "init"
        BY <4>1 DEF InitMsg
      <4>3. sessionOpen' /\ fromRpi' = <<[type |-> "cycle_id", val |-> lastCycle + 1]>>
        BY <2>2, <3>1, <4>2
      <4>4. Len(fromRpi') = 1 /\ Head(fromRpi').type = "cycle_id"
        BY <4>3
      <4>. QED BY <2>1, <2>3, <3>1, <3>2, <3>3, <4>3, <4>4 DEF ServerInv, ServerInSession, Asked
    <3>4. CASE curr_sort = "IMG_WAIT"
      <4>1. toRpi = <<CaptureMsg>> /\ sessionOpen
        BY <1>1, <2>3, <3>4 DEF PatientInv, ServerInv, ServerInSession, Asked
      <4>2. h = "capture"
        BY <4>1 DEF CaptureMsg
      <4>3. PICK t \in {"cat", "retry"}, v \in Nat :
              sessionOpen' /\ fromRpi' = <<[type |-> t, val |-> v]>>
        <5>1. sessionOpen' /\ \E t \in {"cat", "retry"}, v \in Nat :
                fromRpi' = Append(fromRpi, [type |-> t, val |-> v])
          BY <2>2, <4>1, <4>2
        <5>. QED BY <3>1, <5>1, OneElement
      <4>4. Len(fromRpi') = 1 /\ Head(fromRpi').type \in {"cat", "retry"}
        BY <4>3
      <4>. QED BY <2>1, <2>3, <3>1, <3>2, <3>4, <4>3, <4>4 DEF ServerInv, ServerInSession, Asked
    <3>. QED
      BY <1>1, <2>3, <3>3, <3>4 DEF PatientInv, ServerInv, ServerInSession, Silent
  <2>4. CASE curr_mode # "AUTO_SORT"
    <3>1. PICK c \in Nat :
            \/ toRpi \in {<<DoneMsg(c)>>, <<CaptureMsg, DoneMsg(c)>>} /\ sessionOpen
            \/ toRpi = <<InitMsg, DoneMsg(c)>> /\ ~sessionOpen
      BY <1>1, <2>4 DEF PatientInv, ServerInv, ServerAtEnd
    <3>2. CASE toRpi = <<DoneMsg(c)>>
      <4>1. h = "done" /\ toRpi' = <<>>
        BY <1>1, <3>2 DEF DoneMsg
      <4>. QED BY <2>1, <2>2, <2>4, <4>1 DEF ServerInv, ServerAtEnd
    <3>3. CASE toRpi = <<CaptureMsg, DoneMsg(c)>> /\ sessionOpen
      <4>1. h = "capture" /\ toRpi' = <<DoneMsg(c)>>
        BY <1>1, <3>3 DEF CaptureMsg
      <4>. QED BY <2>1, <2>2, <2>4, <3>3, <4>1 DEF ServerInv, ServerAtEnd
    <3>4. CASE toRpi = <<InitMsg, DoneMsg(c)>>
      <4>1. h = "init" /\ toRpi' = <<DoneMsg(c)>>
        BY <1>1, <3>4 DEF InitMsg
      <4>. QED BY <2>1, <2>2, <2>4, <4>1 DEF ServerInv, ServerAtEnd
    <3>. QED BY <3>1, <3>2, <3>3, <3>4
  <2>. QED BY <2>3, <2>4
<1>. QED BY <1>2, <1>3, <1>4, <1>5 DEF PatientInv

----------------------------------------------------------------------------
(* The polls of the controller: a reply comes only to one that waits for it. *)
LEMMA PollKeeps ==
  ASSUME TypeInv, PatientInv, Poll, UNCHANGED <<arduinoVars, envVars>>
  PROVE  PatientInv'
<1>1. /\ pc = "poll" /\ rpi_buff = NoMsg /\ ts_buff = NoPoint
      /\ ts_state = "touched" <=> prev_ts_state = "touched"
      /\ ~(curr_mode = "AUTO_SORT" /\ curr_sort = "INIT")
  BY DEF Poll, PatientInv, PlaceInv
<1>2. UNCHANGED <<curr_mode, prev_ts_state, curr_btn, category_scanned, count, toArduino,
                  toRpi, ard_pc, mainBuffer, belt, servoPos, finger, sessionOpen>>
  BY DEF Poll, arduinoVars, envVars
<1>3. /\ touchLine \in Seq(Packet) /\ fromArduino \in Seq(Reply)
      /\ fromRpi \in Seq(DownlinkMsg)
  BY DEF TypeInv, TypeOK, LinksTypeOK
<1>4. \/ touchLine = <<>> /\ UNCHANGED <<touchLine, ts_state, ts_buff>>
      \/ /\ touchLine # <<>> /\ touchLine' = <<>> /\ ts_state' = Head(touchLine).event
         /\ ts_buff' = Head(touchLine).at /\ ts_buff' # NoPoint
         /\ finger = "down" <=> ts_state' = "touched"
  <2>1. CASE touchLine = <<>>
    BY <2>1 DEF Poll, PollTouchscreen
  <2>2. CASE touchLine # <<>>
    <3>1. Head(touchLine) \in Packet
      BY <1>3, <2>2, Reading
    <3>2. Head(touchLine).at # NoPoint
      BY <3>1 DEF Packet, Point, NoPoint
    <3>3. Tail(touchLine) = <<>> /\ (finger = "down" <=> Head(touchLine).event = "touched")
      BY <1>3, <2>2, OneElement DEF PatientInv, FingerInv
    <3>. QED BY <2>2, <3>2, <3>3 DEF Poll, PollTouchscreen
  <2>. QED BY <2>1, <2>2
<1>5. curr_sort' = curr_sort \/ curr_sort' = "ARD_READY"
  BY DEF Poll, PollArduino
<1>6. PlaceInv'
  <2>1. CASE ts_buff' # NoPoint
    <3>1. pc' = "touch"
      BY <2>1 DEF Poll, AfterPoll
    <3>. QED BY <1>1, <1>2, <1>5, <3>1 DEF PlaceInv
  <2>2. CASE ts_buff' = NoPoint
    <3>1. ts_state' = ts_state
      BY <1>4, <2>2
    <3>2. pc' # "touch" /\ (pc' \in {"poll", "sort"} => rpi_buff' = NoMsg)
      BY <2>2 DEF Poll, AfterPoll, AfterTouch, AfterHandlers
    <3>. QED BY <1>1, <1>2, <1>5, <2>2, <3>1, <3>2 DEF PlaceInv
  <2>. QED BY <2>1, <2>2
<1>7. FingerInv'
  BY <1>2, <1>4 DEF PatientInv, FingerInv
<1>8. StartInv'
  <2>1. CASE touchLine = <<>>
    <3>1. ts_buff' = NoPoint /\ touchLine' = <<>>
      BY <1>1, <1>4, <2>1
    <3>2. pc' # "touch"
      BY <3>1 DEF Poll, AfterPoll, AfterTouch, AfterHandlers
    <3>. QED BY <3>1, <3>2 DEF StartInv, Comes, Arrived
  <2>2. CASE touchLine # <<>>
    <3>1. touchLine' = <<>> /\ ts_state' = Head(touchLine).event
          /\ ts_buff' = Head(touchLine).at
      BY <1>4, <2>2
    <3>2. ASSUME Arrived', ts_buff' # StopBtn PROVE Calm'
      <4>1. Comes /\ Head(touchLine).at # StopBtn
        BY <1>1, <1>2, <2>2, <3>1, <3>2 DEF Comes, Arrived
      <4>2. Calm
        BY <4>1 DEF PatientInv, StartInv
      <4>3. UNCHANGED <<fromArduino, fromRpi, rpi_buff>>
        BY <4>2 DEF Calm, Poll, PollArduino, PollRpi
      <4>. QED BY <1>2, <4>2, <4>3 DEF Calm
    <3>. QED BY <3>1, <3>2 DEF StartInv, Comes
  <2>. QED BY <2>1, <2>2
<1>9. ServerInv' /\ BufferInv' /\ BoardInv'
  <2>1. BufferInv' /\ Unread' = Unread /\ (Resting => Resting')
    BY <1>2 DEF BufferInv, PatientInv, Unread, Resting
  <2>2. CASE curr_mode # "AUTO_SORT"
    <3>1. ServerInv'
      BY <1>2, <2>2 DEF PatientInv, ServerInv, ServerAtEnd
    <3>2. BoardAtIdle => BoardAtIdle'
      BY <1>2, <2>1 DEF BoardAtIdle, Resting, Ending, Sweeping
    <3>3. BoardInSweep => BoardInSweep'
      BY <1>2, <2>1 DEF BoardInSweep, Sweeping
    <3>4. BoardInOverride => BoardInOverride'
      BY <1>2, <2>1 DEF BoardInOverride, ArmFor, Moving, At
    <3>. QED BY <1>2, <2>1, <2>2, <3>1, <3>2, <3>3, <3>4 DEF PatientInv, BoardInv
  <2>3. CASE curr_mode = "AUTO_SORT"
    <3>1. ServerInSession /\ BoardInSession
      BY <2>3 DEF PatientInv, ServerInv, BoardInv
    <3>2. CASE fromArduino = <<>>
      <4>1. UNCHANGED <<fromArduino, curr_sort>>
        BY <3>2 DEF Poll, PollArduino
      <4>2. BoardInv'
        BY <1>2, <2>1, <4>1, BoardHolds DEF PatientInv
      <4>3. ServerInSession'
        BY <1>2, <1>3, <3>1, <4>1, OneElement
           DEF Poll, PollRpi, ServerInSession, Asked, Silent
      <4>. QED BY <1>2, <2>1, <2>3, <4>2, <4>3 DEF ServerInv
    <3>3. CASE fromArduino # <<>>
      <4>1. curr_sort = "ARD_WAIT" /\ ard_pc = "loop" /\ Len(fromArduino) = 1 /\ Resting
        BY <3>1, <3>3 DEF BoardInSession
      <4>2. fromArduino' = <<>> /\ curr_sort' = "ARD_READY"
        BY <1>3, <3>3, <4>1, OneElement DEF Poll, PollArduino
      <4>3. BoardInSession'
        BY <1>2, <2>1, <4>1, <4>2 DEF BoardInSession
      <4>4. ServerInSession'
        BY <1>2, <3>1, <4>1, <4>2 DEF Poll, PollRpi, ServerInSession, Silent
      <4>. QED BY <1>2, <2>1, <2>3, <4>3, <4>4 DEF ServerInv, BoardInv
    <3>. QED BY <3>2, <3>3
  <2>. QED BY <2>2, <2>3
<1>. QED BY <1>6, <1>7, <1>8, <1>9 DEF PatientInv

(* Where the controller is after its touch handler.                        *)
LEMMA TouchPlaces ==
  ASSUME TypeInv, PatientInv, HandleTouchscreen, UNCHANGED <<arduinoVars, envVars>>,
         \/ UNCHANGED curr_sort /\ (curr_mode' = "AUTO_SORT" => curr_mode = "AUTO_SORT")
         \/ curr_mode' = "AUTO_SORT" /\ curr_sort' = "INIT" /\ rpi_buff = NoMsg
  PROVE  PlaceInv' /\ FingerInv' /\ StartInv' /\ BufferInv'
<1>1. /\ pc = "touch" /\ prev_ts_state' = ts_state /\ ts_buff' = NoPoint
      /\ UNCHANGED <<ts_state, touchLine, fromArduino, fromRpi, rpi_buff, finger>>
      /\ pc' # "touch"
      /\ pc' \in {"poll", "sort"} => rpi_buff' = NoMsg
      /\ rpi_buff' = NoMsg /\ curr_mode' = "AUTO_SORT" /\ curr_sort' = "INIT" => pc' = "sort"
  BY DEF HandleTouchscreen, inputVars, inputLines, envVars, AfterTouch, AfterHandlers, Waiting
<1>2. PlaceInv'
  BY <1>1 DEF PatientInv, PlaceInv
<1>3. FingerInv'
  BY <1>1 DEF PatientInv, FingerInv
<1>4. StartInv'
  BY <1>1 DEF PatientInv, StartInv, Comes, Arrived
<1>5. BufferInv'
  BY DEF PatientInv, BufferInv, arduinoVars
<1>. QED BY <1>2, <1>3, <1>4, <1>5

----------------------------------------------------------------------------
(* The touch handlers.                                                     *)
LEMMA TouchLeaves ==
  ASSUME HandleTouchscreen
  PROVE  UNCHANGED <<ts_state, ard_buff, rpi_buff, cycle_id, category_scanned, touchLine,
                     fromArduino, fromRpi>>
BY DEF HandleTouchscreen, inputVars, inputLines

LEMMA Appended ==
  ASSUME NEW x, NEW y
  PROVE  Append(<<x>>, y) = <<x, y>> /\ Append(<<>>, y) = <<y>>
<1>. DEFINE S == {x, y}
            s == <<x>>
            t == <<x, y>>
            u == Append(s, y)
<1>1. s \in Seq(S) /\ t \in Seq(S) /\ y \in S
      /\ Len(s) = 1 /\ s[1] = x /\ Len(t) = 2 /\ t[1] = x /\ t[2] = y
  OBVIOUS
<1>. HIDE DEF s, t, S
<1>2. u \in Seq(S) /\ Len(u) = Len(s) + 1
  BY <1>1, AppendProperties
<1>6. \A i \in 1..Len(s) : u[i] = s[i]
  BY <1>1, AppendProperties
<1>7. u[Len(s) + 1] = y
  BY <1>1, AppendProperties, Zenon
<1>. HIDE DEF u
<1>3. Len(u) = 2 /\ u[1] = x /\ u[2] = y
  BY <1>1, <1>2, <1>6, <1>7
<1>4. u = t
  <2>1. \A i \in 1..Len(u) : u[i] = t[i]
    BY <1>1, <1>3
  <2>. QED BY <1>1, <1>2, <1>3, <2>1, SeqEqual
<1>5. Append(<<>>, y) = <<y>>
  BY OneElement
<1>. QED BY <1>4, <1>5 DEF u, t, s

(* STOP: it follows what is under way, and the board rests when it has all *)
(* been read, by whichever reader.                                         *)
LEMMA StopEnds ==
  ASSUME TypeInv, ButtonInv, PatientInv, PressStop, UNCHANGED <<arduinoVars, envVars>>
  PROVE  ServerInv' /\ BoardInv'
<1>1. /\ curr_mode' = "IDLE" /\ SendArduino(BeltOff)
      /\ UNCHANGED <<curr_sort, count, curr_btn, ard_pc, mainBuffer, belt, servoPos,
                     sessionOpen>>
      /\ curr_mode \in {"AUTO_SORT", "OVERRIDE"} /\ pc = "touch" /\ cycle_id \in Nat
  BY DEF PressStop, EnterIdle, StopsOnTouch, BeltOff, arduinoVars, envVars, HandleTouchscreen,
         TypeInv, TypeOK, ControllerTypeOK
<1>2. UNCHANGED <<fromArduino, fromRpi, rpi_buff, category_scanned>>
  BY TouchLeaves DEF PressStop
<1>3. Unread' = Unread \o BeltOff
  BY <1>1, Sent, Lines
<1>4. ServerInv'
  <2>1. CASE curr_mode = "AUTO_SORT"
    <3>1. toRpi' = Append(toRpi, DoneMsg(cycle_id))
      BY <2>1 DEF PressStop, EnterIdle, SendRpi
    <3>2. ServerInSession /\ curr_sort # "INIT"
      BY <1>1, <2>1 DEF PatientInv, ServerInv, PlaceInv
    <3>3. \/ toRpi = <<>> /\ sessionOpen
          \/ toRpi = <<CaptureMsg>> /\ sessionOpen
          \/ toRpi = <<InitMsg>> /\ ~sessionOpen
      BY <3>2 DEF ServerInSession, Asked, Silent
    <3>4. \/ toRpi' = <<DoneMsg(cycle_id)>> /\ sessionOpen
          \/ toRpi' = <<CaptureMsg, DoneMsg(cycle_id)>> /\ sessionOpen
          \/ toRpi' = <<InitMsg, DoneMsg(cycle_id)>> /\ ~sessionOpen
      <4>. QED BY <3>1, <3>3, Appended, Zenon
    <3>. QED BY <1>1, <3>4 DEF ServerInv, ServerAtEnd
  <2>2. CASE curr_mode # "AUTO_SORT"
    <3>1. toRpi' = toRpi
      BY <2>2 DEF PressStop, EnterIdle
    <3>. QED BY <1>1, <2>2, <3>1 DEF PatientInv, ServerInv, ServerAtEnd
  <2>. QED BY <2>1, <2>2
<1>5. BoardAtIdle'
  <2>. DEFINE E == Ending(BeltOff)'
              A == Ending(AutoSortCmd \o BeltOff)'
  <2>1. ASSUME NEW b \in Bin, NEW tail \in {<<>>, AutoSortCmd}, ArmFor(b, tail)
        PROVE  \/ Unread' = tail \o BeltOff
               \/ Unread' = BeltOn \o (tail \o BeltOff)
               \/ Unread' = Servo(b) \o (BeltOn \o (tail \o BeltOff))
    <3>1. tail \in Seq(Token) /\ tail \o BeltOff \in Seq(Token) /\ BeltOn \o tail \in Seq(Token)
          /\ BeltOn \in Seq(Token) /\ BeltOff \in Seq(Token) /\ Servo(b) \in Seq(Token)
      BY <2>1, Lines
    <3>2. (BeltOn \o tail) \o BeltOff = BeltOn \o (tail \o BeltOff)
      <4>1. tail \in Seq(Token) /\ BeltOn \in Seq(Token) /\ BeltOff \in Seq(Token)
        BY <3>1
      <4>. QED BY <4>1, ConcatAssociative
    <3>3. (Servo(b) \o (BeltOn \o tail)) \o BeltOff = Servo(b) \o ((BeltOn \o tail) \o BeltOff)
      BY <3>1, ConcatAssociative
    <3>. QED BY <1>3, <2>1, <3>2, <3>3 DEF ArmFor, Moving
  <2>2. <<>> \o BeltOff = BeltOff
    BY Lines
  <2>3. ASSUME NEW b \in Bin, ArmFor(b, <<>>) PROVE E
    BY <2>1, <2>2, <2>3 DEF Ending
  <2>4. ASSUME NEW b \in Bin, ArmFor(b, AutoSortCmd) PROVE A
    BY <2>1, <2>4 DEF Ending
  <2>5. (Unread = <<>> => E) /\ (Unread = AutoSortCmd => A)
    BY <1>3, <2>2 DEF Ending
  <2>. HIDE DEF E, A
  <2>6. CASE curr_mode = "OVERRIDE"
    <3>1. BoardInOverride /\ curr_btn - 3 \in Bin
      BY <2>6 DEF PatientInv, BoardInv, BoardInOverride, PositionBtns, Bin
    <3>2. E /\ ard_pc' = "loop"
      BY <1>1, <2>3, <3>1 DEF BoardInOverride
    <3>. QED BY <3>2 DEF BoardAtIdle, E
  <2>7. CASE curr_mode = "AUTO_SORT"
    <3>1. BoardInSession
      BY <2>7 DEF PatientInv, BoardInv
    <3>2. ArmSet(<<>>) => E
      BY <2>3, <2>5 DEF ArmSet
    <3>3. ArmSet(AutoSortCmd) => A
      BY <2>4, <2>5 DEF ArmSet
    <3>4. Resting => E
      BY <2>5 DEF Resting
    <3>5. \/ ard_pc = "loop" /\ (E \/ A)
          \/ ard_pc = "autoSort" /\ Unread = <<>>
      BY <3>1, <3>2, <3>3, <3>4 DEF BoardInSession
    <3>6. CASE ard_pc = "loop" /\ (E \/ A)
      <4>1. ard_pc' = "loop"
        BY <1>1, <3>6
      <4>. QED BY <3>6, <4>1 DEF BoardAtIdle, E, A
    <3>7. CASE ard_pc = "autoSort" /\ Unread = <<>>
      <4>1. ard_pc' = "autoSort" /\ Unread' = BeltOff
        BY <1>1, <1>3, <2>2, <3>7
      <4>. QED BY <4>1 DEF BoardAtIdle
    <3>. QED BY <3>5, <3>6, <3>7
  <2>. QED BY <1>1, <2>6, <2>7
<1>6. BoardInv'
  BY <1>1, <1>5 DEF BoardInv
<1>. QED BY <1>4, <1>6

(* Any other button: nothing was under way.                                *)
LEMMA PressKeeps ==
  ASSUME TypeInv, PatientInv, PressAutoSort \/ PressSweep \/ PressPosition,
         UNCHANGED <<arduinoVars, envVars>>
  PROVE  Calm /\ ServerInv' /\ BoardInv'
<1>1. pc = "touch" /\ HandleTouchscreen /\ ts_state = "touched" /\ prev_ts_state # "touched"
      /\ ts_buff # StopBtn
  BY DEF PressAutoSort, PressSweep, PressPosition, HandleTouchscreen, Pressed, Changed,
         AutoSortBtn, SweepBtns, PositionBtns, StopBtn
<1>2. Calm
  BY <1>1 DEF PatientInv, StartInv, Arrived
<1>3. Resting /\ ard_pc = "loop"
  BY <1>2, CalmRests DEF PatientInv, Calm
<1>4. UNCHANGED <<fromArduino, fromRpi, rpi_buff, toRpi, category_scanned, ard_pc,
                  mainBuffer, belt, servoPos, sessionOpen>>
  BY <1>1, TouchLeaves DEF arduinoVars, envVars, PressAutoSort, PressSweep, PressPosition,
     EnterAutoSort, EnterSweep, EnterOverride
<1>5. toRpi = <<>> /\ ~sessionOpen
  <2>1. ServerAtEnd /\ toRpi = <<>>
    BY <1>2 DEF Calm, PatientInv, ServerInv
  <2>2. \A x, y : <<x>> # <<>> /\ <<x, y>> # <<>>
    OBVIOUS
  <2>. QED BY <2>1, <2>2 DEF ServerAtEnd
<1>6. CASE PressAutoSort
  <2>1. curr_mode' = "AUTO_SORT" /\ curr_sort' = "INIT" /\ count' = NoCount
        /\ UNCHANGED toArduino
    BY <1>6 DEF PressAutoSort, EnterAutoSort
  <2>2. Resting'
    BY <1>3, <1>4, <2>1 DEF Resting, Unread
  <2>3. BoardInv'
    BY <1>2, <1>3, <1>4, <2>1, <2>2 DEF BoardInv, BoardInSession, Calm
  <2>4. ServerInv'
    BY <1>2, <1>4, <1>5, <2>1 DEF ServerInv, ServerInSession, Silent, Calm
  <2>. QED BY <1>2, <2>3, <2>4
<1>7. CASE PressSweep
  <2>1. PICK dir \in {"CW", "CCW"} : EnterSweep(dir)
    BY <1>7, Zenon DEF PressSweep
  <2>2. curr_mode' = "SWEEP" /\ SendArduino(SweepCmd(dir))
    BY <2>1 DEF EnterSweep
  <2>3. PICK d \in Turns : SweepCmd(dir) = Cmd(d, "1")
    BY Commands DEF Turns
  <2>4. Unread' = Cmd(d, "1")
    BY <1>3, <1>4, <2>2, <2>3, Sent, Lines DEF Resting
  <2>5. BoardInv'
    BY <1>3, <1>4, <2>2, <2>4 DEF BoardInv, BoardInSweep, Resting
  <2>6. ServerInv'
    BY <1>4, <1>5, <2>2 DEF ServerInv, ServerAtEnd
  <2>. QED BY <1>2, <2>5, <2>6
<1>8. CASE PressPosition
  <2>. DEFINE b == ts_buff - 3
  <2>1. b \in Bin /\ curr_btn' = ts_buff /\ ts_buff \in PositionBtns
    BY <1>8 DEF PressPosition, Pressed, PositionBtns, Bin
  <2>2. curr_mode' = "OVERRIDE" /\ SendArduino(Servo(b) \o BeltOn)
    BY <1>8 DEF PressPosition, EnterOverride, Servo, BeltOn
  <2>3. Servo(b) \o BeltOn \in Seq(Token) /\ BeltOn \o <<>> = BeltOn
    BY <2>1, Lines
  <2>4. Unread' = Servo(b) \o (BeltOn \o <<>>)
    <3>1. Unread' = <<>> \o (Servo(b) \o BeltOn)
      BY <1>3, <1>4, <2>2, <2>3, Sent DEF Resting
    <3>. QED BY <2>3, <3>1, Lines
  <2>5. Unread' # <<>>
    <3>1. Servo(b) # <<>> /\ Servo(b) \in Seq(Token) /\ BeltOn \o <<>> \in Seq(Token)
      BY <2>1, Lines DEF Servo, SetServoCmd
    <3>. QED BY <2>4, <3>1, ConcatEqualIffEmpty
  <2>6. ArmFor(curr_btn - 3, <<>>)'
    BY <2>1, <2>4 DEF ArmFor, Moving
  <2>7. BoardInv'
    BY <1>3, <1>4, <2>1, <2>2, <2>5, <2>6 DEF BoardInv, BoardInOverride
  <2>8. ServerInv'
    BY <1>4, <1>5, <2>2 DEF ServerInv, ServerAtEnd
  <2>. QED BY <1>2, <2>7, <2>8
<1>. QED BY <1>6, <1>7, <1>8

LEMMA TouchKeeps ==
  ASSUME TypeInv, ButtonInv, PatientInv, TouchHandler, UNCHANGED <<arduinoVars, envVars>>
  PROVE  PatientInv'
<1>1. HandleTouchscreen
  BY DEF TouchHandler, TouchUnchanged, PressStop, PressAutoSort, PressSweep,
         PressPosition, PressNothing, Release
<1>2. UNCHANGED <<fromArduino, fromRpi, rpi_buff, category_scanned, ard_pc, mainBuffer,
                  belt, servoPos, sessionOpen>>
  BY <1>1, TouchLeaves DEF arduinoVars, envVars
<1>3. CASE TouchUnchanged \/ PressNothing
  <2>1. UNCHANGED <<curr_mode, curr_sort, count, toArduino, toRpi>>
        /\ (curr_mode # "SWEEP" => UNCHANGED curr_btn)
    BY <1>3 DEF TouchUnchanged, PressNothing
  <2>2. ServerInv'
    BY <1>2, <2>1, ServerHolds DEF PatientInv
  <2>3. BoardInv'
    <3>1. CASE curr_mode # "SWEEP"
      BY <1>2, <2>1, <3>1, BoardHolds DEF PatientInv
    <3>2. CASE curr_mode = "SWEEP"
      BY <1>2, <2>1, <3>2 DEF PatientInv, BoardInv, BoardInSweep, Sweeping, Unread
    <3>. QED BY <3>1, <3>2
  <2>. QED BY <1>1, <2>1, <2>2, <2>3, TouchPlaces DEF PatientInv
<1>4. CASE PressStop
  <2>1. UNCHANGED curr_sort /\ curr_mode' = "IDLE"
    BY <1>4 DEF PressStop, EnterIdle
  <2>. QED BY <1>1, <1>4, <2>1, TouchPlaces, StopEnds DEF PatientInv
<1>5. CASE PressAutoSort \/ PressSweep \/ PressPosition
  <2>1. Calm /\ ServerInv' /\ BoardInv'
    BY <1>5, PressKeeps
  <2>2. \/ UNCHANGED curr_sort /\ curr_mode' # "AUTO_SORT"
        \/ curr_mode' = "AUTO_SORT" /\ curr_sort' = "INIT"
    BY <1>5 DEF PressAutoSort, PressSweep, PressPosition, EnterAutoSort, EnterSweep,
                EnterOverride
  <2>3. rpi_buff = NoMsg
    BY <2>1 DEF Calm
  <2>. QED BY <1>1, <2>1, <2>2, <2>3, TouchPlaces DEF PatientInv
<1>6. CASE Release
  <2>1. UNCHANGED <<curr_sort, count, toRpi>>
    BY <1>6 DEF Release
  <2>2. CASE curr_mode # "SWEEP"
    <3>1. UNCHANGED <<curr_mode, toArduino>>
      BY <1>6, <2>2 DEF Release, EndSweep
    <3>2. ServerInv'
      BY <1>2, <2>1, <3>1, ServerHolds DEF PatientInv
    <3>3. curr_mode = "OVERRIDE" => UNCHANGED curr_btn
      BY <1>6, ButtonSets DEF Release, ResetPressed, ButtonInv, StopHeld, ModeHasButton,
                              StopsOnTouch
    <3>4. ASSUME curr_mode = "OVERRIDE" PROVE BoardInv'
      BY <1>2, <2>1, <3>1, <3>3, <3>4, BoardHolds DEF PatientInv
    <3>5. ASSUME curr_mode \in {"AUTO_SORT", "IDLE"} PROVE BoardInv'
      <4>1. Unread' = Unread
        BY <1>2, <3>1 DEF Unread
      <4>2. BoardInSession => BoardInSession'
        BY <1>2, <2>1, <4>1 DEF BoardInSession, ArmSet, ArmFor, Moving, At, Resting
      <4>3. BoardAtIdle => BoardAtIdle'
        BY <1>2, <4>1 DEF BoardAtIdle, Resting, Ending, Sweeping
      <4>. QED BY <3>1, <3>5, <4>2, <4>3 DEF PatientInv, BoardInv
    <3>6. curr_mode \in {"AUTO_SORT", "IDLE", "OVERRIDE"}
      BY <2>2 DEF TypeInv, TypeOK, ControllerTypeOK, Mode
    <3>7. BoardInv'
      BY <3>4, <3>5, <3>6
    <3>. QED BY <1>1, <2>1, <3>1, <3>2, <3>7, TouchPlaces DEF PatientInv
  <2>3. CASE curr_mode = "SWEEP"
    <3>1. curr_mode' = "IDLE" /\ SendArduino(<<CR>>)
      BY <1>6, <2>3, Commands DEF Release, EndSweep
    <3>2. ServerInv'
      BY <1>2, <2>1, <2>3, <3>1 DEF PatientInv, ServerInv, ServerAtEnd
    <3>3. Unread' = Unread \o <<CR>>
      BY <1>2, <3>1, Sent, Lines
    <3>4. BoardAtIdle'
      <4>1. BoardInSweep
        BY <2>3 DEF PatientInv, BoardInv
      <4>2. <<>> \o <<CR>> = <<CR>>
        BY Lines
      <4>. QED BY <1>2, <3>3, <4>1, <4>2 DEF BoardInSweep, BoardAtIdle, Sweeping
    <3>. QED BY <1>1, <2>1, <3>1, <3>2, <3>4, TouchPlaces DEF PatientInv, BoardInv
  <2>. QED BY <2>2, <2>3
<1>. QED BY <1>3, <1>4, <1>5, <1>6 DEF TouchHandler

----------------------------------------------------------------------------
(* The server's answers: each is to the question the sort state waits for. *)
LEMMA RpiKeeps ==
  ASSUME TypeInv, ButtonInv, PatientInv, RpiHandler, UNCHANGED <<arduinoVars, envVars>>
  PROVE  PatientInv'
<1>1. /\ pc = "rpi" /\ rpi_buff # NoMsg /\ rpi_buff' = NoMsg /\ pc' = AfterHandlers
      /\ UNCHANGED <<ts_state, prev_ts_state, ts_buff, curr_mode, curr_btn, count,
                     touchLine, toArduino, fromArduino, toRpi, fromRpi, ard_pc, mainBuffer,
                     belt, servoPos, finger, sessionOpen>>
      /\ \/ /\ rpi_buff.type = "cycle_id" /\ curr_sort' = "BEGIN_CYCLE"
            /\ UNCHANGED category_scanned
         \/ /\ rpi_buff.type = "retry" /\ curr_sort' = "CAM_READY"
            /\ UNCHANGED category_scanned
         \/ rpi_buff.type = "cat" /\ curr_sort' = "IMG_READY"
  <2>1. rpi_buff.type \notin Remote
    BY DEF RpiHandler, ReceiveCycleId, ReceiveRetry, ReceiveCategory, RemoteAutoSort,
           RemoteStop, RemotePosition, Received, ButtonInv, OnlyAnswers, AnswerMsg, NoMsg,
           Remote
  <2>2. ReceiveCycleId \/ ReceiveRetry \/ ReceiveCategory
    BY <2>1 DEF RpiHandler, RemoteAutoSort, RemoteStop, RemotePosition, Received, Remote
  <2>. QED
    BY <2>2 DEF ReceiveCycleId, ReceiveRetry, ReceiveCategory, HandleRpi, Received,
                touchVars, inputLines, arduinoVars, envVars, NoMsg
<1>2. pc' # "touch" /\ curr_sort' # "INIT"
  BY <1>1 DEF AfterHandlers
<1>3. PlaceInv' /\ FingerInv' /\ BufferInv'
  BY <1>1, <1>2 DEF PatientInv, PlaceInv, FingerInv, BufferInv
<1>4. StartInv'
  BY <1>1, <1>2 DEF PatientInv, StartInv, Comes, Arrived
<1>5. Unread' = Unread
  BY <1>1 DEF Unread
<1>6. CASE curr_mode = "AUTO_SORT"
  <2>1. ServerInSession /\ BoardInSession
    BY <1>6 DEF PatientInv, ServerInv, BoardInv
  <2>2. /\ \/ curr_sort = "INIT_WAIT" /\ rpi_buff.type = "cycle_id"
           \/ curr_sort = "IMG_WAIT" /\ rpi_buff.type \in {"cat", "retry"}
        /\ toRpi = <<>> /\ fromRpi = <<>> /\ sessionOpen
    BY <1>1, <2>1 DEF ServerInSession, Asked, Silent
  <2>3. ServerInv'
    BY <1>1, <1>6, <2>2 DEF ServerInv, ServerInSession, Silent
  <2>4. ard_pc = "loop" /\ fromArduino = <<>> /\ Resting
        /\ (curr_sort = "INIT_WAIT" => count = NoCount)
    BY <2>1, <2>2 DEF BoardInSession
  <2>5. Resting'
    BY <1>1, <1>5, <2>4 DEF Resting
  <2>6. BoardInSession'
    BY <1>1, <2>2, <2>4, <2>5 DEF BoardInSession, ArmSet, Resting
  <2>. QED BY <1>1, <1>3, <1>4, <1>6, <2>3, <2>6 DEF PatientInv, BoardInv
<1>7. CASE curr_mode # "AUTO_SORT"
  <2>1. ServerInv'
    BY <1>1, <1>7 DEF PatientInv, ServerInv, ServerAtEnd
  <2>2. BoardAtIdle => BoardAtIdle'
    BY <1>1, <1>5 DEF BoardAtIdle, Resting, Ending, Sweeping
  <2>3. BoardInSweep => BoardInSweep'
    BY <1>1, <1>5 DEF BoardInSweep, Sweeping
  <2>4. BoardInOverride => BoardInOverride'
    BY <1>1, <1>5 DEF BoardInOverride, ArmFor, Moving, At
  <2>. QED BY <1>1, <1>3, <1>4, <1>7, <2>1, <2>2, <2>3, <2>4 DEF PatientInv, BoardInv
<1>. QED BY <1>6, <1>7

(* The sort steps.                                                         *)
LEMMA SortKeeps ==
  ASSUME TypeInv, ButtonInv, PatientInv, AutoSort, UNCHANGED <<arduinoVars, envVars>>
  PROVE  PatientInv'
<1>1. /\ pc = "sort" /\ pc' = "poll" /\ rpi_buff = NoMsg /\ curr_mode = "AUTO_SORT"
      /\ UNCHANGED <<ts_state, prev_ts_state, ts_buff, rpi_buff, category_scanned, touchLine,
                     fromArduino, fromRpi, ard_pc, mainBuffer, belt, servoPos, finger,
                     sessionOpen>>
      /\ curr_sort' # "INIT"
  BY DEF AutoSort, InitializeAutosort, BeginCycle, ObjectReady, CycleTimedOut,
         ReplyNotUnderstood, CaptureImage, CountObject, HandleArduino, SortStep, touchVars,
         inputLines, arduinoVars, envVars, ButtonInv, SortPlace, PatientInv, PlaceInv
<1>2. PlaceInv' /\ FingerInv' /\ BufferInv'
  BY <1>1 DEF PatientInv, PlaceInv, FingerInv, BufferInv
<1>3. StartInv'
  BY <1>1 DEF PatientInv, StartInv, Comes, Arrived, Calm
<1>4. ServerInSession /\ BoardInSession
  BY <1>1 DEF PatientInv, ServerInv, BoardInv
<1>5. CASE InitializeAutosort
  <2>1. curr_sort = "INIT" /\ curr_sort' = "INIT_WAIT" /\ toRpi' = Append(toRpi, InitMsg)
        /\ UNCHANGED <<curr_mode, curr_btn, count, toArduino>>
    BY <1>5 DEF InitializeAutosort, SortStep, SendRpi
  <2>2. /\ Silent /\ ~sessionOpen /\ Resting
        /\ ard_pc = "loop" /\ fromArduino = <<>> /\ count = NoCount
    BY <1>4, <2>1 DEF ServerInSession, BoardInSession
  <2>3. toRpi' = <<InitMsg>> /\ toRpi' # <<>>
    BY <2>1, <2>2, OneElement DEF Silent
  <2>4. ServerInv'
    BY <1>1, <2>1, <2>2, <2>3 DEF Silent, ServerInv, ServerInSession, Asked
  <2>5. BoardInv'
    BY <1>1, <2>1, <2>2 DEF BoardInv, BoardInSession, Resting, Unread
  <2>. QED BY <1>2, <1>3, <2>4, <2>5 DEF PatientInv
<1>6. CASE BeginCycle
  <2>1. curr_sort = "BEGIN_CYCLE" /\ curr_sort' = "ARD_WAIT" /\ SendArduino(AutoSortCmd)
        /\ UNCHANGED <<curr_mode, curr_btn, count, toRpi>>
    BY <1>6 DEF BeginCycle, SortStep
  <2>2. Silent /\ sessionOpen /\ ard_pc = "loop" /\ fromArduino = <<>> /\ ArmSet(<<>>)
    BY <1>4, <2>1 DEF ServerInSession, BoardInSession
  <2>3. Unread' = Unread \o AutoSortCmd
    BY <1>1, <2>1, Sent, Lines
  <2>4. <<>> \o AutoSortCmd = AutoSortCmd /\ BeltOn \o <<>> = BeltOn
    BY Lines
  <2>5. ASSUME NEW b \in Bin, ArmFor(b, <<>>) PROVE ArmFor(b, AutoSortCmd)'
    <3>1. (Servo(b) \o BeltOn) \o AutoSortCmd = Servo(b) \o (BeltOn \o AutoSortCmd)
      <4>1. Servo(b) \in Seq(Token) /\ BeltOn \in Seq(Token) /\ AutoSortCmd \in Seq(Token)
        BY Lines
      <4>. QED BY <4>1, ConcatAssociative
    <3>. QED BY <1>1, <2>3, <2>4, <2>5, <3>1 DEF ArmFor, Moving, At
  <2>6. ArmSet(AutoSortCmd)'
    <3>1. CASE count = NoCount
      BY <2>1, <2>2, <2>3, <2>4, <3>1 DEF ArmSet
    <3>2. CASE count # NoCount
      <4>1. ArmFor(category_scanned, AutoSortCmd)' /\ category_scanned \in Bin
        BY <1>1, <2>2, <2>5, <3>2 DEF ArmSet, ArmFor, Moving, At
      <4>. QED BY <1>1, <2>1, <3>2, <4>1 DEF ArmSet, ArmFor, Moving, At
    <3>. QED BY <3>1, <3>2
  <2>7. ServerInv'
    BY <1>1, <2>1, <2>2 DEF Silent, ServerInv, ServerInSession
  <2>8. BoardInv'
    BY <1>1, <2>1, <2>2, <2>6 DEF BoardInv, BoardInSession
  <2>. QED BY <1>2, <1>3, <2>7, <2>8 DEF PatientInv
<1>7. CASE ObjectReady \/ ReplyNotUnderstood
  <2>1. curr_sort = "ARD_READY" /\ curr_sort' \in {"CAM_READY", "IDLE"}
        /\ UNCHANGED <<curr_mode, curr_btn, count, toArduino, toRpi>>
    BY <1>7 DEF ObjectReady, ReplyNotUnderstood, HandleArduino, SortStep
  <2>2. Silent /\ sessionOpen /\ Resting /\ ard_pc = "loop" /\ fromArduino = <<>>
    BY <1>4, <2>1 DEF ServerInSession, BoardInSession
  <2>3. ServerInv'
    BY <1>1, <2>1, <2>2 DEF Silent, ServerInv, ServerInSession
  <2>4. BoardInv'
    BY <1>1, <2>1, <2>2 DEF BoardInv, BoardInSession, Resting, Unread
  <2>. QED BY <1>2, <1>3, <2>3, <2>4 DEF PatientInv
<1>8. CASE CycleTimedOut
  <2>1. /\ curr_sort = "ARD_READY" /\ curr_mode' = "IDLE"
        /\ toRpi' = Append(toRpi, DoneMsg(cycle_id))
        /\ UNCHANGED toArduino
    BY <1>8 DEF CycleTimedOut, HandleArduino, SortStep, SendRpi
  <2>2. Silent /\ sessionOpen /\ Resting /\ ard_pc = "loop"
    BY <1>4, <2>1 DEF ServerInSession, BoardInSession
  <2>3. toRpi' = <<DoneMsg(cycle_id)>> /\ cycle_id \in Nat
    BY <2>1, <2>2, OneElement DEF Silent, TypeInv, TypeOK, ControllerTypeOK
  <2>4. ServerInv'
    BY <1>1, <2>1, <2>2, <2>3 DEF ServerInv, ServerAtEnd
  <2>5. BoardInv'
    BY <1>1, <2>1, <2>2 DEF BoardInv, BoardAtIdle, Resting, Unread
  <2>. QED BY <1>2, <1>3, <2>4, <2>5 DEF PatientInv
<1>9. CASE CaptureImage
  <2>1. curr_sort = "CAM_READY" /\ curr_sort' = "IMG_WAIT" /\ toRpi' = Append(toRpi, CaptureMsg)
        /\ UNCHANGED <<curr_mode, curr_btn, count, toArduino>>
    BY <1>9 DEF CaptureImage, SortStep, SendRpi
  <2>2. Silent /\ sessionOpen /\ Resting /\ ard_pc = "loop" /\ fromArduino = <<>>
    BY <1>4, <2>1 DEF ServerInSession, BoardInSession
  <2>3. toRpi' = <<CaptureMsg>>
    BY <2>1, <2>2, OneElement DEF Silent
  <2>4. ServerInv'
    BY <1>1, <2>1, <2>2, <2>3 DEF Silent, ServerInv, ServerInSession, Asked
  <2>5. BoardInv'
    BY <1>1, <2>1, <2>2 DEF BoardInv, BoardInSession, Resting, Unread
  <2>. QED BY <1>2, <1>3, <2>4, <2>5 DEF PatientInv
<1>10. CASE CountObject
  <2>. DEFINE b == category_scanned
  <2>1. curr_sort = "IMG_READY" /\ curr_sort' = "BEGIN_CYCLE" /\ SendArduino(Servo(b) \o BeltOn)
        /\ count' = [count EXCEPT ![b] = @ + 1] /\ UNCHANGED <<curr_mode, curr_btn, toRpi>>
    BY <1>10 DEF CountObject, SortStep, Servo, BeltOn
  <2>2. Silent /\ sessionOpen /\ Resting /\ ard_pc = "loop" /\ fromArduino = <<>>
    BY <1>4, <2>1 DEF ServerInSession, BoardInSession
  <2>3. b \in Bin /\ count \in [Bin -> Nat]
    BY <2>1 DEF TypeInv, TypeOK, ControllerTypeOK, CategoryKnown
  <2>4. Servo(b) \o BeltOn \in Seq(Token) /\ BeltOn \o <<>> = BeltOn
    BY <2>3, Lines
  <2>5. Unread' = Servo(b) \o (BeltOn \o <<>>)
    <3>1. Unread' = <<>> \o (Servo(b) \o BeltOn)
      BY <1>1, <2>1, <2>2, <2>4, Sent DEF Resting
    <3>. QED BY <2>4, <3>1, Lines
  <2>6. ArmSet(<<>>)'
    <3>1. count' # NoCount
      <4>1. count'[b] = count[b] + 1 /\ count[b] \in Nat
        BY <2>1, <2>3
      <4>2. count'[b] # NoCount[b]
        BY <2>3, <4>1 DEF NoCount
      <4>. QED BY <4>2
    <3>2. category_scanned' \in Bin /\ Unread' = Servo(category_scanned') \o (BeltOn \o <<>>)
      BY <1>1, <2>3, <2>5
    <3>. QED BY <3>1, <3>2 DEF ArmSet, ArmFor, Moving
  <2>7. ServerInv'
    BY <1>1, <2>1, <2>2 DEF Silent, ServerInv, ServerInSession
  <2>8. BoardInv'
    BY <1>1, <2>1, <2>2, <2>6 DEF BoardInv, BoardInSession
  <2>. QED BY <1>2, <1>3, <2>7, <2>8 DEF PatientInv
<1>. QED BY <1>5, <1>6, <1>7, <1>8, <1>9, <1>10 DEF AutoSort

LEMMA PatientStep ==
  ASSUME Patient, RemoteCmds = {}, TypeInv, ButtonInv, PatientInv, [Next]_vars
  PROVE  PatientInv'
<1>1. CASE Controls
  BY <1>1, PollKeeps, TouchKeeps, RpiKeeps, SortKeeps DEF Controls, ControllerNext
<1>2. CASE Arduino
  BY <1>2, ArduinoKeeps
<1>3. CASE Operator
  BY <1>3, OperatorKeeps
<1>4. CASE Server
  BY <1>4, ServerKeeps
<1>5. CASE RemoteControl
  BY <1>5 DEF RemoteControl
<1>6. CASE UNCHANGED vars
  <2>1. BufferInv' /\ BoardInv'
    BY <1>6, BoardHolds DEF vars, links, controllerVars, arduinoVars, PatientInv
  <2>2. ServerInv'
    BY <1>6, ServerHolds DEF vars, links, controllerVars, envVars, PatientInv
  <2>3. PlaceInv' /\ FingerInv' /\ StartInv'
    BY <1>6 DEF vars, links, controllerVars, arduinoVars, envVars, PatientInv, PlaceInv,
                FingerInv, StartInv, Comes, Arrived, Calm
  <2>. QED BY <2>1, <2>2, <2>3 DEF PatientInv
<1>. QED BY <1>1, <1>2, <1>3, <1>4, <1>5, <1>6 DEF Next

----------------------------------------------------------------------------
SafeInv == TypeInv /\ ButtonInv /\ PatientInv

(* Every state of every behaviour of a patient line.                       *)
LEMMA SafeHolds ==
  ASSUME Patient, RemoteCmds = {}
  PROVE  Spec => []SafeInv
<1>1. Init => SafeInv
  BY TypeInit, ButtonInit, PatientInit DEF SafeInv
<1>2. SafeInv /\ [Next]_vars => SafeInv'
  BY TypeStep, ButtonStep, PatientStep DEF SafeInv
<1>. QED BY <1>1, <1>2, PTL DEF Spec

(* In MODE_IDLE the belt is off once the board has read its line and is back *)
(* in loop(): the order of STOP (main.c:495) is obeyed, whether loop(),    *)
(* autoSort() or both read it, and no order that starts the belt comes after. *)
THEOREM BeltStopsWhenIdle ==
  ASSUME Patient, RemoteCmds = {}
  PROVE  Spec => []BeltOffWhenIdle
<1>1. SafeInv => BeltOffWhenIdle
  <2>. SUFFICES ASSUME SafeInv, curr_mode = "IDLE", toArduino = <<>>, ard_pc = "loop"
                PROVE  ~belt
    BY DEF BeltOffWhenIdle
  <2>1. Resting
    BY IdleRests DEF SafeInv, PatientInv, BoardInv
  <2>. QED BY <2>1 DEF Resting
<1>. QED BY <1>1, SafeHolds, PTL

(* In MODE_OVERRIDE the belt runs and the arm is at the bin of the button  *)
(* (main.c:325) once the board has read its line: no STOP, count or sweep of *)
(* a session before is obeyed after the button.                            *)
THEOREM OverrideIsInForce ==
  ASSUME Patient, RemoteCmds = {}
  PROVE  Spec => []OverrideInForce
<1>1. SafeInv => OverrideInForce
  <2>. SUFFICES ASSUME SafeInv, curr_mode = "OVERRIDE", toArduino = <<>>
                PROVE  belt /\ servoPos = Angle[BinPosition[curr_btn - 3]]
    BY DEF OverrideInForce
  <2>. DEFINE b == curr_btn - 3
  <2>1. b \in Bin /\ ArmFor(b, <<>>) /\ (Unread = <<>> => belt)
    BY DEF SafeInv, PatientInv, BoardInv, BoardInOverride, PositionBtns, Bin
  <2>. HIDE DEF b
  <2>2. ~Moving(b, <<>>)
    <3>1. BeltOn = Cmd("cv:", "1") /\ Servo(b) = Cmd("s:", BinPosition[b])
          /\ "cv:" \in Prefix /\ "s:" \in Prefix /\ "1" \in Argument
          /\ BinPosition[b] \in Argument /\ <<>> \in Seq(Token)
          /\ BeltOn \o <<>> \in Seq(Token)
      BY <2>1, Commands, Letters, Lines, BinPositionType
    <3>2. Unread # Cmd("cv:", "1") \o <<>>
      BY <3>1, NotDrained DEF SafeInv, PatientInv
    <3>3. Unread # Cmd("s:", BinPosition[b]) \o (BeltOn \o <<>>)
      BY <3>1, NotDrained DEF SafeInv, PatientInv
    <3>. QED BY <3>1, <3>2, <3>3 DEF Moving
  <2>3. Unread = <<>> /\ At(b)
    BY <2>1, <2>2 DEF ArmFor
  <2>. QED BY <2>1, <2>3 DEF At, b
<1>. QED BY <1>1, SafeHolds, PTL

(* While the next object is on the belt the arm is at the bin of the object *)
(* counted last (main.c:180), which is still on its way to it.             *)
THEOREM ArmStaysAtCountedBin ==
  ASSUME Patient, RemoteCmds = {}
  PROVE  Spec => []ArmAtCountedBin
<1>1. SafeInv => ArmAtCountedBin
  <2>. SUFFICES ASSUME SafeInv, curr_mode = "AUTO_SORT", curr_sort = "ARD_WAIT",
                       ard_pc = "autoSort", count # NoCount
                PROVE  servoPos = Angle[BinPosition[category_scanned]]
    BY DEF ArmAtCountedBin
  <2>. DEFINE b == category_scanned
  <2>1. ArmSet(<<>>) /\ Unread = <<>>
    BY DEF SafeInv, PatientInv, BoardInv, BoardInSession
  <2>2. b \in Bin /\ ArmFor(b, <<>>)
    BY <2>1 DEF ArmSet
  <2>. HIDE DEF b
  <2>3. ~Moving(b, <<>>)
    <3>1. BeltOn = Cmd("cv:", "1") /\ Servo(b) = Cmd("s:", BinPosition[b])
          /\ "cv:" \in Prefix /\ "s:" \in Prefix /\ "1" \in Argument
          /\ BinPosition[b] \in Argument /\ <<>> \in Seq(Token)
          /\ BeltOn \o <<>> \in Seq(Token)
      BY <2>2, Commands, Letters, Lines, BinPositionType
    <3>2. Cmd("cv:", "1") \o <<>> # <<>>
      BY <3>1, NotDrained DEF SafeInv, PatientInv
    <3>3. Cmd("s:", BinPosition[b]) \o (BeltOn \o <<>>) # <<>>
      BY <3>1, NotDrained DEF SafeInv, PatientInv
    <3>. QED BY <2>1, <3>1, <3>2, <3>3 DEF Moving
  <2>. QED BY <2>2, <2>3 DEF ArmFor, At, b
<1>. QED BY <1>1, SafeHolds, PTL

(* A done (main.c:399, 492) reaches the server when a session is open: STOP and *)
(* the timeout do not both close one, and init was there before.           *)
THEOREM DoneClosesAnOpenSession ==
  ASSUME Patient, RemoteCmds = {}
  PROVE  Spec => DoneClosesSession
<1>1. SafeInv /\ [Next]_vars => [CloseSession => sessionOpen]_vars
  <2>. SUFFICES ASSUME SafeInv, CloseSession PROVE sessionOpen
    OBVIOUS
  <2>1. toRpi # <<>> /\ Head(toRpi).type = "done"
    BY DEF CloseSession, ServerStep
  <2>2. CASE curr_mode = "AUTO_SORT"
    <3>1. toRpi \in {<<InitMsg>>, <<CaptureMsg>>}
      BY <2>1, <2>2 DEF SafeInv, PatientInv, ServerInv, ServerInSession, Asked, Silent
    <3>. QED BY <2>1, <3>1 DEF InitMsg, CaptureMsg
  <2>3. CASE curr_mode # "AUTO_SORT"
    <3>1. PICK c \in Nat :
            \/ toRpi \in {<<DoneMsg(c)>>, <<CaptureMsg, DoneMsg(c)>>} /\ sessionOpen
            \/ toRpi = <<InitMsg, DoneMsg(c)>>
      BY <2>1, <2>3 DEF SafeInv, PatientInv, ServerInv, ServerAtEnd
    <3>. QED BY <2>1, <3>1 DEF InitMsg
  <2>. QED BY <2>2, <2>3
<1>. QED BY <1>1, SafeHolds, PTL DEF Spec, DoneClosesSession

(* The controller begins a cycle (main.c:158) only in a session the server *)
(* has opened: no answer to an older init is taken for the new one.        *)
THEOREM CyclesAreInSessions ==
  ASSUME Patient, RemoteCmds = {}
  PROVE  Spec => CycleInSession
<1>1. SafeInv /\ [Next]_vars => [BeginCycle => sessionOpen]_vars
  <2>. SUFFICES ASSUME SafeInv, BeginCycle PROVE sessionOpen
    OBVIOUS
  <2>1. curr_mode = "AUTO_SORT" /\ curr_sort = "BEGIN_CYCLE"
    BY DEF SafeInv, ButtonInv, SortPlace, BeginCycle, SortStep
  <2>. QED BY <2>1 DEF SafeInv, PatientInv, ServerInv, ServerInSession
<1>. QED BY <1>1, SafeHolds, PTL DEF Spec, CycleInSession

(* When the controller orders a cycle no earlier order is left: the board is *)
(* not sorting, has none on its line, and no reply of an older one is under *)
(* way (main.c:158).                                                       *)
THEOREM BoardIsFreeAtBegin ==
  ASSUME Patient, RemoteCmds = {}
  PROVE  Spec => BoardFreeAtBegin
<1>. DEFINE Free == /\ ard_pc # "autoSort"
                    /\ fromArduino = <<>>
                    /\ \A i \in DOMAIN (mainBuffer \o toArduino) :
                         (mainBuffer \o toArduino)[i] # "as:"
<1>1. SafeInv /\ [Next]_vars => [BeginCycle => Free]_vars
  <2>. SUFFICES ASSUME SafeInv, BeginCycle PROVE Free
    OBVIOUS
  <2>1. curr_mode = "AUTO_SORT" /\ curr_sort = "BEGIN_CYCLE"
    BY DEF SafeInv, ButtonInv, SortPlace, BeginCycle, SortStep
  <2>2. ard_pc = "loop" /\ fromArduino = <<>> /\ ArmSet(<<>>)
    BY <2>1 DEF SafeInv, PatientInv, BoardInv, BoardInSession
  <2>3. \A i \in DOMAIN Unread : Unread[i] # "as:"
    <3>1. BeltOn \o <<>> = <<"cv:", "1", CR>>
      BY Lines, Zenon DEF BeltOn, ConveyorCmd
    <3>2. CASE Unread \in {<<>>, BeltOn \o <<>>}
      BY <3>1, <3>2 DEF CR
    <3>3. ASSUME NEW b \in Bin, Unread = Servo(b) \o (BeltOn \o <<>>)
          PROVE  \A i \in DOMAIN Unread : Unread[i] # "as:"
      <4>. DEFINE s == Servo(b)
                  c == BeltOn \o <<>>
      <4>1. s \in Seq(Token) /\ c \in Seq(Token) /\ Len(s) = 3 /\ Len(c) = 3
        BY <3>1, <3>3, Lines DEF Servo, SetServoCmd
      <4>2. \A i \in 1..3 : s[i] # "as:" /\ c[i] # "as:"
        <5>1. s = <<"s:", BinPosition[b], CR>> /\ BinPosition[b] # "as:" /\ CR # "as:"
          BY BinPositionType DEF Servo, SetServoCmd, Argument, CR
        <5>. QED BY <3>1, <5>1
      <4>. HIDE DEF s, c
      <4>3. /\ Len(s \o c) = Len(s) + Len(c) /\ s \o c \in Seq(Token)
            /\ \A i \in 1..Len(s) + Len(c) :
                 (s \o c)[i] = IF i <= Len(s) THEN s[i] ELSE c[i - Len(s)]
        BY <4>1, ConcatProperties
      <4>4. DOMAIN (s \o c) = 1..6
        BY <4>1, <4>3, LenProperties
      <4>5. ASSUME NEW i \in 1..6 PROVE (s \o c)[i] # "as:"
        BY <4>1, <4>2, <4>3
      <4>. QED BY <3>3, <4>4, <4>5 DEF s, c
    <3>. QED BY <2>2, <3>2, <3>3 DEF ArmSet, ArmFor, Moving
  <2>. QED BY <2>2, <2>3 DEF Unread
<1>. QED BY <1>1, SafeHolds, PTL DEF Spec, BoardFreeAtBegin
============================================================================
