--------------------------- MODULE SortingSystem ---------------------------
(***************************************************************************)
(* The sorting line: the controller's super-loop and the Arduino firmware  *)
(* joined by their serial line, with what surrounds them: the operator's   *)
(* finger on the touch panel, objects that break the laser beam, and the   *)
(* server behind the Raspberry Pi (external: known from the messages       *)
(* main.c and rpi.c send and accept).                                      *)
(***************************************************************************)
EXTENDS Controller, ArduinoFirmware, FiniteSets

CONSTANTS
  Buttons,        \* points the operator touches
  Bins,           \* categories the server returns
  RemoteCmds,     \* messages the remote control may send
  Patient,        \* TRUE: a start waits until the last session has died down
  MaxTouches,     \* bound: touches and moves of the finger
  MaxObjects,     \* bound: times the beam is broken
  MaxRetries,     \* bound: images the server asks for again
  MaxRemote       \* bound: messages of the remote control

ASSUME SystemAssumption ==
  /\ Buttons \subseteq Point
  /\ Bins \subseteq Bin
  /\ RemoteCmds \subseteq [type : Remote, val : Nat]
  /\ Patient \in BOOLEAN
  /\ MaxTouches \in Nat /\ MaxObjects \in Nat
  /\ MaxRetries \in Nat /\ MaxRemote \in Nat

VARIABLES
  finger,         \* the operator's finger is "up" or "down"
  lastCycle,      \* the last cycle id the server gave
  sessionOpen,    \* the server has seen "init" and not yet "done"
  left            \* what remains of the four bounds

envVars == <<finger, lastCycle, sessionOpen, left>>
vars == <<links, controllerVars, arduinoVars, envVars>>

----------------------------------------------------------------------------
TypeOK ==
  /\ LinksTypeOK
  /\ ControllerTypeOK
  /\ ArduinoTypeOK
  /\ finger \in {"up", "down"}
  /\ lastCycle \in Nat
  /\ sessionOpen \in BOOLEAN
  /\ left \in [touches : Nat, objects : Nat, retries : Nat, remote : Nat]

Init ==
  /\ LinksInit
  /\ ControllerInit
  /\ ArduinoInit
  /\ finger = "up"
  /\ lastCycle = 0
  /\ sessionOpen = FALSE
  /\ left = [touches |-> MaxTouches, objects |-> MaxObjects,
             retries |-> MaxRetries, remote |-> MaxRemote]

Spend(what) == left[what] > 0 /\ left' = [left EXCEPT ![what] = @ - 1]

----------------------------------------------------------------------------
(* The operator.  The panel sends a packet when the finger comes down,     *)
(* while it is held or dragged, and when it is lifted, each one after the  *)
(* last one has been read.                                                 *)

Quiet ==
  /\ pc = "poll"
  /\ links = <<<<>>, <<>>, <<>>, <<>>, <<>>>>
  /\ ard_pc = "loop"
  /\ curr_mode = "IDLE"

SendPacket(event, at) ==
  /\ touchLine = <<>>
  /\ touchLine' = <<[event |-> event, at |-> at]>>
  /\ UNCHANGED <<toArduino, fromArduino, toRpi, fromRpi, controllerVars,
                 arduinoVars, lastCycle, sessionOpen>>

FingerDown(at) ==
  /\ finger = "up"
  /\ finger' = "down"
  /\ Patient => Quiet \/ at = StopBtn
  /\ Spend("touches")
  /\ SendPacket("touched", at)

FingerDrag(at) ==
  /\ finger = "down"
  /\ UNCHANGED finger
  /\ Spend("touches")
  /\ SendPacket("touched", at)

FingerUp ==
  /\ finger = "down"
  /\ finger' = "up"
  /\ SendPacket("untouched", Nowhere)
  /\ UNCHANGED left

Operator == FingerUp \/ \E at \in Buttons : FingerDown(at) \/ FingerDrag(at)

----------------------------------------------------------------------------
(* The server behind the Raspberry Pi: it takes the messages in order and  *)
(* answers each after an arbitrary delay.                                  *)

ServerStep(type) ==
  /\ toRpi # <<>>
  /\ Head(toRpi).type = type
  /\ toRpi' = Tail(toRpi)
  /\ UNCHANGED <<touchLine, toArduino, fromArduino, controllerVars,
                 arduinoVars, finger>>

Answer(type, val) == fromRpi' = Append(fromRpi, [type |-> type, val |-> val])

OpenSession ==
  /\ ServerStep("init")
  /\ lastCycle' = lastCycle + 1
  /\ sessionOpen' = TRUE
  /\ Answer("cycle_id", lastCycle + 1)
  /\ UNCHANGED left

CloseSession ==
  /\ ServerStep("done")
  /\ sessionOpen' = FALSE
  /\ UNCHANGED <<lastCycle, fromRpi, left>>

Classify ==
  /\ ServerStep("capture")
  /\ \E bin \in Bins : Answer("cat", bin)
  /\ UNCHANGED <<lastCycle, sessionOpen, left>>

AskAgain ==
  /\ ServerStep("capture")
  /\ Spend("retries")
  /\ Answer("retry", 0)
  /\ UNCHANGED <<lastCycle, sessionOpen>>

RemoteControl ==
  /\ Spend("remote")
  /\ \E msg \in RemoteCmds : fromRpi' = Append(fromRpi, msg)
  /\ UNCHANGED <<touchLine, toArduino, fromArduino, toRpi, controllerVars,
                 arduinoVars, finger, lastCycle, sessionOpen>>

Server == OpenSession \/ CloseSession \/ Classify \/ AskAgain

----------------------------------------------------------------------------
Controls == ControllerNext /\ UNCHANGED <<arduinoVars, envVars>>

(* The board alone; the beam is broken at most MaxObjects times.           *)
Arduino ==
  /\ \/ LaserBroken /\ Spend("objects")
     \/ /\ \/ RunLoop \/ RunSweep
           \/ SortTimeout \/ SortStopped \/ SortRead
        /\ UNCHANGED left
  /\ UNCHANGED <<touchLine, toRpi, fromRpi, controllerVars, finger,
                 lastCycle, sessionOpen>>

Next == Controls \/ Arduino \/ Operator \/ Server \/ RemoteControl

(* The controller's loop and the board never stop, and the timeout of      *)
(* autoSort() is measured by a clock; the server answers.  Nobody has to   *)
(* touch the screen, use the remote control or feed an object.             *)
ReadLine == RunLoop \/ SortStopped \/ SortRead \/ SweepEnd
ArduinoReads == ReadLine /\ Arduino
TimesOut == SortTimeout /\ Arduino

Fairness ==
  /\ WF_vars(Controls)
  /\ WF_vars(ArduinoReads)
  /\ WF_vars(TimesOut)
  /\ WF_vars(Server)

Spec == Init /\ [][Next]_vars /\ Fairness
----------------------------------------------------------------------------
(* Invariants.                                                             *)

(* The servo sweeps only under a finger: in MODE_SWEEP the screen is       *)
(* touched and the pressed button is a sweep button, so the release that   *)
(* ends the sweep (main.c:357-361) is still to come.                       *)
SweepHeld ==
  curr_mode = "SWEEP" => prev_ts_state = "touched" /\ curr_btn \in SweepBtns

(* boxes[curr_btn] is never indexed by -1 where the release of STOP        *)
(* (main.c:370) and the end of a sort (main.c:403) redraw the button.      *)
RedrawsStop ==
  /\ pc = "touch" /\ Changed /\ ts_state = "untouched"
  /\ curr_btn \notin SweepBtns /\ stop_btn_pressed
RedrawsAutoSort == pc = "sort" /\ curr_sort = "ARD_READY" /\ ard_buff = <<"dn">>
BoxIndexInRange == RedrawsStop \/ RedrawsAutoSort => curr_btn >= 0

(* objects[category_scanned - 1] is one of the four objects when it is     *)
(* counted, whatever messages moved the sort there (main.c:173).           *)
CategoryKnown == curr_sort = "IMG_READY" => category_scanned \in Bin

(* Once the board has read everything sent to it and is back in loop(),    *)
(* the belt does not run in MODE_IDLE: no order of STOP, the end of the    *)
(* board's own sort and the split of a command between autoSort() and      *)
(* loop() leaves it on.                                                    *)
BeltOffWhenIdle ==
  curr_mode = "IDLE" /\ toArduino = <<>> /\ ard_pc = "loop" => ~belt

(* An override that has reached the board is in force: the belt runs and   *)
(* the servo is at the bin of the pressed button (main.c:325-341).         *)
OverrideInForce ==
  curr_mode = "OVERRIDE" /\ toArduino = <<>> /\ ard_pc = "loop" =>
    belt /\ servoPos = Angle[BinPosition[curr_btn - 3]]

(* While the board waits for the next object of a session, the arm is      *)
(* still where the last counted object had to go (main.c:180-189).         *)
ArmAtCountedBin ==
  /\ curr_mode = "AUTO_SORT" /\ curr_sort = "ARD_WAIT" /\ ard_pc = "autoSort"
  /\ count # NoCount
  => servoPos = Angle[BinPosition[category_scanned]]

(* Every count stands for a broken beam of its own: however retries, late  *)
(* answers, stops and new sessions interleave, the objects counted and     *)
(* those still on their way from the board through handle_arduino, the     *)
(* server and handle_rpi are not more than the objects detected.           *)
Occurrences(line, words) == Cardinality({i \in DOMAIN line : line[i] \in words})
Once(condition) == IF condition THEN 1 ELSE 0
Captures == [type : {"capture"}, val : Nat]
Answers == [type : {"cat", "retry"}, val : Nat]
OnTheWay ==
  Occurrences(fromArduino, {"ls"}) + Occurrences(ard_buff, {"ls"})
    + Occurrences(toRpi, Captures)
    + Occurrences(fromRpi, Answers) + Once(rpi_buff \in Answers)
    + Once(curr_sort \in {"CAM_READY", "IMG_READY"})
Detected == MaxObjects - left.objects
Counted == count[1] + count[2] + count[3] + count[4]
NoObjectCountedTwice == Counted + OnTheWay <= Detected

(* Step by step: no message turns a lost or counted object into one under  *)
(* way, one step counts at most one, and only a new session takes counts   *)
(* back (main.c:170-190, 389-441, 467-474).                                *)
Ledger == INSTANCE ObjectLedger
            WITH seen <- Detected, pending <- OnTheWay, counted <- Counted
ObjectsAccounted == Ledger!Spec

----------------------------------------------------------------------------
(* Action properties.                                                      *)

(* handle_arduino obeys the reply that has just arrived: "ls" leads to the *)
(* camera, "dn" ends the session (main.c:382-388).                         *)
ReplyObeyed ==
  [][HandleArduino => LET reply == ard_buff[Len(ard_buff)]
                      IN  IF reply = "ls" THEN curr_sort' = "CAM_READY"
                                          ELSE curr_mode' = "IDLE"]_vars

(* autoSort() understands every STOP it reads (main.ino:149-160).          *)
StopUnderstood ==
  [][SortRead /\ Head(toArduino) = CR =>
       LET n == Len(sortBuffer)
       IN  n < 2 \/ SubSeq(sortBuffer, n - 1, n) # <<"cv:", "0">>]_vars

(* As the server sees them, sessions do not nest: after "init" there is a  *)
(* "done" before the next "init" (main.c:153, 399, 492).                   *)
SessionsDoNotNest == [][OpenSession => ~sessionOpen]_vars

(* A "done" ends a session that is open: none is sent twice, none without  *)
(* an "init" (main.c:399, 492).                                            *)
DoneClosesSession == [][CloseSession => sessionOpen]_vars

(* The "done" of a session carries the cycle id the server gave it, as it  *)
(* must for the server to save the end of that cycle (main.c:397).         *)
DoneNamesItsCycle == [][CloseSession => Head(toRpi).val = lastCycle]_vars

(* A cycle begins only within a session the server has opened: the message *)
(* that initializes the sort is never skipped (main.c:151-160).            *)
CycleInSession == [][BeginCycle => sessionOpen]_vars

(* A cycle begins only when no other can answer for it: the board is not   *)
(* in autoSort(), nor on its way there, and has no reply under way.        *)
BoardFreeAtBegin ==
  [][BeginCycle => /\ ard_pc # "autoSort"
                   /\ fromArduino = <<>>
                   /\ \A i \in DOMAIN (mainBuffer \o toArduino) :
                        (mainBuffer \o toArduino)[i] # "as:"]_vars

----------------------------------------------------------------------------
(* Liveness.                                                               *)

(* The servo does not sweep on after the finger is lifted (main.c:357).    *)
SweepStops == Sweeping /\ finger = "up" ~> ~Sweeping \/ finger = "down"

(* In MODE_IDLE the belt comes to rest, unless a new order is given: by    *)
(* the STOP the board reads or by its timeout.                             *)
BeltStops == curr_mode = "IDLE" ~> ~belt \/ curr_mode # "IDLE"

(* The controller does not wait for the board for ever: "as:1" starts the  *)
(* sort on the Arduino (arduino.c:19-25), which ends with a reply, or the  *)
(* session is stopped.                                                     *)
WaitsForBoard == curr_mode = "AUTO_SORT" /\ curr_sort = "ARD_WAIT"
ArduinoAnswers == WaitsForBoard ~> ~WaitsForBoard
============================================================================
