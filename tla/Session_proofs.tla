---------------------------- MODULE Session_proofs ----------------------------
(***************************************************************************)
(* Sessions of the sorting line do not nest as the server sees them, for   *)
(* any use of the touch screen, as long as there is no remote control.     *)
(***************************************************************************)
EXTENDS SortingSystem_proofs

----------------------------------------------------------------------------
(* A session is open at place i of a line when what opened it, a message   *)
(* before i or the state before the line, has no "done" after it.          *)

OpenAt(line, open, i) ==
  \/ \E j \in 1..(i - 1) :
       line[j].type = "init" /\ \A k \in (j + 1)..(i - 1) : line[k].type # "done"
  \/ open /\ \A k \in 1..(i - 1) : line[k].type # "done"

OpenAtEnd(line, open) == OpenAt(line, open, Len(line) + 1)

Alternates(line, open) ==
  \A i \in 1..Len(line) : line[i].type = "init" => ~OpenAt(line, open, i)

LEMMA OpenAtSame ==
  ASSUME NEW line, NEW other, NEW open, NEW i \in Nat,
         \A k \in 1..(i - 1) : other[k] = line[k]
  PROVE  OpenAt(other, open, i) <=> OpenAt(line, open, i)
BY DEF OpenAt

LEMMA OpenNext ==
  ASSUME NEW line, NEW open, NEW i \in Nat \ {0}
  PROVE  OpenAt(line, open, i + 1) <=>
           \/ line[i].type = "init"
           \/ OpenAt(line, open, i) /\ line[i].type # "done"
<1>1. 1..((i + 1) - 1) = 1..(i - 1) \cup {i}
  OBVIOUS
<1>2. \A j \in 1..(i - 1) : (j + 1)..((i + 1) - 1) = (j + 1)..(i - 1) \cup {i}
  OBVIOUS
<1>3. (i + 1)..((i + 1) - 1) = {}
  OBVIOUS
<1>. QED BY <1>1, <1>2, <1>3, Zenon DEF OpenAt

(* A message that opens is sent only when nothing is open.                 *)
LEMMA Sent ==
  ASSUME NEW S, NEW line \in Seq(S), NEW msg \in S, NEW open,
         Alternates(line, open), msg.type = "init" => ~OpenAtEnd(line, open)
  PROVE  /\ Alternates(Append(line, msg), open)
         /\ OpenAtEnd(Append(line, msg), open) <=>
              \/ msg.type = "init"
              \/ OpenAtEnd(line, open) /\ msg.type # "done"
<1>. DEFINE longer == Append(line, msg)
            n == Len(line)
<1>1. /\ n \in Nat /\ Len(longer) = n + 1 /\ longer[n + 1] = msg
      /\ \A k \in 1..n : longer[k] = line[k]
  BY AppendProperties, LenProperties
<1>. HIDE DEF longer, n
<1>2. \A i \in 1..(n + 1) : OpenAt(longer, open, i) <=> OpenAt(line, open, i)
  <2>1. ASSUME NEW i \in 1..(n + 1)
        PROVE  OpenAt(longer, open, i) <=> OpenAt(line, open, i)
    <3>1. i \in Nat /\ \A k \in 1..(i - 1) : longer[k] = line[k]
      BY <1>1
    <3>. QED BY <3>1, OpenAtSame
  <2>. QED BY <2>1
<1>3. ASSUME NEW i \in 1..(n + 1), longer[i].type = "init"
      PROVE  ~OpenAt(longer, open, i)
  <2>1. CASE i = n + 1
    BY <1>1, <1>2, <1>3, <2>1 DEF OpenAtEnd, n
  <2>2. CASE i \in 1..n
    BY <1>1, <1>2, <1>3, <2>2 DEF Alternates, n
  <2>. QED BY <1>1, <2>1, <2>2
<1>4. OpenAt(longer, open, (n + 1) + 1) <=>
        \/ msg.type = "init"
        \/ OpenAt(line, open, n + 1) /\ msg.type # "done"
  <2>1. n + 1 \in Nat \ {0} /\ n + 1 \in 1..(n + 1)
    BY <1>1
  <2>. QED BY <1>1, <1>2, <2>1, OpenNext
<1>. QED BY <1>1, <1>3, <1>4 DEF Alternates, OpenAtEnd, longer, n

(* Taking the first message moves what it does into the state.             *)
LEMMA Taken ==
  ASSUME NEW S, NEW line \in Seq(S), line # <<>>, NEW open \in BOOLEAN,
         NEW open1 \in BOOLEAN, Alternates(line, open),
         open1 <=> \/ Head(line).type = "init"
                   \/ open /\ Head(line).type # "done"
  PROVE  /\ Alternates(Tail(line), open1)
         /\ OpenAtEnd(Tail(line), open1) <=> OpenAtEnd(line, open)
         /\ Head(line).type = "init" => ~open
<1>. DEFINE rest == Tail(line)
            n == Len(line)
<1>1. /\ n \in Nat /\ n > 0 /\ Len(rest) = n - 1
      /\ \A k \in 1..(n - 1) : rest[k] = line[k + 1]
      /\ Head(line) = line[1]
  BY HeadTailProperties, LenProperties, EmptySeq
<1>. HIDE DEF rest, n
<1>2. \A i \in 1..n : OpenAt(rest, open1, i) <=> OpenAt(line, open, i + 1)
  <2>1. ASSUME NEW i \in 1..n
        PROVE  OpenAt(rest, open1, i) <=> OpenAt(line, open, i + 1)
    <3>1. /\ i \in Nat /\ (i + 1) - 1 = i /\ 1 \in 1..i
          /\ \A k \in 1..(i - 1) : rest[k] = line[k + 1] /\ k + 1 \in 1..i
          /\ \A k \in 2..i : k - 1 \in 1..(i - 1) /\ rest[k - 1] = line[k]
          /\ 1..i = {1} \cup 2..i
      BY <1>1
    <3>2. (\A k \in 1..(i - 1) : rest[k].type # "done")
            <=> (\A k \in 2..i : line[k].type # "done")
      <4>1. \A k \in 1..(i - 1) : k + 1 \in 2..i /\ rest[k] = line[k + 1]
        BY <3>1
      <4>2. \A k \in 2..i : k - 1 \in 1..(i - 1) /\ rest[k - 1] = line[k]
        BY <3>1
      <4>. QED BY <4>1, <4>2
    <3>3. ASSUME NEW j \in 1..(i - 1)
          PROVE  (\A k \in (j + 1)..(i - 1) : rest[k].type # "done")
                   <=> (\A k \in ((j + 1) + 1)..i : line[k].type # "done")
      <4>1. /\ \A k \in (j + 1)..(i - 1) : rest[k] = line[k + 1]
                                            /\ k + 1 \in ((j + 1) + 1)..i
            /\ \A k \in ((j + 1) + 1)..i : k - 1 \in (j + 1)..(i - 1)
                                            /\ rest[k - 1] = line[k]
        BY <3>1
      <4>. QED BY <4>1
    <3>4. (\E j \in 1..(i - 1) : rest[j].type = "init"
             /\ \A k \in (j + 1)..(i - 1) : rest[k].type # "done")
          <=> (\E j \in 2..i : line[j].type = "init"
                 /\ \A k \in (j + 1)..i : line[k].type # "done")
      <4>1. \A j \in 1..(i - 1) : j + 1 \in 2..i /\ rest[j] = line[j + 1]
        BY <3>1
      <4>2. \A j \in 2..i : j - 1 \in 1..(i - 1) /\ (j - 1) + 1 = j
        OBVIOUS
      <4>. QED BY <3>3, <4>1, <4>2
    <3>5. OpenAt(rest, open1, i) <=>
            \/ \E j \in 2..i : line[j].type = "init"
                 /\ \A k \in (j + 1)..i : line[k].type # "done"
            \/ open1 /\ \A k \in 2..i : line[k].type # "done"
      BY <3>2, <3>4 DEF OpenAt
    <3>6. OpenAt(line, open, i + 1) <=>
            \/ \E j \in 2..i : line[j].type = "init"
                 /\ \A k \in (j + 1)..i : line[k].type # "done"
            \/ line[1].type = "init" /\ \A k \in 2..i : line[k].type # "done"
            \/ open /\ line[1].type # "done" /\ \A k \in 2..i : line[k].type # "done"
      <4>1. 1 + 1 = 2
        OBVIOUS
      <4>. QED BY <3>1, <4>1, Zenon DEF OpenAt
    <3>. QED BY <1>1, <3>5, <3>6
  <2>. QED BY <2>1
<1>3. ASSUME NEW i \in 1..(n - 1), rest[i].type = "init"
      PROVE  ~OpenAt(rest, open1, i)
  <2>1. i \in 1..n /\ i + 1 \in 1..n /\ line[i + 1].type = "init"
    BY <1>1, <1>3
  <2>. QED BY <1>2, <2>1 DEF Alternates, n
<1>4. OpenAtEnd(rest, open1) <=> OpenAtEnd(line, open)
  <2>1. n \in 1..n /\ (n - 1) + 1 = n
    BY <1>1
  <2>. QED BY <1>1, <1>2, <2>1 DEF OpenAtEnd, n
<1>5. Head(line).type = "init" => ~open
  <2>1. 1 \in 1..n /\ 1..(1 - 1) = {}
    BY <1>1
  <2>2. open => OpenAt(line, open, 1)
    BY <2>1 DEF OpenAt
  <2>. QED BY <1>1, <2>1, <2>2 DEF Alternates, n
<1>. QED BY <1>1, <1>3, <1>4, <1>5 DEF Alternates, rest

----------------------------------------------------------------------------
(* What the server will have seen when it has read the line: nothing is    *)
(* opened twice, and what is open is the session the controller is in and  *)
(* has already asked for.                                                  *)

InitsAlternate == Alternates(toRpi, sessionOpen)
EndInSession ==
  OpenAtEnd(toRpi, sessionOpen) => curr_mode = "AUTO_SORT" /\ curr_sort # "INIT"

SessionInv == InitsAlternate /\ EndInSession

LEMMA SessionInit == Init => SessionInv
BY DEF Init, LinksInit, SessionInv, InitsAlternate, EndInSession, Alternates, OpenAtEnd,
       OpenAt

(* A message that does not open, sent or not.                              *)
LEMMA NothingOpened ==
  ASSUME TypeInv, SessionInv, UNCHANGED sessionOpen, NEW msg \in UplinkMsg,
         msg.type # "init", UNCHANGED toRpi \/ SendRpi(msg)
  PROVE  /\ InitsAlternate'
         /\ OpenAtEnd(toRpi, sessionOpen)' => OpenAtEnd(toRpi, sessionOpen)
         /\ SendRpi(msg) /\ msg.type = "done" => ~OpenAtEnd(toRpi, sessionOpen)'
<1>1. toRpi \in Seq(UplinkMsg)
  BY DEF TypeInv, TypeOK, LinksTypeOK
<1>2. /\ Alternates(Append(toRpi, msg), sessionOpen)
      /\ OpenAtEnd(Append(toRpi, msg), sessionOpen) <=>
           OpenAtEnd(toRpi, sessionOpen) /\ msg.type # "done"
  BY <1>1, Sent DEF SessionInv, InitsAlternate
<1>3. CASE SendRpi(msg)
  BY <1>2, <1>3 DEF SendRpi, InitsAlternate
<1>4. CASE UNCHANGED toRpi /\ ~SendRpi(msg)
  BY <1>4 DEF SessionInv, InitsAlternate
<1>. QED BY <1>3, <1>4

LEMMA DoneType ==
  ASSUME TypeInv
  PROVE  DoneMsg(cycle_id) \in UplinkMsg /\ DoneMsg(cycle_id).type = "done"
BY DEF DoneMsg, UplinkMsg, TypeInv, TypeOK, ControllerTypeOK

(* EnterIdle closes what is open.                                          *)
LEMMA IdleCloses ==
  ASSUME TypeInv, SessionInv, UNCHANGED sessionOpen, EnterIdle
  PROVE  SessionInv'
<1>1. UNCHANGED toRpi \/ SendRpi(DoneMsg(cycle_id))
  BY DEF EnterIdle
<1>2. CASE curr_mode = "AUTO_SORT"
  <2>1. SendRpi(DoneMsg(cycle_id))
    BY <1>2 DEF EnterIdle
  <2>. QED BY <2>1, DoneType, NothingOpened DEF SessionInv, EndInSession
<1>3. CASE curr_mode # "AUTO_SORT"
  <2>1. ~OpenAtEnd(toRpi, sessionOpen)
    BY <1>3 DEF SessionInv, EndInSession
  <2>. QED BY <1>1, <2>1, DoneType, NothingOpened DEF SessionInv, EndInSession
<1>. QED BY <1>2, <1>3

(* A step that sends nothing and neither leaves a session nor starts one.  *)
LEMMA LineUnchanged ==
  ASSUME SessionInv, UNCHANGED <<toRpi, sessionOpen>>,
         \/ curr_mode # "AUTO_SORT"
         \/ UNCHANGED curr_mode /\ (UNCHANGED curr_sort \/ curr_sort' # "INIT")
  PROVE  SessionInv'
BY DEF SessionInv, InitsAlternate, EndInSession

LEMMA SessionTouch ==
  ASSUME TypeInv, SessionInv, UNCHANGED sessionOpen, TouchHandler
  PROVE  SessionInv'
<1>1. CASE PressStop
  BY <1>1, IdleCloses DEF PressStop
<1>2. CASE TouchUnchanged \/ PressNothing
  BY <1>2, LineUnchanged DEF TouchUnchanged, PressNothing
<1>3. CASE PressAutoSort \/ PressSweep \/ PressPosition
  BY <1>3, LineUnchanged
     DEF PressAutoSort, PressSweep, PressPosition, EnterAutoSort, EnterSweep,
         EnterOverride
<1>4. CASE Release
  BY <1>4, LineUnchanged DEF Release, EndSweep
<1>. QED BY <1>1, <1>2, <1>3, <1>4 DEF TouchHandler

LEMMA SessionSort ==
  ASSUME TypeInv, SortPlace, SessionInv, UNCHANGED sessionOpen, AutoSort
  PROVE  SessionInv'
<1>1. CASE InitializeAutosort
  <2>1. /\ SendRpi(InitMsg) /\ curr_sort = "INIT" /\ curr_sort' # "INIT"
        /\ curr_mode' = "AUTO_SORT"
    BY <1>1 DEF InitializeAutosort, SortStep, SortPlace
  <2>2. toRpi \in Seq(UplinkMsg) /\ InitMsg \in UplinkMsg
    BY UplinkType DEF TypeInv, TypeOK, LinksTypeOK
  <2>3. ~OpenAtEnd(toRpi, sessionOpen)
    BY <2>1 DEF SessionInv, EndInSession
  <2>4. InitsAlternate'
    BY <2>1, <2>2, <2>3, Sent DEF SessionInv, InitsAlternate, SendRpi
  <2>. QED BY <2>1, <2>4 DEF SessionInv, EndInSession
<1>2. CASE BeginCycle \/ ObjectReady \/ ReplyNotUnderstood \/ CountObject
  BY <1>2, LineUnchanged
     DEF BeginCycle, ObjectReady, ReplyNotUnderstood, CountObject, HandleArduino, SortStep
<1>3. CASE CycleTimedOut
  BY <1>3, DoneType, NothingOpened DEF CycleTimedOut, SessionInv, EndInSession
<1>4. CASE CaptureImage
  <2>1. /\ SendRpi(CaptureMsg) /\ curr_sort # "INIT" /\ curr_sort' # "INIT"
        /\ UNCHANGED curr_mode
    BY <1>4 DEF CaptureImage, SortStep
  <2>2. CaptureMsg \in UplinkMsg /\ CaptureMsg.type # "init"
    BY DEF CaptureMsg, UplinkMsg
  <2>. QED BY <2>1, <2>2, NothingOpened DEF SessionInv, EndInSession
<1>. QED BY <1>1, <1>2, <1>3, <1>4 DEF AutoSort

LEMMA SessionController ==
  ASSUME TypeInv, ButtonInv, SessionInv, UNCHANGED sessionOpen, ControllerNext
  PROVE  SessionInv'
<1>1. CASE Poll
  BY <1>1, LineUnchanged DEF Poll, PollArduino
<1>2. CASE TouchHandler
  BY <1>2, SessionTouch
<1>3. CASE RpiHandler
  <2>1. rpi_buff.type \notin Remote
    BY <1>3 DEF ButtonInv, OnlyAnswers, AnswerMsg, NoMsg, Remote
  <2>2. ReceiveCycleId \/ ReceiveRetry \/ ReceiveCategory
    BY <1>3, <2>1 DEF RpiHandler, RemoteAutoSort, RemoteStop, RemotePosition, Received,
                      Remote
  <2>. QED
    BY <2>2, LineUnchanged DEF ReceiveCycleId, ReceiveRetry, ReceiveCategory
<1>4. CASE AutoSort
  BY <1>4, SessionSort DEF ButtonInv
<1>. QED BY <1>1, <1>2, <1>3, <1>4 DEF ControllerNext

(* The server reads a message: the state it is in moves on with it.        *)
LEMMA SessionServer ==
  ASSUME TypeInv, SessionInv, Server
  PROVE  SessionInv' /\ (OpenSession => ~sessionOpen)
<1>1. /\ toRpi \in Seq(UplinkMsg) /\ toRpi # <<>> /\ toRpi' = Tail(toRpi)
      /\ UNCHANGED <<curr_mode, curr_sort>>
      /\ sessionOpen \in BOOLEAN /\ sessionOpen' \in BOOLEAN
  BY DEF Server, OpenSession, CloseSession, Classify, AskAgain, ServerStep,
         controllerVars, TypeInv, TypeOK, LinksTypeOK
<1>2. sessionOpen' <=>
        \/ Head(toRpi).type = "init"
        \/ sessionOpen /\ Head(toRpi).type # "done"
  BY DEF Server, OpenSession, CloseSession, Classify, AskAgain, ServerStep
<1>3. /\ Alternates(Tail(toRpi), sessionOpen')
      /\ OpenAtEnd(Tail(toRpi), sessionOpen') <=> OpenAtEnd(toRpi, sessionOpen)
      /\ Head(toRpi).type = "init" => ~sessionOpen
  BY <1>1, <1>2, Taken DEF SessionInv, InitsAlternate
<1>. QED
  BY <1>1, <1>3 DEF SessionInv, InitsAlternate, EndInSession, OpenSession, ServerStep

LEMMA SessionStep ==
  ASSUME TypeInv, ButtonInv, SessionInv, [Next]_vars
  PROVE  SessionInv' /\ (OpenSession => ~sessionOpen)
<1>1. SessionInv'
  <2>1. CASE Controls
    BY <2>1, SessionController DEF Controls, envVars
  <2>2. CASE Server
    BY <2>2, SessionServer
  <2>3. CASE Arduino \/ Operator \/ RemoteControl
    <3>1. UNCHANGED <<toRpi, sessionOpen, controllerVars>>
      BY <2>3 DEF Arduino, Operator, FingerUp, FingerDown, FingerDrag, SendPacket,
                  RemoteControl
    <3>. QED BY <3>1, LineUnchanged DEF controllerVars
  <2>4. CASE UNCHANGED vars
    BY <2>4, LineUnchanged DEF vars, links, controllerVars, envVars
  <2>. QED BY <2>1, <2>2, <2>3, <2>4 DEF Next
<1>2. OpenSession => ~sessionOpen
  BY SessionServer DEF Server
<1>. QED BY <1>1, <1>2

(* After an "init" the server sees a "done" before the next "init",        *)
(* however the operator and the answers of stopped sessions interleave.    *)
THEOREM SessionsAreSeparate ==
  ASSUME RemoteCmds = {}
  PROVE  Spec => SessionsDoNotNest
<1>1. Init => ButtonInv
  BY ButtonInit
<1>2. ButtonInv /\ TypeInv /\ [Next]_vars => ButtonInv'
  BY ButtonStep
<1>3. TypeInv /\ ButtonInv /\ SessionInv /\ [Next]_vars
        => SessionInv' /\ [OpenSession => ~sessionOpen]_vars
  BY SessionStep
<1>. QED
  BY <1>1, <1>2, <1>3, SessionInit, TypeInit, TypeStep, PTL DEF Spec, SessionsDoNotNest

===============================================================================
