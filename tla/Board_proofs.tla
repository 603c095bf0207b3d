---------------------------- MODULE Board_proofs ----------------------------
(***************************************************************************)
(* What is on the line to the board and what the board does with it, when  *)
(* the operator is patient and there is no remote control: in each mode of *)
(* the controller the commands not yet run are among a few sequences, and  *)
(* the arm, the belt and the routine the firmware is in fit them.  The     *)
(* steps of the firmware keep that.                                        *)
(***************************************************************************)
EXTENDS SortingSystem_proofs

----------------------------------------------------------------------------
(* What the board has not yet run: the command that loop() gathers in      *)
(* mainBuffer and what is still on its line.                               *)
Unread == mainBuffer \o toArduino
Cmd(prefix, arg) == <<prefix, arg, CR>>

LEMMA CmdType ==
  ASSUME NEW p \in Prefix, NEW a \in Argument
  PROVE  /\ Cmd(p, a) \in Seq(Token) /\ Len(Cmd(p, a)) = 3
         /\ Cmd(p, a)[1] = p /\ Cmd(p, a)[2] = a /\ Cmd(p, a)[3] = CR
         /\ p # CR /\ a # CR /\ p \in Token /\ a \in Token /\ CR \in Token
<1>1. p \in Token /\ a \in Token /\ CR \in Token
  BY DEF Token
<1>2. p # CR /\ a # CR
  BY DEF Prefix, Argument, CR
<1>. QED BY <1>1, <1>2, ThreeTokens DEF Cmd

(* loop() moves what it reads from the line to mainBuffer: what it has not *)
(* run stays the same.                                                     *)
LEMMA HeadAndTail ==
  ASSUME NEW S, NEW t \in Seq(S), t # <<>>
  PROVE  /\ Head(t) \in S /\ Tail(t) \in Seq(S)
         /\ t = <<Head(t)>> \o Tail(t)
<1>1. Head(t) \in S /\ Tail(t) \in Seq(S) /\ t[1] = Head(t)
  BY HeadTailProperties
<1>2. Len(t) \in Nat \ {0}
  BY EmptySeq
<1>3. SubSeq(t, 1, Len(t)) = <<t[1]>> \o SubSeq(t, 1 + 1, Len(t))
  <2>1. 1 \in 1..Len(t) /\ Len(t) \in 1..Len(t)
    BY <1>2
  <2>. QED BY <2>1, SubSeqRecursiveFirst
<1>4. SubSeq(t, 1, Len(t)) = t /\ SubSeq(t, 1 + 1, Len(t)) = Tail(t)
  <2>1. 1 + 1 = 2
    OBVIOUS
  <2>. QED BY <2>1, SubSeqFull, TailIsSubSeq
<1>. QED BY <1>1, <1>3, <1>4, Zenon

LEMMA Moved ==
  ASSUME NEW m \in Seq(Token), NEW t \in Seq(Token), t # <<>>
  PROVE  Append(m, Head(t)) \o Tail(t) = m \o t
<1>. DEFINE h == Head(t)
            t1 == Tail(t)
<1>1. h \in Token /\ t1 \in Seq(Token) /\ t = <<h>> \o t1
  BY HeadAndTail
<1>. HIDE DEF h, t1
<1>2. Append(m, h) = m \o <<h>> /\ <<h>> \in Seq(Token)
  BY <1>1, AppendIsConcat
<1>3. (m \o <<h>>) \o t1 = m \o (<<h>> \o t1)
  BY <1>1, <1>2, ConcatAssociative
<1>. QED BY <1>1, <1>2, <1>3, Zenon DEF h, t1

(* When a carriage return comes, exactly the elements before it have been  *)
(* gathered: the first one of what was unread is the one that came.        *)
LEMMA Gathered ==
  ASSUME NEW m \in Seq(Token), NEW t \in Seq(Token), t # <<>>, Head(t) = CR,
         \A i \in 1..Len(m) : m[i] # CR,
         NEW k \in Nat \ {0}, k <= Len(m \o t), (m \o t)[k] = CR,
         \A i \in 1..(k - 1) : (m \o t)[i] # CR
  PROVE  /\ Len(m) = k - 1
         /\ \A i \in 1..(k - 1) : m[i] = (m \o t)[i]
         /\ Tail(t) \in Seq(Token)
         /\ Len(Tail(t)) = Len(m \o t) - k
         /\ \A i \in 1..(Len(m \o t) - k) : Tail(t)[i] = (m \o t)[k + i]
<1>1. Tail(t) \in Seq(Token) /\ Len(Tail(t)) = Len(t) - 1
      /\ \A i \in 1..Len(Tail(t)) : Tail(t)[i] = t[i + 1]
  BY HeadTailProperties
<1>2. t[1] = CR /\ Len(t) \in Nat /\ Len(t) # 0 /\ Len(m) \in Nat
  BY EmptySeq, LenProperties
<1>3. Len(m \o t) = Len(m) + Len(t)
      /\ \A i \in 1..Len(m) + Len(t) : (m \o t)[i] =
           IF i <= Len(m) THEN m[i] ELSE t[i - Len(m)]
  BY ConcatProperties
<1>. DEFINE q == m \o t
            t1 == Tail(t)
<1>4. Len(q) = Len(m) + Len(t)
      /\ (\A i \in 1..Len(m) + Len(t) : q[i] =
           IF i <= Len(m) THEN m[i] ELSE t[i - Len(m)])
      /\ k <= Len(q) /\ q[k] = CR /\ \A i \in 1..(k - 1) : q[i] # CR
  BY <1>3
<1>5. t1 \in Seq(Token) /\ Len(t1) = Len(t) - 1 /\ \A i \in 1..Len(t1) : t1[i] = t[i + 1]
  BY <1>1
<1>. HIDE DEF q, t1
<1>6. q[Len(m) + 1] = CR
  BY <1>2, <1>4
<1>7. ~(k <= Len(m))
  BY <1>2, <1>4
<1>8. ~(k > Len(m) + 1)
  BY <1>2, <1>4, <1>6
<1>9. Len(m) = k - 1
  BY <1>2, <1>7, <1>8
<1>10. \A i \in 1..(k - 1) : m[i] = q[i]
  BY <1>2, <1>4, <1>9
<1>11. \A i \in 1..(Len(q) - k) : t1[i] = q[k + i]
  BY <1>2, <1>4, <1>5, <1>9
<1>12. Len(t1) = Len(q) - k
  BY <1>2, <1>4, <1>5, <1>9
<1>. QED BY <1>5, <1>9, <1>10, <1>11, <1>12 DEF q, t1

(* The line shows the end of what mainBuffer gathered: it is the first of  *)
(* the commands not yet run.                                               *)
Complete(m, t) == t # <<>> /\ Head(t) = CR /\ \A i \in 1..Len(m) : m[i] # CR

LEMMA FirstGathered ==
  ASSUME NEW m \in Seq(Token), NEW t \in Seq(Token),
         NEW p \in Prefix, NEW a \in Argument, NEW rest \in Seq(Token),
         Complete(m, t), m \o t = Cmd(p, a) \o rest
  PROVE  m = <<p, a>> /\ Tail(t) = rest
<1>. USE DEF Complete
<1>. DEFINE q == m \o t
            t1 == Tail(t)
<1>1. Len(q) = 3 + Len(rest) /\ Len(rest) \in Nat
      /\ q[1] = p /\ q[2] = a /\ q[3] = CR
      /\ \A i \in 1..Len(rest) : q[3 + i] = rest[i]
  <2>. DEFINE c == Cmd(p, a)
  <2>1. c \in Seq(Token) /\ Len(c) = 3 /\ c[1] = p /\ c[2] = a /\ c[3] = CR
    BY CmdType
  <2>2. Len(rest) \in Nat /\ q = c \o rest
    BY LenProperties
  <2>. HIDE DEF q, c
  <2>3. /\ Len(q) = Len(c) + Len(rest)
        /\ \A i \in 1..Len(c) + Len(rest) : q[i] =
             IF i <= Len(c) THEN c[i] ELSE rest[i - Len(c)]
    BY <2>1, <2>2, ConcatProperties
  <2>4. q[1] = p /\ q[2] = a /\ q[3] = CR
    BY <2>1, <2>2, <2>3
  <2>5. ASSUME NEW i \in 1..Len(rest) PROVE q[3 + i] = rest[i]
    <3>1. 3 + i \in 1..3 + Len(rest) /\ ~(3 + i <= 3) /\ (3 + i) - 3 = i
      BY <2>2
    <3>. QED BY <2>1, <2>3, <3>1
  <2>. QED BY <2>1, <2>2, <2>3, <2>4, <2>5
<1>. HIDE DEF q, t1
<1>2. \A i \in 1..(3 - 1) : q[i] # CR
  BY <1>1, CmdType
<1>3. /\ Len(m) = 3 - 1
      /\ \A i \in 1..(3 - 1) : m[i] = q[i]
      /\ t1 \in Seq(Token)
      /\ Len(t1) = Len(q) - 3
      /\ \A i \in 1..(Len(q) - 3) : t1[i] = q[3 + i]
  <2>1. 3 \in Nat \ {0} /\ 3 <= Len(m \o t) /\ (m \o t)[3] = CR
        /\ \A i \in 1..(3 - 1) : (m \o t)[i] # CR
    BY <1>1, <1>2 DEF q
  <2>. QED BY <2>1, Gathered, Zenon DEF q, t1
<1>4. m = <<p, a>>
  <2>1. Len(m) = 2 /\ m[1] = p /\ m[2] = a
    BY <1>1, <1>3
  <2>2. p \in Token /\ a \in Token
    BY CmdType
  <2>3. <<p, a>> \in Seq(Token) /\ Len(<<p, a>>) = 2 /\ <<p, a>>[1] = p /\ <<p, a>>[2] = a
    BY <2>2
  <2>4. \A i \in 1..Len(m) : m[i] = <<p, a>>[i]
    BY <2>1
  <2>. QED BY <2>1, <2>3, <2>4, SeqEqual
<1>5. t1 = rest
  <2>1. Len(t1) = Len(rest) /\ \A i \in 1..Len(t1) : t1[i] = rest[i]
    BY <1>1, <1>3
  <2>. QED BY <1>3, <2>1, SeqEqual
<1>. QED BY <1>4, <1>5 DEF t1

----------------------------------------------------------------------------
(* The commands of the controller, each with the prefix the board looks for. *)
BeltOn == ConveyorCmd("ON")
BeltOff == ConveyorCmd("OFF")
Servo(b) == SetServoCmd(BinPosition[b])
Turns == {"cw:", "ccw:"}

LEMMA Commands ==
  /\ BeltOn = Cmd("cv:", "1")
  /\ BeltOff = Cmd("cv:", "0")
  /\ AutoSortCmd = Cmd("as:", "1")
  /\ \A b \in Bin : Servo(b) = Cmd("s:", BinPosition[b])
  /\ SweepCmd("CW") = Cmd("cw:", "1") /\ SweepCmd("CCW") = Cmd("ccw:", "1")
  /\ SweepCmd("STOP") = <<CR>>
BY DEF BeltOn, BeltOff, ConveyorCmd, AutoSortCmd, Servo, SetServoCmd, SweepCmd, Cmd

(* What loop() has gathered when autoSort() has read the first elements of *)
(* a command and left the others to it.                                    *)
LEMMA PartGathered ==
  ASSUME NEW m \in Seq(Token), NEW t \in Seq(Token), Complete(m, t)
  PROVE  /\ m \o t = <<"0", CR>> => m = <<"0">> /\ Tail(t) = <<>>
         /\ m \o t = <<CR>> => m = <<>> /\ Tail(t) = <<>>
<1>. USE DEF Complete
<1>. DEFINE t1 == Tail(t)
<1>1. "0" # CR /\ "0" \in Token /\ CR \in Token
  BY DEF CR, Token, Argument
<1>2. ASSUME m \o t = <<"0", CR>> PROVE m = <<"0">> /\ t1 = <<>>
  <2>1. 2 \in Nat \ {0} /\ 2 <= Len(m \o t) /\ (m \o t)[2] = CR /\ (m \o t)[1] = "0"
        /\ Len(m \o t) = 2
    BY <1>2
  <2>2. \A i \in 1..(2 - 1) : (m \o t)[i] # CR
    BY <1>1, <2>1
  <2>3. /\ Len(m) = 2 - 1
        /\ \A i \in 1..(2 - 1) : m[i] = (m \o t)[i]
        /\ t1 \in Seq(Token)
        /\ Len(t1) = Len(m \o t) - 2
    <3>1. /\ 2 <= Len(m \o t) /\ (m \o t)[2] = CR
          /\ \A i \in 1..(2 - 1) : (m \o t)[i] # CR
      BY <2>1, <2>2
    <3>2. 2 \in Nat \ {0}
      OBVIOUS
    <3>3. Len(m) = 2 - 1
      BY <3>1, <3>2, Gathered, Zenon
    <3>5. Len(t1) = Len(m \o t) - 2
      BY <3>1, <3>2, Gathered, Zenon
    <3>6. t1 \in Seq(Token)
      BY HeadAndTail
    <3>4. \A i \in 1..(2 - 1) : m[i] = (m \o t)[i]
      BY <3>1, <3>2, Gathered, Zenon
    <3>. QED BY <3>3, <3>4, <3>5, <3>6
  <2>. HIDE DEF t1
  <2>4. Len(m) = 1 /\ m[1] = "0"
    <3>1. 1 \in 1..(2 - 1)
      OBVIOUS
    <3>2. m[1] = (m \o t)[1]
      BY <2>3, <3>1, Zenon
    <3>. QED BY <2>1, <2>3, <3>2
  <2>5. <<"0">> \in Seq(Token) /\ Len(<<"0">>) = 1 /\ <<"0">>[1] = "0"
    BY <1>1
  <2>6. m = <<"0">>
    <3>1. \A i \in 1..Len(m) : m[i] = <<"0">>[i]
      BY <2>4
    <3>. QED BY <2>4, <2>5, <3>1, SeqEqual
  <2>7. Len(t1) = 0
    BY <2>1, <2>3
  <2>. QED BY <2>3, <2>6, <2>7, EmptySeq
<1>3. ASSUME m \o t = <<CR>> PROVE m = <<>> /\ t1 = <<>>
  <2>1. 1 \in Nat \ {0} /\ 1 <= Len(m \o t) /\ (m \o t)[1] = CR /\ Len(m \o t) = 1
    BY <1>3
  <2>2. \A i \in 1..(1 - 1) : (m \o t)[i] # CR
    OBVIOUS
  <2>3. /\ Len(m) = 1 - 1
        /\ t1 \in Seq(Token)
        /\ Len(t1) = Len(m \o t) - 1
    BY <2>1, <2>2, Gathered, Zenon
  <2>. HIDE DEF t1
  <2>. QED BY <2>1, <2>3, EmptySeq
<1>. QED BY <1>2, <1>3

(* getCommand, getSerialData and getServoPosition on a command that was    *)
(* gathered whole.                                                         *)
LEMMA Understood ==
  ASSUME NEW p \in Prefix, NEW a \in Argument
  PROVE  /\ GetCommand(<<p, a>>) = {CASE p = "as:"  -> "AUTO_SORT"
                                      [] p = "s:"   -> "SET"
                                      [] p = "cw:"  -> "TURN_CW"
                                      [] p = "ccw:" -> "TURN_CCW"
                                      [] p = "cv:"  -> "CONVEYOR"}
         /\ GetSerialData(<<p, a>>) = <<a>>
         /\ GetServoPosition(ToInt(<<a>>)) = Angle[a]
<1>1. <<p, a>> # <<>> /\ Head(<<p, a>>) = p /\ <<a>> # <<>> /\ Head(<<a>>) = a
  OBVIOUS
<1>2. GetCommand(<<p, a>>) = {CASE p = "as:"  -> "AUTO_SORT"
                                [] p = "s:"   -> "SET"
                                [] p = "cw:"  -> "TURN_CW"
                                [] p = "ccw:" -> "TURN_CCW"
                                [] p = "cv:"  -> "CONVEYOR"}
  BY <1>1 DEF GetCommand
<1>3. GetSerialData(<<p, a>>) = <<a>>
  <2>. DEFINE buf == <<p, a>>
              First(i) == buf[i] \in Prefix /\ \A j \in 1..(i - 1) : buf[j] \notin Prefix
  <2>1. Len(buf) = 2 /\ buf[1] = p /\ buf[2] = a /\ buf[1] \in Prefix
    OBVIOUS
  <2>2. First(1) /\ 1 \in 1..Len(buf)
    BY <2>1
  <2>3. \A i \in 1..Len(buf) : First(i) => i = 1
    BY <2>1
  <2>4. (CHOOSE i \in 1..Len(buf) : First(i)) = 1
    <3>. DEFINE c == CHOOSE i \in 1..Len(buf) : First(i)
    <3>. HIDE DEF First
    <3>1. c \in 1..Len(buf) /\ First(c)
      BY <2>2, Zenon
    <3>. QED BY <2>3, <3>1, Zenon
  <2>5. SubSeq(buf, 1 + 1, Len(buf)) = <<a>>
    <3>1. buf \in Seq(Token) /\ p \in Token /\ a \in Token
      BY CmdType
    <3>2. SubSeq(buf, 2, 2) = <<buf[2]>> \o SubSeq(buf, 2 + 1, 2)
      <4>1. 2 \in 1..Len(buf) /\ 2 \in 2..Len(buf)
        BY <2>1
      <4>. QED BY <3>1, <4>1, SubSeqRecursiveFirst
    <3>3. SubSeq(buf, 3, 2) = <<>>
      BY SubSeqEmpty
    <3>4. <<a>> \o <<>> = <<a>>
      BY <3>1, ConcatEmptySeq
    <3>5. 1 + 1 = 2 /\ 2 + 1 = 3
      OBVIOUS
    <3>. QED BY <2>1, <3>2, <3>3, <3>4, <3>5, Zenon
  <2>. QED BY <2>1, <2>2, <2>4, <2>5, Zenon DEF GetSerialData
<1>4. GetServoPosition(ToInt(<<a>>)) = Angle[a]
  <2>1. ToInt(<<a>>) = Angle[a] /\ Angle[a] \in 0..180
    BY <1>1, AngleType DEF ToInt
  <2>. QED BY <2>1 DEF GetServoPosition
<1>. QED BY <1>2, <1>3, <1>4, Zenon

----------------------------------------------------------------------------
(* mainBuffer holds no carriage return, and it is cleared by the command   *)
(* that starts a sort or a sweep.                                          *)
BufferInv ==
  /\ \A i \in 1..Len(mainBuffer) : mainBuffer[i] # CR
  /\ ard_pc # "loop" => mainBuffer = <<>>

(* A turn of loop() either gathers an element or runs the first command.   *)
Waits == Unread' = Unread /\ UNCHANGED <<ard_pc, boardVars>>

Effect(p, a) ==
  /\ p = "as:" /\ a = "1" => ard_pc' = "autoSort" /\ UNCHANGED servoPos
  /\ p = "s:" => servoPos' = Angle[a] /\ UNCHANGED <<ard_pc, belt>>
  /\ p = "cv:" /\ a \in {"0", "1"} => belt' = (a = "1") /\ UNCHANGED <<ard_pc, servoPos>>
  /\ p \in Turns /\ a = "1" => ard_pc' \in {"sweepCW", "sweepCCW"} /\ UNCHANGED boardVars

Runs(p, a, rest) == Unread' = rest /\ Effect(p, a)

LEMMA LineTypes ==
  ASSUME TypeInv
  PROVE  mainBuffer \in Seq(Token) /\ toArduino \in Seq(Token) /\ Unread \in Seq(Token)
BY Joining DEF TypeInv, TypeOK, LinksTypeOK, ArduinoTypeOK, Unread

(* What each branch of loop() does, whatever has been gathered.            *)
LEMMA LoopReads ==
  ASSUME TypeInv, BufferInv, RunLoop
  PROVE  /\ toArduino # <<>> /\ ard_pc = "loop" /\ BufferInv' /\ UNCHANGED fromArduino
         /\ \/ ReadCommand /\ Waits
            \/ /\ Head(toArduino) = CR /\ Unread' = Tail(toArduino)
               /\ \E cmd \in GetCommand(mainBuffer) :
                    \/ /\ cmd = "AUTO_SORT" /\ Data = <<"1">>
                       /\ ard_pc' = "autoSort" /\ UNCHANGED servoPos
                    \/ cmd = "SET" /\ servoPos' = GetServoPosition(ToInt(Data))
                       /\ UNCHANGED <<ard_pc, belt>>
                    \/ /\ cmd \in {"TURN_CW", "TURN_CCW"} /\ Data = <<"1">>
                       /\ ard_pc' \in {"sweepCW", "sweepCCW"} /\ UNCHANGED boardVars
                    \/ /\ cmd = "CONVEYOR" /\ Data \in {<<"0">>, <<"1">>}
                       /\ belt' = (Data = <<"1">>) /\ UNCHANGED <<ard_pc, servoPos>>
                    \/ /\ cmd \notin {"SET"} /\ UNCHANGED <<ard_pc, boardVars>>
                       /\ cmd = "CONVEYOR" => Data \notin {<<"0">>, <<"1">>}
                       /\ cmd \in {"AUTO_SORT", "TURN_CW", "TURN_CCW"} => Data # <<"1">>
<1>1. mainBuffer \in Seq(Token) /\ toArduino \in Seq(Token)
  BY LineTypes
<1>2. CASE ReadCommand
  <2>1. toArduino # <<>> /\ ard_pc = "loop" /\ UNCHANGED <<ard_pc, boardVars, fromArduino>>
        /\ Head(toArduino) # CR
    BY <1>2 DEF ReadCommand
  <2>2. Unread' = Unread
    BY <1>1, <1>2, Moved DEF ReadCommand, Unread
  <2>3. BufferInv'
    <3>1. Head(toArduino) \in Token
      BY <1>1, <2>1, HeadAndTail
    <3>2. \A i \in 1..Len(mainBuffer') : mainBuffer'[i] # CR
      <4>. DEFINE h == Head(toArduino)
                  m1 == Append(mainBuffer, h)
      <4>1. Len(m1) = Len(mainBuffer) + 1 /\ m1[Len(mainBuffer) + 1] = h
            /\ \A i \in 1..Len(mainBuffer) : m1[i] = mainBuffer[i]
        BY <1>1, <3>1, AppendProperties
      <4>2. Len(mainBuffer) \in Nat
        BY <1>1, LenProperties
      <4>3. mainBuffer' = m1 /\ h # CR
        BY <1>2, <2>1 DEF ReadCommand
      <4>. HIDE DEF m1, h
      <4>4. \A i \in 1..Len(m1) : m1[i] # CR
        BY <4>1, <4>2, <4>3 DEF BufferInv
      <4>. QED BY <4>3, <4>4
    <3>. QED BY <2>1, <3>2 DEF BufferInv
  <2>. QED BY <1>2, <2>1, <2>2, <2>3 DEF Waits
<1>3. ASSUME NEW cmd, RunCommand(cmd)
      PROVE  /\ toArduino # <<>> /\ ard_pc = "loop" /\ BufferInv' /\ UNCHANGED fromArduino
             /\ Head(toArduino) = CR /\ Unread' = Tail(toArduino)
             /\ cmd \in GetCommand(mainBuffer)
  <2>1. mainBuffer' = <<>> /\ toArduino' = Tail(toArduino) /\ toArduino # <<>>
    BY <1>3 DEF RunCommand, Read
  <2>2. Unread' = Tail(toArduino)
    BY <1>1, <2>1, HeadAndTail, ConcatEmptySeq DEF Unread
  <2>3. BufferInv'
    BY <2>1 DEF BufferInv
  <2>. QED BY <1>3, <2>2, <2>3 DEF RunCommand, Read
<1>4. CASE StartAutoSort
  BY <1>3, <1>4, Zenon DEF StartAutoSort
<1>5. CASE SetServoPosition
  BY <1>3, <1>5, Zenon DEF SetServoPosition
<1>6. CASE StartSweep
  BY <1>3, <1>6, Zenon DEF StartSweep
<1>7. CASE RunConveyor
  BY <1>3, <1>7, Zenon DEF RunConveyor
<1>8. CASE CommandWithoutEffect
  <2>1. PICK cmd : /\ RunCommand(cmd) /\ cmd # "SET"
                   /\ cmd = "CONVEYOR" => Data \notin {<<"0">>, <<"1">>}
                   /\ cmd \in {"AUTO_SORT", "TURN_CW", "TURN_CCW"} => Data # <<"1">>
                   /\ UNCHANGED <<ard_pc, boardVars>>
    BY <1>8, Zenon DEF CommandWithoutEffect
  <2>. QED BY <1>3, <2>1, Zenon
<1>. QED BY <1>2, <1>4, <1>5, <1>6, <1>7, <1>8 DEF RunLoop

(* A command at the front is run with its effect, or still being gathered. *)
LEMMA RunsFirst ==
  ASSUME TypeInv, BufferInv, RunLoop,
         NEW p \in Prefix, NEW a \in Argument, NEW rest \in Seq(Token),
         Unread = Cmd(p, a) \o rest
  PROVE  Waits \/ Runs(p, a, rest)
<1>1. CASE Waits
  BY <1>1
<1>2. CASE ~Waits
  <2>1. mainBuffer = <<p, a>> /\ Tail(toArduino) = rest
    <3>1. toArduino # <<>> /\ Head(toArduino) = CR
      BY <1>2, LoopReads, Zenon
    <3>2. mainBuffer \in Seq(Token) /\ toArduino \in Seq(Token)
      BY LineTypes
    <3>3. /\ \A i \in 1..Len(mainBuffer) : mainBuffer[i] # CR
          /\ mainBuffer \o toArduino = Cmd(p, a) \o rest
      BY DEF BufferInv, Unread
    <3>4. Complete(mainBuffer, toArduino)
      BY <3>1, <3>3 DEF Complete
    <3>. QED BY <3>2, <3>3, <3>4, FirstGathered
  <2>2. Data = <<a>>
    BY <2>1, Understood DEF Data
  <2>3. <<a>> = <<"1">> <=> a = "1"
    OBVIOUS
  <2>4. <<a>> = <<"0">> <=> a = "0"
    OBVIOUS
  <2>. DEFINE named == CASE p = "as:"  -> "AUTO_SORT"
                         [] p = "s:"   -> "SET"
                         [] p = "cw:"  -> "TURN_CW"
                         [] p = "ccw:" -> "TURN_CCW"
                         [] p = "cv:"  -> "CONVEYOR"
  <2>5. GetCommand(mainBuffer) = {named}
    BY <2>1, Understood
  <2>6. GetServoPosition(ToInt(Data)) = Angle[a]
    BY <2>2, Understood
  <2>7. /\ p = "as:" => named = "AUTO_SORT"
        /\ p = "s:" => named = "SET"
        /\ p \in Turns => named \in {"TURN_CW", "TURN_CCW"}
        /\ p = "cv:" => named = "CONVEYOR"
    BY DEF Turns
  <2>. HIDE DEF named
  <2>8. /\ Unread' = rest
        /\ \/ named = "AUTO_SORT" /\ a = "1" /\ ard_pc' = "autoSort" /\ UNCHANGED servoPos
           \/ named = "SET" /\ servoPos' = Angle[a] /\ UNCHANGED <<ard_pc, belt>>
           \/ /\ named \in {"TURN_CW", "TURN_CCW"} /\ a = "1"
              /\ ard_pc' \in {"sweepCW", "sweepCCW"} /\ UNCHANGED boardVars
           \/ /\ named = "CONVEYOR" /\ a \in {"0", "1"}
              /\ belt' = (a = "1") /\ UNCHANGED <<ard_pc, servoPos>>
           \/ /\ named \notin {"SET"} /\ UNCHANGED <<ard_pc, boardVars>>
              /\ named = "CONVEYOR" => a \notin {"0", "1"}
              /\ named \in {"AUTO_SORT", "TURN_CW", "TURN_CCW"} => a # "1"
    BY <1>2, <2>1, <2>2, <2>3, <2>4, <2>5, <2>6, LoopReads, Zenon
  <2>. QED BY <2>7, <2>8 DEF Runs, Effect, boardVars, Turns
<1>. QED BY <1>1, <1>2

----------------------------------------------------------------------------
(* The order to put the arm at a bin and to start the belt, then tail: not *)
(* yet begun, half done, or done, with the arm there.                      *)
At(b) == servoPos = Angle[BinPosition[b]]
Moving(b, tail) ==
  \/ Unread = Servo(b) \o (BeltOn \o tail)
  \/ Unread = BeltOn \o tail /\ At(b)
ArmFor(b, tail) == Moving(b, tail) \/ (Unread = tail /\ At(b))
(* In a session the arm is sent to the bin of the object counted last.     *)
ArmSet(tail) ==
  IF count = NoCount THEN Unread = tail
  ELSE category_scanned \in Bin /\ ArmFor(category_scanned, tail)

(* The states in which a stopped session leaves the board: nothing to do;  *)
(* orders of the session before tail, STOP last; or the part of STOP that  *)
(* autoSort() has not read (main.ino:165).                                 *)
Resting == Unread = <<>> /\ ~belt
Ending(tail) ==
  \/ Unread \in {tail, BeltOn \o tail}
  \/ \E b \in Bin : Unread = Servo(b) \o (BeltOn \o tail)
Part == {<<"0", CR>>, <<CR>>}

(* MODE_IDLE: the belt is off, or what turns it off is under way.  STOP may *)
(* find autoSort() at work and be read by it in part; the carriage return  *)
(* that ends a sweep may come before the sweep has begun, or after it was  *)
(* ended by the release before.                                            *)
BoardAtIdle ==
  \/ ard_pc = "loop" /\ Resting
  \/ ard_pc = "loop" /\ Ending(BeltOff)
  \/ ard_pc = "loop" /\ Ending(AutoSortCmd \o BeltOff)
  \/ ard_pc = "loop" /\ Unread \in Part /\ ~belt
  \/ ard_pc = "autoSort" /\ Unread \in Part \cup {<<>>, BeltOff}
  \/ ard_pc = "loop" /\ (\E d \in Turns : Unread = Cmd(d, "1") \o <<CR>>) /\ ~belt
  \/ Sweeping /\ Unread = <<CR>> /\ ~belt

(* MODE_AUTO_SORT: the board sorts only between the order of BeginCycle and *)
(* its reply, and what the arm was sent to do comes before that order.     *)
(* Before the first object of a session nothing has been counted.          *)
BoardInSession ==
  CASE curr_sort = "BEGIN_CYCLE" -> ard_pc = "loop" /\ fromArduino = <<>> /\ ArmSet(<<>>)
    [] curr_sort = "ARD_WAIT" ->
         \/ ard_pc = "loop" /\ fromArduino = <<>> /\ ArmSet(AutoSortCmd)
         \/ ard_pc = "autoSort" /\ fromArduino = <<>> /\ ArmSet(<<>>) /\ Unread = <<>>
         \/ ard_pc = "loop" /\ Len(fromArduino) = 1 /\ Resting
    [] OTHER -> /\ ard_pc = "loop" /\ fromArduino = <<>> /\ Resting
                /\ curr_sort \in {"INIT", "INIT_WAIT"} => count = NoCount

(* MODE_SWEEP and MODE_OVERRIDE: the order of the button that entered the  *)
(* mode is under way or in force.                                          *)
BoardInSweep ==
  /\ ~belt
  /\ \/ ard_pc = "loop" /\ \E d \in Turns : Unread = Cmd(d, "1")
     \/ Sweeping /\ Unread = <<>>

BoardInOverride ==
  /\ ard_pc = "loop" /\ curr_btn \in PositionBtns
  /\ ArmFor(curr_btn - 3, <<>>)
  /\ Unread = <<>> => belt

(* The part of the invariant that is about the board.                      *)
BoardInv ==
  /\ curr_mode = "AUTO_SORT" => BoardInSession
  /\ curr_mode = "IDLE" => BoardAtIdle
  /\ curr_mode = "SWEEP" => BoardInSweep
  /\ curr_mode = "OVERRIDE" => BoardInOverride

(* Types of the commands, and how they join.                               *)
LEMMA Lines ==
  /\ BeltOn \in Seq(Token) /\ BeltOff \in Seq(Token) /\ AutoSortCmd \in Seq(Token)
  /\ <<CR>> \in Seq(Token) /\ <<>> \in Seq(Token)
  /\ \A b \in Bin : Servo(b) \in Seq(Token)
  /\ \A d \in Turns : Cmd(d, "1") \in Seq(Token)
  /\ \A x, y \in Seq(Token) : x \o y \in Seq(Token)
  /\ \A x \in Seq(Token) : <<>> \o x = x /\ x \o <<>> = x
  /\ \A x, y, z \in Seq(Token) : (x \o y) \o z = x \o (y \o z)
<1>1. BeltOn \in Seq(Token) /\ BeltOff \in Seq(Token) /\ AutoSortCmd \in Seq(Token)
  BY CommandType DEF BeltOn, BeltOff
<1>2. \A b \in Bin : Servo(b) \in Seq(Token)
  BY CommandType, BinPositionType DEF Servo
<1>3. \A d \in Turns : Cmd(d, "1") \in Seq(Token)
  BY CmdType DEF Turns, Prefix, Argument
<1>4. <<CR>> \in Seq(Token) /\ <<>> \in Seq(Token)
  BY DEF Token
<1>5. \A x, y \in Seq(Token) : x \o y \in Seq(Token)
  BY Joining
<1>6. \A x \in Seq(Token) : <<>> \o x = x /\ x \o <<>> = x
  BY ConcatEmptySeq
<1>7. \A x, y, z \in Seq(Token) : (x \o y) \o z = x \o (y \o z)
  BY ConcatAssociative
<1>. QED BY <1>1, <1>2, <1>3, <1>4, <1>5, <1>6, <1>7

(* A line that still holds a carriage return is not drained.               *)
LEMMA NotDrained ==
  ASSUME TypeInv, BufferInv, NEW p \in Prefix, NEW a \in Argument, NEW rest \in Seq(Token)
  PROVE  /\ Cmd(p, a) \o rest # <<>>
         /\ Unread \in {Cmd(p, a) \o rest} \cup Part => toArduino # <<>>
<1>1. Cmd(p, a) \o rest # <<>>
  BY CmdType, ConcatEqualIffEmpty DEF Cmd
<1>2. ASSUME toArduino = <<>> PROVE Unread = mainBuffer
  BY <1>2, LineTypes, ConcatEmptySeq DEF Unread
<1>3. ASSUME NEW k \in 1..Len(mainBuffer), mainBuffer[k] = CR PROVE FALSE
  BY <1>3 DEF BufferInv
<1>4. ASSUME mainBuffer = Cmd(p, a) \o rest PROVE FALSE
  <2>. DEFINE c == Cmd(p, a)
  <2>1. c \in Seq(Token) /\ Len(c) = 3 /\ c[3] = CR /\ Len(rest) \in Nat
    BY CmdType, LenProperties
  <2>. HIDE DEF c
  <2>2. Len(c \o rest) = 3 + Len(rest) /\ (c \o rest)[3] = CR
    <3>1. /\ Len(c \o rest) = Len(c) + Len(rest)
          /\ \A i \in 1..Len(c) + Len(rest) : (c \o rest)[i] =
               IF i <= Len(c) THEN c[i] ELSE rest[i - Len(c)]
      BY <2>1, ConcatProperties
    <3>2. 3 \in 1..Len(c) + Len(rest) /\ 3 <= Len(c)
      BY <2>1
    <3>. QED BY <2>1, <3>1, <3>2
  <2>3. 3 \in 1..Len(c \o rest)
    BY <2>1, <2>2
  <2>4. c \o rest = mainBuffer
    BY <1>4 DEF c
  <2>. QED BY <2>2, <2>3, <2>4, <1>3
<1>5. ASSUME mainBuffer \in Part PROVE FALSE
  <2>1. CASE mainBuffer = <<"0", CR>>
    <3>1. 2 \in 1..Len(mainBuffer) /\ mainBuffer[2] = CR
      BY <2>1
    <3>. QED BY <3>1, <1>3
  <2>2. CASE mainBuffer = <<CR>>
    <3>1. 1 \in 1..Len(mainBuffer) /\ mainBuffer[1] = CR
      BY <2>2
    <3>. QED BY <3>1, <1>3
  <2>. QED BY <1>5, <2>1, <2>2 DEF Part
<1>. QED BY <1>1, <1>2, <1>4, <1>5

(* What an empty line, a command sent and a turn of loop() make of it.     *)
LEMMA NothingToRead ==
  ASSUME TypeInv, Unread = <<>>
  PROVE  toArduino = <<>> /\ mainBuffer = <<>>
BY LineTypes, ConcatEqualIffEmpty DEF Unread

LEMMA Sent ==
  ASSUME TypeInv, NEW cmd \in Seq(Token), SendArduino(cmd), UNCHANGED mainBuffer
  PROVE  Unread' = Unread \o cmd
BY LineTypes, ConcatAssociative DEF Unread, SendArduino

LEMMA ArmRuns ==
  ASSUME NEW b \in Bin, NEW tail \in Seq(Token),
         TypeInv, BufferInv, RunLoop, Moving(b, tail)
  PROVE  /\ ArmFor(b, tail)' /\ ard_pc' = "loop"
         /\ Moving(b, tail)' \/ belt'
<1>1. BeltOn \o tail \in Seq(Token) /\ Servo(b) = Cmd("s:", BinPosition[b])
      /\ BeltOn = Cmd("cv:", "1") /\ BinPosition[b] \in Argument
      /\ "s:" \in Prefix /\ "cv:" \in Prefix /\ "1" \in Argument
  BY Lines, Commands, BinPositionType DEF Prefix, Argument
<1>2. ard_pc = "loop"
  BY LoopReads
<1>3. CASE Unread = Servo(b) \o (BeltOn \o tail)
  <2>1. Waits \/ Runs("s:", BinPosition[b], BeltOn \o tail)
    BY <1>1, <1>3, RunsFirst
  <2>. QED BY <1>2, <1>3, <2>1 DEF Waits, Runs, Effect, Moving, ArmFor, At
<1>4. CASE Unread = BeltOn \o tail /\ At(b)
  <2>1. Waits \/ Runs("cv:", "1", tail)
    BY <1>1, <1>4, RunsFirst
  <2>. QED BY <1>2, <1>4, <2>1 DEF Waits, Runs, Effect, Moving, ArmFor, At, boardVars
<1>. QED BY <1>3, <1>4 DEF Moving

LEMMA EndingRuns ==
  ASSUME NEW tail \in Seq(Token),
         TypeInv, BufferInv, RunLoop, Ending(tail), Unread # tail
  PROVE  Ending(tail)' /\ ard_pc' = "loop"
<1>1. BeltOn \o tail \in Seq(Token) /\ BeltOn = Cmd("cv:", "1")
      /\ "s:" \in Prefix /\ "cv:" \in Prefix /\ "1" \in Argument
  BY Lines, Commands DEF Prefix, Argument
<1>2. ard_pc = "loop"
  BY LoopReads
<1>3. ASSUME NEW b \in Bin, Unread = Servo(b) \o (BeltOn \o tail)
      PROVE  Ending(tail)' /\ ard_pc' = "loop"
  <2>1. Waits \/ Runs("s:", BinPosition[b], BeltOn \o tail)
    BY <1>1, <1>3, RunsFirst, Commands, BinPositionType
  <2>. QED BY <1>2, <1>3, <2>1 DEF Waits, Runs, Effect, Ending
<1>4. CASE Unread = BeltOn \o tail
  <2>1. Waits \/ Runs("cv:", "1", tail)
    BY <1>1, <1>4, RunsFirst
  <2>. QED BY <1>2, <1>4, <2>1 DEF Waits, Runs, Effect, Ending
<1>. QED BY <1>3, <1>4 DEF Ending

----------------------------------------------------------------------------
LEMMA Letters ==
  /\ {"as:", "s:", "cv:", "cw:", "ccw:"} \subseteq Prefix /\ {"0", "1"} \subseteq Argument
  /\ Turns \subseteq Prefix
BY DEF Prefix, Argument, Turns

(* The board's own steps at MODE_IDLE.                                     *)
LEMMA IdleLoop ==
  ASSUME TypeInv, BufferInv, BoardAtIdle, RunLoop
  PROVE  BoardAtIdle'
<1>1. ard_pc = "loop" /\ ~Sweeping /\ toArduino # <<>>
  BY LoopReads DEF Sweeping
<1>2. CASE Resting
  BY <1>1, <1>2, NothingToRead DEF Resting
<1>3. CASE Ending(BeltOff)
  <2>1. CASE Unread = BeltOff
    <3>1. BeltOff = Cmd("cv:", "0") \o <<>>
      BY Commands, Lines, Zenon
    <3>2. Waits \/ Runs("cv:", "0", <<>>)
      BY <2>1, <3>1, RunsFirst, Letters, Lines
    <3>. QED BY <1>1, <1>3, <2>1, <3>2
            DEF Waits, Runs, Effect, BoardAtIdle, Resting, Ending, boardVars
  <2>2. CASE Unread # BeltOff
    BY <1>3, <2>2, EndingRuns, Lines DEF BoardAtIdle
  <2>. QED BY <2>1, <2>2
<1>4. CASE Ending(AutoSortCmd \o BeltOff)
  <2>1. AutoSortCmd \o BeltOff \in Seq(Token)
    BY Lines
  <2>2. CASE Unread = AutoSortCmd \o BeltOff
    <3>1. Waits \/ Runs("as:", "1", BeltOff)
      BY <2>2, RunsFirst, Letters, Lines, Commands
    <3>. QED BY <1>1, <1>4, <2>2, <3>1 DEF Waits, Runs, Effect, BoardAtIdle, Ending
  <2>3. CASE Unread # AutoSortCmd \o BeltOff
    BY <1>4, <2>1, <2>3, EndingRuns DEF BoardAtIdle
  <2>. QED BY <2>2, <2>3
<1>5. CASE Unread \in Part /\ ~belt
  <2>1. CASE Waits
    BY <1>1, <1>5, <2>1 DEF Waits, BoardAtIdle, boardVars
  <2>2. CASE ~Waits
    <3>1. Complete(mainBuffer, toArduino) /\ Unread' = Tail(toArduino)
      BY <2>2, LoopReads, Zenon DEF Complete, BufferInv
    <3>2. mainBuffer \in {<<"0">>, <<>>} /\ Unread' = <<>>
      BY <1>5, <3>1, PartGathered, LineTypes DEF Part, Unread
    <3>3. Data \in {<<"0">>, <<>>}
      <4>1. "0" \notin Prefix
        BY DEF Prefix
      <4>2. \A i \in 1..Len(mainBuffer) : mainBuffer[i] \notin Prefix
        BY <3>2, <4>1
      <4>. QED BY <3>2, <4>2 DEF Data, GetSerialData
    <3>4. Data # <<"1">>
      BY <3>3
    <3>5. ard_pc' = ard_pc /\ (belt' = belt \/ belt' = FALSE)
      BY <2>2, <3>4, LoopReads DEF boardVars
    <3>. QED BY <1>1, <1>5, <3>2, <3>5 DEF BoardAtIdle, Resting
  <2>. QED BY <2>1, <2>2
<1>6. ASSUME NEW d \in Turns, Unread = Cmd(d, "1") \o <<CR>>, ~belt
      PROVE  BoardAtIdle'
  <2>1. Waits \/ Runs(d, "1", <<CR>>)
    BY <1>6, RunsFirst, Letters, Lines
  <2>. QED BY <1>1, <1>6, <2>1
          DEF Waits, Runs, Effect, BoardAtIdle, Sweeping, boardVars
<1>. QED BY <1>1, <1>2, <1>3, <1>4, <1>5, <1>6 DEF BoardAtIdle

LEMMA IdleSort ==
  ASSUME TypeInv, BufferInv, BoardAtIdle, RunSort
  PROVE  BoardAtIdle'
<1>1. ard_pc = "autoSort"
  BY DEF RunSort, LaserBroken, SortTimeout, SortStopped, SortRead, EndAutoSort
<1>2. mainBuffer = <<>> /\ UNCHANGED mainBuffer
  BY <1>1 DEF BufferInv, RunSort, LaserBroken, SortTimeout, SortStopped, SortRead,
              EndAutoSort
<1>3. Unread = toArduino /\ Unread' = toArduino'
  <2>1. toArduino' \in Seq(Token)
    BY Reading, LineTypes DEF RunSort, LaserBroken, SortTimeout, SortStopped, SortRead,
       Read
  <2>. QED BY <1>2, <2>1, LineTypes, ConcatEmptySeq DEF Unread
<1>4. Unread \in Part \cup {<<>>, BeltOff}
  BY <1>1 DEF BoardAtIdle, Sweeping
<1>5. CASE LaserBroken \/ SortTimeout
  <2>1. ard_pc' = "loop" /\ ~belt' /\ Unread' \in Part \cup {<<>>, BeltOff}
    BY <1>3, <1>4, <1>5 DEF LaserBroken, SortTimeout, EndAutoSort
  <2>. QED BY <2>1 DEF BoardAtIdle, Resting, Ending
<1>6. BeltOff = <<"cv:", "0", CR>> /\ "cv:" # CR /\ "0" # CR
  BY DEF BeltOff, ConveyorCmd, CR
<1>7. CASE SortStopped
  <2>1. ard_pc' = "loop" /\ ~belt' /\ toArduino # <<>> /\ Head(toArduino) = CR
        /\ toArduino' = Tail(toArduino)
    BY <1>7 DEF SortStopped, EndAutoSort, Read
  <2>2. toArduino = <<CR>>
    BY <1>3, <1>4, <1>6, <2>1 DEF Part
  <2>3. Unread' = <<>>
    BY <1>3, <2>1, <2>2
  <2>. QED BY <2>1, <2>3 DEF BoardAtIdle, Resting
<1>8. CASE SortRead
  <2>1. ard_pc' = "autoSort" /\ toArduino # <<>> /\ toArduino' = Tail(toArduino)
    BY <1>1, <1>8 DEF SortRead, Read
  <2>2. toArduino' \in Part \cup {<<>>}
    <3>1. toArduino \in {<<"cv:", "0", CR>>, <<"0", CR>>, <<CR>>}
      BY <1>3, <1>4, <1>6, <2>1 DEF Part
    <3>2. /\ Tail(<<"cv:", "0", CR>>) = <<"0", CR>>
          /\ Tail(<<"0", CR>>) = <<CR>>
          /\ Tail(<<CR>>) = <<>>
      OBVIOUS
    <3>. QED BY <2>1, <3>1, <3>2, Zenon DEF Part
  <2>. QED BY <1>3, <2>1, <2>2 DEF BoardAtIdle
<1>. QED BY <1>5, <1>7, <1>8 DEF RunSort

LEMMA IdleSweep ==
  ASSUME TypeInv, BufferInv, BoardAtIdle, RunSweep
  PROVE  BoardAtIdle'
<1>1. Sweeping
  BY DEF RunSweep, SweepMove, SweepEnd
<1>2. mainBuffer = <<>> /\ UNCHANGED mainBuffer
  BY <1>1 DEF BufferInv, RunSweep, SweepMove, SweepEnd, Sweeping
<1>3. Unread = toArduino /\ Unread' = toArduino'
  <2>1. toArduino' \in Seq(Token)
    BY Reading, LineTypes DEF RunSweep, SweepMove, SweepEnd, Read
  <2>. QED BY <1>2, <2>1, LineTypes, ConcatEmptySeq DEF Unread
<1>4. toArduino = <<CR>> /\ ~belt
  BY <1>1, <1>3 DEF BoardAtIdle, Sweeping
<1>5. Head(toArduino) = CR /\ Tail(toArduino) = <<>>
  BY <1>4
<1>6. CASE SweepMove
  <2>1. toArduino' = toArduino
    BY <1>5, <1>6 DEF SweepMove, Read
  <2>. QED BY <1>1, <1>3, <1>4, <1>6, <2>1 DEF SweepMove, BoardAtIdle, Sweeping
<1>7. CASE SweepEnd
  BY <1>3, <1>4, <1>5, <1>7 DEF SweepEnd, Read, BoardAtIdle, Resting, boardVars
<1>. QED BY <1>6, <1>7 DEF RunSweep

----------------------------------------------------------------------------
(* The board's own steps in each mode of the controller.                   *)
LEMMA ArmSetRuns ==
  ASSUME NEW tail \in Seq(Token),
         TypeInv, BufferInv, RunLoop, ArmSet(tail), Unread # tail,
         UNCHANGED <<count, category_scanned>>
  PROVE  ArmSet(tail)' /\ ard_pc' = "loop"
<1>1. category_scanned \in Bin /\ Moving(category_scanned, tail) /\ count # NoCount
  BY DEF ArmSet, ArmFor
<1>2. ArmFor(category_scanned, tail)' /\ ard_pc' = "loop"
  BY <1>1, ArmRuns DEF ArmFor, Moving, At
<1>. QED BY <1>1, <1>2 DEF ArmSet, ArmFor, Moving, At

LEMMA SessionBoard ==
  ASSUME TypeInv, BufferInv, BoardInSession, RunLoop \/ RunSort \/ RunSweep,
         UNCHANGED <<curr_sort, count, category_scanned>>
  PROVE  BoardInSession'
<1>1. ard_pc \in {"loop", "autoSort"} /\ ~Sweeping
  BY DEF BoardInSession, Sweeping
<1>2. CASE RunLoop
  <2>1. ard_pc = "loop" /\ toArduino # <<>> /\ UNCHANGED fromArduino
    BY <1>2, LoopReads
  <2>2. ~Resting /\ Unread # <<>>
    BY <2>1, NothingToRead DEF Resting
  <2>3. CASE curr_sort = "BEGIN_CYCLE"
    <3>1. ArmSet(<<>>)' /\ ard_pc' = "loop"
      BY <1>2, <2>2, <2>3, ArmSetRuns, Lines DEF BoardInSession
    <3>. QED BY <2>1, <2>3, <3>1 DEF BoardInSession
  <2>4. CASE curr_sort = "ARD_WAIT"
    <3>1. ArmSet(AutoSortCmd) /\ fromArduino = <<>>
      BY <2>1, <2>2, <2>4 DEF BoardInSession
    <3>2. CASE Unread # AutoSortCmd
      <4>1. ArmSet(AutoSortCmd)' /\ ard_pc' = "loop"
        BY <1>2, <3>1, <3>2, ArmSetRuns, Lines
      <4>. QED BY <2>1, <2>4, <3>1, <4>1 DEF BoardInSession
    <3>3. CASE Unread = AutoSortCmd
      <4>1. Unread = Cmd("as:", "1") \o <<>>
        BY <3>3, Commands, Lines, Zenon
      <4>2. Waits \/ Runs("as:", "1", <<>>)
        BY <1>2, <4>1, RunsFirst, Letters, Lines
      <4>3. count # NoCount => category_scanned \in Bin /\ At(category_scanned)
        <5>1. ASSUME NEW b \in Bin, Moving(b, AutoSortCmd) PROVE FALSE
          <6>1. ASSUME NEW x \in Seq(Token), x \o AutoSortCmd = AutoSortCmd
                PROVE  x = <<>>
            BY <6>1, Lines, ConcatEqualIffEmpty
          <6>2. BeltOn # <<>> /\ BeltOn \in Seq(Token) /\ Servo(b) \in Seq(Token)
                /\ Servo(b) # <<>>
            BY Lines DEF BeltOn, ConveyorCmd, Servo, SetServoCmd
          <6>3. Unread # BeltOn \o AutoSortCmd
            BY <3>3, <6>1, <6>2
          <6>4. Unread # Servo(b) \o (BeltOn \o AutoSortCmd)
            <7>1. Servo(b) \o (BeltOn \o AutoSortCmd) = (Servo(b) \o BeltOn) \o AutoSortCmd
              BY <6>2, Lines
            <7>2. Servo(b) \o BeltOn \in Seq(Token) /\ Servo(b) \o BeltOn # <<>>
              BY <6>2, ConcatEqualIffEmpty, Lines
            <7>. QED BY <3>3, <6>1, <7>1, <7>2
          <6>. QED BY <5>1, <6>3, <6>4 DEF Moving
        <5>. QED BY <3>1, <5>1 DEF ArmSet, ArmFor
      <4>4. CASE Waits
        BY <2>1, <2>4, <3>1, <4>4
           DEF Waits, BoardInSession, ArmSet, ArmFor, Moving, At, boardVars
      <4>5. CASE Runs("as:", "1", <<>>)
        BY <2>1, <2>4, <3>1, <4>3, <4>5
           DEF Runs, Effect, BoardInSession, ArmSet, ArmFor, At
      <4>. QED BY <4>2, <4>4, <4>5
    <3>. QED BY <3>2, <3>3
  <2>. QED BY <2>2, <2>3, <2>4 DEF BoardInSession
<1>3. CASE RunSort
  <2>1. ard_pc = "autoSort"
    BY <1>3 DEF RunSort, LaserBroken, SortTimeout, SortStopped, SortRead, EndAutoSort
  <2>2. curr_sort = "ARD_WAIT" /\ fromArduino = <<>> /\ ArmSet(<<>>) /\ Unread = <<>>
    BY <2>1 DEF BoardInSession
  <2>3. toArduino = <<>> /\ mainBuffer = <<>>
    BY <2>2, NothingToRead
  <2>4. LaserBroken \/ SortTimeout
    BY <1>3, <2>3 DEF RunSort, SortStopped, SortRead, Read
  <2>5. ard_pc' = "loop" /\ ~belt' /\ UNCHANGED <<mainBuffer, toArduino>>
        /\ \E r \in Reply : fromArduino' = Append(fromArduino, r)
    BY <2>4 DEF LaserBroken, SortTimeout, EndAutoSort, Reply
  <2>6. Len(fromArduino') = 1
    BY <2>2, <2>5
  <2>. QED BY <2>2, <2>5, <2>6 DEF BoardInSession, Resting, Unread
<1>4. CASE RunSweep
  BY <1>1, <1>4 DEF RunSweep, SweepMove, SweepEnd
<1>. QED BY <1>2, <1>3, <1>4

LEMMA SweepBoard ==
  ASSUME TypeInv, BufferInv, BoardInSweep, RunLoop \/ RunSort \/ RunSweep
  PROVE  BoardInSweep'
<1>1. CASE RunLoop
  <2>1. ard_pc = "loop"
    BY <1>1, LoopReads
  <2>2. PICK d \in Turns : Unread = Cmd(d, "1")
    BY <2>1 DEF BoardInSweep, Sweeping
  <2>3. Unread = Cmd(d, "1") \o <<>>
    BY <2>2, Lines
  <2>4. Waits \/ Runs(d, "1", <<>>)
    BY <1>1, <2>3, RunsFirst, Letters, Lines
  <2>. QED BY <2>1, <2>2, <2>4 DEF Waits, Runs, Effect, BoardInSweep, Sweeping, boardVars
<1>2. CASE RunSort
  BY <1>2 DEF RunSort, LaserBroken, SortTimeout, SortStopped, SortRead, EndAutoSort,
              BoardInSweep, Sweeping
<1>3. CASE RunSweep
  <2>1. Sweeping /\ Unread = <<>> /\ ~belt
    BY <1>3 DEF RunSweep, SweepMove, SweepEnd, BoardInSweep, Sweeping
  <2>2. toArduino = <<>>
    BY <2>1, NothingToRead
  <2>3. UNCHANGED <<ard_pc, mainBuffer, toArduino, belt>>
    BY <1>3, <2>2 DEF RunSweep, SweepMove, SweepEnd, Read
  <2>. QED BY <2>1, <2>3 DEF BoardInSweep, Sweeping, Unread
<1>. QED BY <1>1, <1>2, <1>3

LEMMA OverrideBoard ==
  ASSUME TypeInv, BufferInv, BoardInOverride, RunLoop \/ RunSort \/ RunSweep,
         UNCHANGED curr_btn
  PROVE  BoardInOverride'
<1>1. ard_pc = "loop"
  BY DEF BoardInOverride
<1>2. RunLoop
  BY <1>1 DEF RunSort, LaserBroken, SortTimeout, SortStopped, SortRead, EndAutoSort,
              RunSweep, SweepMove, SweepEnd, Sweeping
<1>. DEFINE b == curr_btn - 3
<1>3. b \in Bin /\ ArmFor(b, <<>>) /\ curr_btn \in PositionBtns
  BY DEF BoardInOverride, PositionBtns, Bin
<1>4. Unread # <<>>
  BY <1>2, LoopReads, NothingToRead
<1>5. Moving(b, <<>>)
  BY <1>3, <1>4 DEF ArmFor
<1>6. /\ ArmFor(b, <<>>)' /\ ard_pc' = "loop"
      /\ Moving(b, <<>>)' \/ belt'
  <2>. HIDE DEF b
  <2>1. b' = b
    BY DEF b
  <2>. QED BY <1>2, <1>3, <1>5, <2>1, ArmRuns, Lines DEF ArmFor, Moving, At
<1>7. Moving(b, <<>>)' => Unread' # <<>>
  <2>1. ASSUME NEW x \in Seq(Token) PROVE BeltOn \o x # <<>> /\ Servo(b) \o x # <<>>
    <3>1. BeltOn # <<>> /\ BeltOn \in Seq(Token) /\ Servo(b) \in Seq(Token) /\ Servo(b) # <<>>
      BY <1>3, Lines DEF BeltOn, ConveyorCmd, Servo, SetServoCmd
    <3>. QED BY <3>1, ConcatEqualIffEmpty
  <2>2. <<>> \in Seq(Token) /\ BeltOn \o <<>> \in Seq(Token)
    BY Lines
  <2>. QED BY <2>1, <2>2 DEF Moving
<1>. QED BY <1>3, <1>6, <1>7 DEF BoardInOverride

(* Every step of the firmware keeps the part that is about the board.      *)
LEMMA BoardStep ==
  ASSUME TypeInv, BufferInv, BoardInv, Arduino
  PROVE  BoardInv' /\ BufferInv'
<1>1. RunLoop \/ RunSort \/ RunSweep
  BY DEF Arduino, RunSort
<1>2. UNCHANGED <<curr_mode, curr_sort, curr_btn, count, category_scanned>>
  BY DEF Arduino, controllerVars
<1>3. BoardInv'
  <2>1. CASE curr_mode = "AUTO_SORT"
    BY <1>1, <1>2, <2>1, SessionBoard DEF BoardInv
  <2>2. CASE curr_mode = "IDLE"
    BY <1>1, <1>2, <2>2, IdleLoop, IdleSort, IdleSweep DEF BoardInv
  <2>3. CASE curr_mode = "SWEEP"
    BY <1>1, <1>2, <2>3, SweepBoard DEF BoardInv
  <2>4. CASE curr_mode = "OVERRIDE"
    BY <1>1, <1>2, <2>4, OverrideBoard DEF BoardInv
  <2>. QED BY <1>2, <2>1, <2>2, <2>3, <2>4 DEF BoardInv
<1>4. BufferInv'
  <2>1. CASE RunLoop
    BY <2>1, LoopReads
  <2>2. CASE RunSort \/ RunSweep
    BY <2>2 DEF BufferInv, RunSort, LaserBroken, SortTimeout, SortStopped, SortRead,
                EndAutoSort, RunSweep, SweepMove, SweepEnd, Sweeping
  <2>. QED BY <1>1, <2>1, <2>2
<1>. QED BY <1>3, <1>4
============================================================================
