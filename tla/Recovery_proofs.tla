-------------------------- MODULE Recovery_proofs ---------------------------
(***************************************************************************)
(* The two drivers find the thread again after bytes have been lost, for   *)
(* whatever the panel and the GPS receiver send, and whenever the program  *)
(* is busy.  Each invariant names what is being read, a packet or the      *)
(* sentences since the last newline handled, and how many of the bytes     *)
(* lost were lost since it began: those before have been paid for.         *)
(***************************************************************************)
EXTENDS SerialLines_proofs

----------------------------------------------------------------------------
(* The request of init_touch is sent, its answer read.                     *)
Starting == pc \in {"send", "sync", "valid"}

(* init_touch looks at nothing but the panel's line, and loses nothing.    *)
InitInv ==
  Starting =>
    /\ LostBefore("touch") = 0 /\ ~late["touch"]
    /\ rx["touch"].count = last["touch"] + One(rx["touch"].Ready)
    /\ pc = "send" => last["touch"] = -1
    /\ pc = "sync" => \/ last["touch"] \in {-1, 0}
                      \/ last["touch"] = 1 /\ rx["touch"].Rd
    /\ pc = "valid" => last["touch"] = 1 + got + One(rx["touch"].Rd)

LEMMA LineTypes ==
  ASSUME TypeInv, NEW l \in Line
  PROVE  /\ rx[l] \in Receiver /\ rx[l].count \in Nat /\ rx[l].Ready \in BOOLEAN
         /\ rx[l].Rd \in BOOLEAN /\ last[l] \in Int /\ taken[l] \in Nat /\ intact[l] \in Nat
         /\ LostBefore(l) \in Nat /\ last[l] >= -1 /\ last[l] <= rx[l].count
         /\ late[l] \in BOOLEAN
<1>1. LineInv /\ intact \in [Line -> Nat] /\ late \in [Line -> BOOLEAN]
  BY DEF TypeInv, TypeOK
<1>2. rx[l] \in Receiver /\ last[l] \in Int /\ taken[l] \in Nat
  BY <1>1 DEF LineInv, ByteInv
<1>3. rx[l].count \in Nat /\ rx[l].Ready \in BOOLEAN /\ rx[l].Rd \in BOOLEAN
  BY <1>2 DEF Receiver
<1>4. LostBefore(l) >= 0 /\ last[l] >= -1 /\ last[l] <= rx[l].count
  BY <1>1 DEF LineInv, ByteInv, Fresh
<1>5. LostBefore(l) \in Nat
  BY <1>2, <1>4 DEF LostBefore
<1>. QED BY <1>1, <1>2, <1>3, <1>4, <1>5

LEMMA InitInit == Init => InitInv
<1>. SUFFICES ASSUME Init PROVE InitInv
  OBVIOUS
<1>1. "touch" \in Line
  BY TrafficAssumption
<1>2. rx["touch"] = ReadProcess(RxReset) /\ last["touch"] = -1 /\ taken["touch"] = 0
      /\ pc = "send" /\ ~late["touch"]
  BY <1>1 DEF Init, AciaInit
<1>3. ReadProcess(RxReset).Ready /\ ReadProcess(RxReset).count = 0
  BY DEF ReadProcess, RxReset
<1>. QED BY <1>2, <1>3 DEF InitInv, LostBefore, One

LEMMA LinesInit ==
  ASSUME TypeInv, InitInv, Lines
  PROVE  InitInv'
<1>1. /\ "touch" \in Line /\ LineInv /\ traffic \in Traffics /\ rx \in [Line -> Receiver]
      /\ late \in [Line -> BOOLEAN]
  BY TrafficAssumption DEF TypeInv, TypeOK, LineInv, ByteInv
<1>2. UNCHANGED <<pc, got>>
  BY DEF Lines, ByteBegins, ByteEnds, BitsSent
<1>3. Idle("touch")
  BY <1>1, LinesKeep
<1>4. LostBefore("touch")' = LostBefore("touch")
  BY <1>3 DEF Idle, LostBefore
<1>5. SUFFICES ASSUME Starting
               PROVE  /\ ~late'["touch"]
                      /\ rx'["touch"].count = last'["touch"] + One(rx'["touch"].Ready)
  BY <1>2, <1>3, <1>4 DEF InitInv, Starting, Idle
<1>6. /\ rx["touch"].count = last["touch"] + One(rx["touch"].Ready) /\ ~late["touch"]
      /\ last'["touch"] = last["touch"] /\ Settled(rx["touch"]) /\ rx["touch"] \in Receiver
      /\ rx["touch"].count \in Nat /\ last["touch"] \in Int
  BY <1>1, <1>3, <1>5, LineTypes DEF InitInv, Idle, LineInv
<1>7. ASSUME NEW l \in Line, l # "touch", ByteBegins(l) \/ ByteEnds(l) \/ BitsSent(l)
      PROVE  rx'["touch"] = rx["touch"] /\ late'["touch"] = late["touch"]
  BY <1>1, <1>7 DEF ByteBegins, ByteEnds, BitsSent, RxData, RxStop, TxBit
<1>8. CASE ByteBegins("touch")
  <2>1. /\ rx'["touch"] = ReadProcess([rx["touch"] EXCEPT !.Ack = TRUE]) /\ ~rx["touch"].Ack
        /\ late' = late
    BY <1>1, <1>8 DEF ByteBegins, RxData
  <2>. QED BY <1>6, <2>1, DataSettled
<1>9. CASE ByteEnds("touch")
  <2>1. /\ rx'["touch"] = ReadProcess(Stopped(rx["touch"])) /\ rx["touch"].Ack
        /\ ~late'["touch"] /\ (Deaf("touch") \/ late["touch"] \/ ~(rx["touch"].Ready \/ rx["touch"].Rd))
    BY <1>1, <1>9 DEF ByteEnds, RxStop
  <2>2. ~rx["touch"].Ready /\ ~rx["touch"].Rd
    BY <1>5, <1>6, <2>1 DEF Deaf, Starting
  <2>3. rx'["touch"].count = rx["touch"].count + 1 /\ rx'["touch"].Ready
    BY <1>6, <2>1, <2>2, StopSettled
  <2>. QED BY <1>6, <2>1, <2>2, <2>3 DEF One
<1>10. CASE BitsSent("touch")
  BY <1>6, <1>10 DEF BitsSent, TxBit
<1>. QED BY <1>6, <1>7, <1>8, <1>9, <1>10 DEF Lines

(* While it starts the program is deaf to nothing on the panel's line.     *)
LEMMA StartNotLate ==
  ASSUME TypeInv, InitInv, Controller, Starting
  PROVE  ~late'["touch"]
<1>1. "touch" \in Line
  BY TrafficAssumption
<1>2. ~Deaf("touch") /\ ~late["touch"]
  BY DEF Deaf, Starting, InitInv
<1>. QED BY <1>1, <1>2 DEF Controller, Returns

LEMMA ControllerInit ==
  ASSUME TypeInv, InitInv, Controller
  PROVE  InitInv'
<1>. DEFINE T == "touch"
<1>1. /\ T \in Line /\ LineInv /\ traffic \in Traffics /\ Position /\ UNCHANGED traffic
      /\ rx[T].count \in Nat /\ last[T] \in Int /\ taken[T] \in Nat /\ rx[T].Rd \in BOOLEAN
      /\ got \in 0..3
  BY TrafficAssumption, LineTypes DEF TypeInv, TypeOK, Controller
<1>2. CASE ~Starting
  <2>1. ~Starting'
    BY <1>2 DEF Controller, Starting, PutChar, GetChar, GotSync, GotValidation, poll_gps,
                poll_touchscreen, GotPosition, Handle, IterationEnds
  <2>. QED BY <2>1 DEF InitInv, Starting
<1>3. CASE Starting
  <2>1. /\ LostBefore(T) = 0 /\ rx[T].count = last[T] + One(rx[T].Ready)
        /\ pc = "send" => last[T] = -1
        /\ pc = "sync" => last[T] \in {-1, 0} \/ (last[T] = 1 /\ rx[T].Rd)
        /\ pc = "valid" => last[T] = 1 + got + One(rx[T].Rd)
    BY <1>3 DEF InitInv
  <2>2. ~late'[T]
    BY <1>3, StartNotLate
  <2>. HIDE DEF T
  <2>3. CASE PutChar
    <3>1. UNCHANGED <<rx, last, taken>> /\ pc = "send" /\ pc' \in {"send", "sync"}
      BY <2>3 DEF PutChar, WriteTR
    <3>2. LostBefore(T)' = LostBefore(T)
      BY <3>1 DEF LostBefore
    <3>. QED BY <2>1, <2>2, <3>1, <3>2 DEF T, InitInv
  <2>4. ASSUME NEW l \in Line, GetChar(l) PROVE InitInv'
    <3>1. l = T /\ pc \in {"sync", "valid"} /\ UNCHANGED <<pc, got>>
      BY <1>3, <2>4, TrafficAssumption DEF T, GetChar, Reads, Starting
    <3>2. /\ ~rx[T].Rd /\ rx[T].Ready /\ ~rx'[T].Ready /\ rx'[T].Rd
          /\ last'[T] = rx[T].count /\ rx'[T].count = rx[T].count /\ taken'[T] = taken[T] + 1
      BY <1>1, <2>4, <3>1, GetCharKeeps DEF Takes
    <3>3. last'[T] = last[T] + 1
      BY <1>1, <2>1, <3>2 DEF One
    <3>4. LostBefore(T)' = 0
      <4>1. last[T] + 1 - taken[T] = 0
        BY <2>1 DEF LostBefore
      <4>2. LostBefore(T)' = last'[T] + 1 - taken'[T]
        BY DEF LostBefore, T
      <4>. QED BY <1>1, <3>2, <3>3, <4>1, <4>2
    <3>5. pc = "valid" => last'[T] = 1 + got + 1
      BY <1>1, <2>1, <3>2, <3>3 DEF One
    <3>6. rx'[T].count = last'[T] + One(rx'[T].Ready)
      BY <1>1, <3>2 DEF One
    <3>7. pc = "sync" => last'[T] = 0 \/ last'[T] = 1
      <4>1. pc = "sync" => last[T] = -1 \/ last[T] = 0
        BY <2>1, <3>2
      <4>. QED BY <1>1, <3>3, <4>1
    <3>. QED BY <2>2, <3>1, <3>2, <3>4, <3>5, <3>6, <3>7 DEF T, InitInv, One
  <2>5. CASE GotSync
    <3>1. /\ pc = "sync" /\ EndOfStrobe(T) /\ UNCHANGED <<got, last, taken>> /\ rx[T].Rd
          /\ pc' = IF Char(T) = Sync THEN "valid" ELSE "sync"
      BY <2>5 DEF T, GotSync, EndOfStrobe
    <3>2. ~rx'[T].Rd /\ ~rx'[T].Ready /\ rx'[T].count = rx[T].count
      BY <1>1, <3>1, StrobeKeeps DEF Ends
    <3>3. (Char(T) = Sync) <=> (last[T] = 1)
      BY <1>1, <3>1, TouchChar DEF T
    <3>4. ~rx[T].Ready /\ got = 0
      BY <1>1, <3>1 DEF LineInv, Settled, Position
    <3>5. LostBefore(T)' = LostBefore(T)
      BY <3>1 DEF LostBefore
    <3>6. rx'[T].count = last'[T] + One(rx'[T].Ready)
      BY <2>1, <3>1, <3>2, <3>4 DEF One
    <3>7. pc' = "valid" => last'[T] = 1 + got' + One(rx'[T].Rd)
      BY <3>1, <3>2, <3>3, <3>4 DEF One
    <3>8. pc' = "sync" => last'[T] \in {-1, 0}
      BY <2>1, <3>1, <3>3
    <3>. QED BY <2>1, <2>2, <3>1, <3>5, <3>6, <3>7, <3>8 DEF T, InitInv
  <2>6. CASE GotValidation
    <3>1. /\ pc = "valid" /\ EndOfStrobe(T) /\ UNCHANGED <<last, taken>> /\ rx[T].Rd
          /\ pc' = (IF got' = 0 THEN "busy" ELSE "valid") /\ got' = (got + 1) % 3
      BY <2>6 DEF T, GotValidation, EndOfStrobe
    <3>2. ~rx'[T].Rd /\ ~rx'[T].Ready /\ rx'[T].count = rx[T].count
      BY <1>1, <3>1, StrobeKeeps DEF Ends
    <3>3. ~rx[T].Ready /\ got \in 0..2
      BY <1>1, <3>1 DEF LineInv, Settled, Position
    <3>4. LostBefore(T)' = LostBefore(T)
      BY <3>1 DEF LostBefore
    <3>5. rx'[T].count = last'[T] + One(rx'[T].Ready)
      BY <2>1, <3>1, <3>2, <3>3 DEF One
    <3>6. pc' = "valid" => got' = got + 1
      BY <3>1, <3>3
    <3>7. pc' = "valid" => last'[T] = 1 + got' + One(rx'[T].Rd)
      BY <2>1, <3>1, <3>2, <3>3, <3>6 DEF One
    <3>. QED BY <2>1, <2>2, <3>1, <3>4, <3>5, <3>7 DEF T, InitInv, Starting
  <2>. QED BY <1>3, <2>3, <2>4, <2>5, <2>6 DEF Controller, Starting, poll_gps,
                poll_touchscreen, GotPosition, Handle, IterationEnds
<1>. QED BY <1>2, <1>3

----------------------------------------------------------------------------
(* Packets that have begun and were not handled as they were sent.         *)
Behind == (last["touch"] \div 5) - intact["touch"]

(* The byte at hand is the first of a packet.                              *)
Finding == pc = "touch" /\ rx["touch"].Rd /\ IsEventAt(last["touch"])

(* Packet q is being read, i of the bytes lost having been lost since it   *)
(* began.                                                                  *)
PacketAt(q, i) ==
  /\ i <= LostBefore("touch")
  /\ last["touch"] = 5 * q + got + One(rx["touch"].Rd) + i
  /\ (q - 1) - intact["touch"] <= 2 * (LostBefore("touch") - i)
  /\ i = 0 => /\ ts_state = Packets[q].event
              /\ \A j \in 1..got : ts_buff[j] = Packets[q].data[j]

TouchInv ==
  /\ Finding => Behind - 1 <= 2 * LostBefore("touch")
  /\ pc = "packet" => \E q \in 1..Len(Packets), i \in Nat : PacketAt(q, i)
  /\ ~Finding /\ pc # "packet" =>
       Behind - One(ts_ready /\ AsSent) <= 2 * LostBefore("touch")

LEMMA TouchNumbers ==
  ASSUME TypeInv
  PROVE  /\ "touch" \in Line /\ last["touch"] \in Int /\ intact["touch"] \in Nat
         /\ LostBefore("touch") \in Nat /\ got \in 0..3
         /\ last["touch"] >= -1 /\ taken["touch"] \in Nat
         /\ rx["touch"].Rd \in BOOLEAN /\ Len(Packets) \in Nat
         /\ LostBefore("touch") = last["touch"] + 1 - taken["touch"]
         /\ traffic \in Traffics /\ LineInv /\ Position
         /\ One(rx["touch"].Rd) \in {0, 1} /\ One(ts_ready /\ AsSent) \in {0, 1}
<1>1. "touch" \in Line /\ traffic \in Traffics /\ LineInv /\ Position /\ got \in 0..3
  BY TrafficAssumption DEF TypeInv, TypeOK
<1>2. LostBefore("touch") = last["touch"] + 1 - taken["touch"]
  BY DEF LostBefore
<1>3. Len(Packets) \in Nat
  BY <1>1, SentIsSequence
<1>. QED BY <1>1, <1>2, <1>3, LineTypes DEF One

(* Multiples of five among the bytes after a and up to b, without b.       *)
LEMMA Multiples ==
  ASSUME NEW a \in Int, NEW b \in Int, a >= -1, b > a
  PROVE  /\ (b \div 5) \in Int /\ (a \div 5) \in Int
         /\ (b \div 5) - 1 <= (a \div 5) + (b - a - 1)
         /\ ~IsEventAt(b) => (b \div 5 <= 0 \/ b \div 5 <= (a \div 5) + (b - a - 1))
<1>. DEFINE x == a \div 5
            y == b \div 5
<1>1. x \in Int /\ 5 * x <= a /\ a <= 5 * x + 4
  OBVIOUS
<1>2. y \in Int /\ 5 * y <= b /\ b <= 5 * y + 4 /\ b = 5 * y + (b % 5) /\ b % 5 \in 0..4
  OBVIOUS
<1>3. ~IsEventAt(b) => b < 5 \/ b % 5 # 0
  BY DEF IsEventAt
<1>. HIDE DEF x, y
<1>4. y - 1 <= x + (b - a - 1)
  BY <1>1, <1>2
<1>5. b < 5 => y <= 0
  BY <1>2
<1>6. b % 5 # 0 => y <= x + (b - a - 1)
  BY <1>1, <1>2
<1>. QED BY <1>1, <1>2, <1>3, <1>4, <1>5, <1>6 DEF x, y

----------------------------------------------------------------------------
(* While it starts no packet has been found.                               *)
LEMMA StartFindsNone == TypeInv /\ InitInv /\ Starting => TouchInv
<1>. SUFFICES ASSUME TypeInv, InitInv, Starting PROVE TouchInv
  OBVIOUS
<1>1. last["touch"] \in Int /\ last["touch"] <= 4 /\ last["touch"] >= -1
  BY TouchNumbers DEF InitInv, Starting, Position, One
<1>2. last["touch"] \div 5 \in Int /\ last["touch"] \div 5 <= 0
  BY <1>1
<1>3. Behind - One(ts_ready /\ AsSent) <= 2 * LostBefore("touch")
  BY <1>2, TouchNumbers DEF Behind
<1>4. ~Finding /\ pc # "packet"
  BY DEF Finding, Starting
<1>. QED BY <1>3, <1>4 DEF TouchInv

LEMMA TouchInit == Init => TouchInv
  BY TypeInit, InitInit, StartFindsNone DEF Init, Starting

(* What leaves the program where it is, and the line of the panel alone.   *)
LEMMA TouchRests ==
  ASSUME TypeInv, TouchInv, Idle("touch"), UNCHANGED <<traffic, pc, got, touchVars, intact>>
  PROVE  TouchInv'
<1>1. /\ UNCHANGED <<pc, got, ts_state, ts_buff, ts_ready, intact, Packets>>
      /\ last'["touch"] = last["touch"] /\ rx'["touch"].Rd = rx["touch"].Rd
      /\ LostBefore("touch")' = LostBefore("touch")
  BY DEF touchVars, Idle, LostBefore, Packets
<1>2. (Finding' <=> Finding) /\ Behind' = Behind /\ (AsSent' <=> AsSent)
  BY <1>1 DEF Finding, Behind, AsSent
<1>3. \A q, i : PacketAt(q, i)' <=> PacketAt(q, i)
  BY <1>1 DEF PacketAt
<1>4. Len(Packets)' = Len(Packets) /\ One(ts_ready /\ AsSent)' = One(ts_ready /\ AsSent)
  BY <1>1, <1>2
<1>5. (\E q \in 1..Len(Packets), i \in Nat : PacketAt(q, i))'
         <=> \E q \in 1..Len(Packets), i \in Nat : PacketAt(q, i)
  BY <1>3, <1>4
<1>. QED BY <1>1, <1>2, <1>4, <1>5 DEF TouchInv

(* From one scanning place to another.                                     *)
LEMMA ScanRests ==
  ASSUME TypeInv, TouchInv, UNCHANGED <<traffic, last, taken, intact, ts_ready>>,
         ~Finding, ~Finding', pc # "packet", pc' # "packet", ~ts_ready
  PROVE  TouchInv'
<1>1. LostBefore("touch")' = LostBefore("touch") /\ Behind' = Behind
  BY DEF LostBefore, Behind
<1>2. One(ts_ready /\ AsSent) = 0 /\ One(ts_ready /\ AsSent)' = 0
  BY DEF One
<1>. QED BY <1>1, <1>2 DEF TouchInv

LEMMA TouchGetChar ==
  ASSUME TypeInv, TypeInv', InitInv', TouchInv, UNCHANGED traffic, GetChar("touch")
  PROVE  TouchInv'
<1>. DEFINE d == last'["touch"] - last["touch"] - 1
<1>1. /\ UNCHANGED <<pc, got, touchVars, gpsVars, intact>> /\ pc \in Reads("touch")
      /\ Takes("touch")
  BY TouchNumbers, GetCharKeeps DEF GetChar
<1>2. /\ ~rx["touch"].Rd /\ rx'["touch"].Rd
      /\ last'["touch"] \in Int /\ last'["touch"] > last["touch"] /\ last["touch"] \in Int /\ last["touch"] >= -1
      /\ d \in Nat /\ last'["touch"] = last["touch"] + 1 + d
  BY <1>1, TouchNumbers DEF Takes
<1>3. LostBefore("touch")' = LostBefore("touch") + d
  <2>1. LostBefore("touch")' = last'["touch"] + 1 - taken'["touch"]
    BY DEF LostBefore
  <2>2. taken'["touch"] = taken["touch"] + 1
    BY <1>1 DEF Takes
  <2>3. LostBefore("touch") = last["touch"] + 1 - taken["touch"] /\ taken["touch"] \in Nat
    BY TouchNumbers
  <2>. HIDE DEF d
  <2>. QED BY <1>2, <2>1, <2>2, <2>3
<1>4. LostBefore("touch") \in Nat /\ intact["touch"] \in Nat /\ got \in 0..3 /\ intact' = intact
      /\ pc' = pc /\ got' = got
  BY <1>1, TouchNumbers
<1>5. CASE pc \in {"sync", "valid"}
  <2>1. Starting'
    BY <1>1, <1>5 DEF Starting
  <2>. QED BY <2>1, StartFindsNone, PTL
<1>6. CASE pc = "touch"
  <2>1. Behind <= 2 * LostBefore("touch")
    <3>1. ~Finding /\ ~ts_ready
      BY <1>2, <1>6, TouchNumbers DEF Finding, Position
    <3>2. One(ts_ready /\ AsSent) = 0
      BY <3>1 DEF One
    <3>. QED BY <1>2, <1>4, <1>6, <3>1, <3>2 DEF TouchInv, Behind
  <2>2. Behind = (last["touch"] \div 5) - intact["touch"] /\ Behind' = (last'["touch"] \div 5) - intact["touch"]
    BY <1>4 DEF Behind
  <2>3. /\ (last'["touch"] \div 5) \in Int /\ (last["touch"] \div 5) \in Int
        /\ (last'["touch"] \div 5) - 1 <= (last["touch"] \div 5) + d
        /\ ~IsEventAt(last'["touch"]) => \/ last'["touch"] \div 5 <= 0
                                   \/ last'["touch"] \div 5 <= (last["touch"] \div 5) + d
    BY <1>2, Multiples
  <2>. HIDE DEF d
  <2>4. Behind' - 1 <= 2 * LostBefore("touch")'
    BY <1>2, <1>3, <1>4, <2>1, <2>2, <2>3
  <2>5. ~IsEventAt(last'["touch"]) => Behind' <= 2 * LostBefore("touch")'
    BY <1>2, <1>3, <1>4, <2>1, <2>2, <2>3
  <2>6. Finding' <=> IsEventAt(last'["touch"])
    BY <1>2, <1>4, <1>6 DEF Finding
  <2>7. One(ts_ready /\ AsSent)' = 0
    BY <1>1, <1>6, TouchNumbers DEF Position, One, touchVars
  <2>. QED BY <1>2, <1>3, <1>4, <1>6, <2>2, <2>3, <2>4, <2>5, <2>6, <2>7 DEF TouchInv
<1>7. CASE pc = "packet"
  <2>1. PICK q \in 1..Len(Packets), i \in Nat : PacketAt(q, i)
    BY <1>7 DEF TouchInv
  <2>2. UNCHANGED <<ts_state, ts_buff, Packets>>
    BY <1>1 DEF touchVars, Packets
  <2>3. One(rx["touch"].Rd) = 0 /\ One(rx'["touch"].Rd) = 1
    BY <1>2 DEF One
  <2>4. q \in Nat /\ q >= 1
    BY <2>1, TouchNumbers
  <2>5. PICK k \in Nat : k = i + d
    BY <1>2
  <2>. HIDE DEF d
  <2>6. /\ i <= LostBefore("touch") /\ last["touch"] = 5 * q + got + i
        /\ (q - 1) - intact["touch"] <= 2 * (LostBefore("touch") - i)
    BY <1>4, <2>1, <2>3, <2>4 DEF PacketAt
  <2>7. last'["touch"] = 5 * q + got + 1 + k
    BY <1>2, <1>4, <2>4, <2>5, <2>6
  <2>8. k <= LostBefore("touch")' /\ LostBefore("touch")' - k = LostBefore("touch") - i
    BY <1>2, <1>3, <1>4, <2>5, <2>6
  <2>9. k = 0 => i = 0
    BY <1>2, <2>5
  <2>10. PacketAt(q, k)'
    BY <1>4, <2>1, <2>2, <2>3, <2>6, <2>7, <2>8, <2>9 DEF PacketAt
  <2>11. q \in 1..Len(Packets)'
    BY <2>2
  <2>12. \E p \in 1..Len(Packets)', j \in Nat : PacketAt(p, j)'
    BY <2>10, <2>11
  <2>. QED BY <1>4, <1>7, <2>12 DEF TouchInv, Finding
<1>. QED BY <1>1, <1>5, <1>6, <1>7 DEF Reads

LEMMA TouchPoll ==
  ASSUME TypeInv, TouchInv, UNCHANGED traffic, poll_touchscreen
  PROVE  TouchInv'
<1>1. /\ UNCHANGED <<got, ts_buff, ts_ready, last, taken, intact, Packets>> /\ pc = "touch"
      /\ ~ts_ready /\ got = 0
  BY TouchNumbers DEF poll_touchscreen, Position, Packets
<1>2. CASE ~rx["touch"].Rd /\ pc' = "handle"
  BY <1>1, <1>2, ScanRests DEF Finding
<1>3. CASE /\ EndOfStrobe("touch")
           /\ ts_state' = IF IsEvent(Char("touch")) THEN Char("touch")[1] ELSE ts_state
           /\ pc' = IF IsEvent(Char("touch")) THEN "packet" ELSE "handle"
  <2>1. rx["touch"].Rd /\ ~rx'["touch"].Rd
    BY <1>1, <1>3, TouchNumbers, StrobeKeeps DEF Ends, EndOfStrobe
  <2>2. IsEvent(Char("touch")) <=> IsEventAt(last["touch"])
    BY <2>1, TouchNumbers, TouchChar
  <2>3. CASE ~IsEventAt(last["touch"])
    BY <1>1, <1>3, <2>2, <2>3, ScanRests DEF Finding
  <2>4. CASE IsEventAt(last["touch"])
    <3>1. pc' = "packet" /\ ts_state' = Char("touch")[1]
      BY <1>3, <2>2, <2>4
    <3>2. PICK q \in Int : q = last["touch"] \div 5
      BY TouchNumbers
    <3>3. last["touch"] = 5 * q /\ q >= 1
      <4>1. last["touch"] \in Int /\ last["touch"] >= 5 /\ last["touch"] % 5 = 0
        BY <2>4, TouchNumbers DEF IsEventAt
      <4>. QED BY <3>2, <4>1
    <3>4. q \in 1..Len(Packets) /\ Char("touch")[1] = Packets[q].event
      <4>1. /\ last["touch"] \in 0..Len(Sent("touch")) /\ Len(Sent("touch")) \in Nat
            /\ Char("touch") = (IF last["touch"] = 0 THEN Nul ELSE Sent("touch")[last["touch"]])
        BY <2>1, TouchNumbers, CharIsSent
      <4>2. last["touch"] \in 1..Len(Sent("touch")) /\ Char("touch") = Sent("touch")[last["touch"]]
        BY <3>3, <4>1
      <4>. QED BY <2>4, <3>2, <4>2, TouchNumbers, TouchByte
    <3>5. (q - 1) - intact["touch"] <= 2 * LostBefore("touch")
      <4>1. Finding
        BY <1>1, <2>1, <2>4 DEF Finding
      <4>2. Behind - 1 <= 2 * LostBefore("touch") /\ Behind = q - intact["touch"]
        BY <3>2, <4>1 DEF TouchInv, Behind
      <4>3. q \in Int /\ intact["touch"] \in Nat /\ LostBefore("touch") \in Nat
        BY TouchNumbers
      <4>. HIDE DEF Behind
      <4>. QED BY <4>2, <4>3
    <3>6. LostBefore("touch")' = LostBefore("touch")
      BY <1>1 DEF LostBefore
    <3>7. One(rx'["touch"].Rd) = 0
      BY <2>1 DEF One
    <3>8. PacketAt(q, 0)'
      BY <1>1, <3>1, <3>3, <3>4, <3>5, <3>6, <3>7, TouchNumbers DEF PacketAt
    <3>9. q \in 1..Len(Packets)' /\ 0 \in Nat
      BY <1>1, <3>4
    <3>. QED BY <3>1, <3>8, <3>9 DEF TouchInv, Finding
  <2>. QED BY <2>3, <2>4
<1>. QED BY <1>2, <1>3 DEF poll_touchscreen

LEMMA TouchGot ==
  ASSUME TypeInv, TypeInv', TouchInv, UNCHANGED traffic, GotPosition
  PROVE  TouchInv'
<1>1. /\ UNCHANGED <<ts_state, last, taken, intact, Packets>> /\ pc = "packet"
      /\ EndOfStrobe("touch")
      /\ ts_buff' = Append(IF got = 0 THEN <<>> ELSE ts_buff, Char("touch")[2])
      /\ got' = (got + 1) % 4 /\ ts_ready' = (got' = 0)
      /\ pc' = IF got' = 0 THEN "handle" ELSE "packet"
  BY DEF GotPosition, Packets
<1>0. /\ last["touch"] \in Int /\ intact["touch"] \in Nat /\ LostBefore("touch") \in Nat
      /\ got \in 0..3
  BY TouchNumbers
<1>2. rx["touch"].Rd /\ ~rx'["touch"].Rd
  BY <1>1, TouchNumbers, StrobeKeeps DEF Ends, EndOfStrobe
<1>3. One(rx["touch"].Rd) = 1 /\ One(rx'["touch"].Rd) = 0
  BY <1>2 DEF One
<1>4. PICK q \in 1..Len(Packets), i \in Nat : PacketAt(q, i)
  BY <1>1 DEF TouchInv
<1>5. q \in Nat /\ q >= 1 /\ Packets[q] \in TouchPacket
  BY <1>4, TouchNumbers, SentIsSequence
<1>6. /\ i <= LostBefore("touch") /\ last["touch"] = 5 * q + got + 1 + i
      /\ (q - 1) - intact["touch"] <= 2 * (LostBefore("touch") - i)
  BY <1>0, <1>3, <1>4, <1>5 DEF PacketAt
<1>7. LostBefore("touch")' = LostBefore("touch")
  BY <1>1 DEF LostBefore
<1>8. /\ ts_buff' \in Seq(0..127) /\ Len(ts_buff') = got + 1
      /\ \A j \in 1..got : ts_buff'[j] = ts_buff[j]
      /\ ts_buff'[got + 1] = Char("touch")[2]
  <2>. DEFINE b == IF got = 0 THEN <<>> ELSE ts_buff
  <2>1. b \in Seq(0..127) /\ Len(b) = got /\ \A j \in 1..got : b[j] = ts_buff[j]
    BY <1>1, TouchNumbers DEF TypeInv, TypeOK, Position
  <2>2. ts_buff' = Append(b, Char("touch")[2])
    BY <1>1
  <2>3. Char("touch")[2] \in 0..127
    BY <1>2, TouchNumbers, TouchChar
  <2>. HIDE DEF b
  <2>. QED BY <2>1, <2>2, <2>3, TouchNumbers
<1>9. i = 0 => \A j \in 1..(got + 1) : ts_buff'[j] = Packets[q].data[j]
  <2>. SUFFICES ASSUME i = 0 PROVE \A j \in 1..(got + 1) : ts_buff'[j] = Packets[q].data[j]
    OBVIOUS
  <2>1. \A j \in 1..got : ts_buff'[j] = Packets[q].data[j]
    BY <1>4, <1>8 DEF PacketAt
  <2>2. ts_buff'[got + 1] = Packets[q].data[got + 1]
    <3>1. /\ last["touch"] \in 0..Len(Sent("touch")) /\ Len(Sent("touch")) \in Nat
          /\ Char("touch") = (IF last["touch"] = 0 THEN Nul ELSE Sent("touch")[last["touch"]])
      BY <1>2, TouchNumbers, CharIsSent
    <3>2. /\ last["touch"] = 5 * q + (got + 1) /\ got + 1 \in 1..4 /\ q > 0
          /\ last["touch"] > 0
      BY <1>0, <1>5, <1>6
    <3>3. /\ last["touch"] \in 1..Len(Sent("touch")) /\ Char("touch") = Sent("touch")[last["touch"]]
      BY <3>1, <3>2
    <3>4. PICK n \in 1..Len(Sent("touch")), j \in 1..4 : n = last["touch"] /\ j = got + 1
      BY <3>2, <3>3
    <3>5. \A p \in Nat, m \in 1..4 :
             p > 0 /\ n = 5 * p + m => Sent("touch")[n][2] = Packets[p].data[m]
      BY TouchNumbers, TouchByte
    <3>6. n = 5 * q + j
      BY <3>2, <3>4
    <3>7. Sent("touch")[n][2] = Packets[q].data[j]
      BY <1>5, <3>2, <3>5, <3>6
    <3>8. Char("touch")[2] = Packets[q].data[got + 1]
      BY <3>3, <3>4, <3>7
    <3>. QED BY <1>8, <3>8
  <2>3. \A j \in 1..(got + 1) : j \in 1..got \/ j = got + 1
    BY TouchNumbers
  <2>. QED BY <2>1, <2>2, <2>3
<1>10. CASE got < 3
  <2>1. got' = got + 1 /\ pc' = "packet"
    BY <1>0, <1>1, <1>10
  <2>2. last'["touch"] = 5 * q + got' + 0 + i
    BY <1>0, <1>1, <1>5, <1>6, <2>1
  <2>3. i = 0 => /\ ts_state' = Packets'[q].event
                 /\ \A j \in 1..got' : ts_buff'[j] = Packets'[q].data[j]
    BY <1>1, <1>4, <1>9, <2>1 DEF PacketAt
  <2>4. /\ i <= LostBefore("touch")'
        /\ (q - 1) - intact'["touch"] <= 2 * (LostBefore("touch")' - i)
    BY <1>1, <1>6, <1>7
  <2>5. PacketAt(q, i)'
    BY <1>3, <2>2, <2>3, <2>4 DEF PacketAt
  <2>6. q \in 1..Len(Packets)'
    BY <1>1
  <2>. QED BY <2>1, <2>5, <2>6 DEF TouchInv, Finding
<1>11. CASE got = 3
  <2>1. got' = 0 /\ pc' = "handle" /\ ts_ready'
    <3>1. got' = 0
      BY <1>1, <1>11
    <3>. QED BY <1>1, <3>1
  <2>2. Behind' = (last["touch"] \div 5) - intact["touch"]
    BY <1>1 DEF Behind
  <2>3. CASE i = 0
    <3>1. last["touch"] \div 5 = q
      BY <1>5, <1>6, <1>11, <2>3
    <3>2. AsSent'
      <4>1. /\ Packets[q].data \in [1..4 -> 0..127] /\ ts_buff' \in [1..4 -> 0..127]
        <5>1. Len(ts_buff') = 4
          BY <1>8, <1>11
        <5>2. ts_buff' \in [1..Len(ts_buff') -> 0..127]
          BY <1>8, LenProperties
        <5>3. Packets[q].data \in [1..4 -> 0..127]
          BY <1>5 DEF TouchPacket
        <5>. QED BY <5>1, <5>2, <5>3, Zenon
      <4>2. \A j \in 1..4 : ts_buff'[j] = Packets[q].data[j]
        BY <1>9, <1>11, <2>3
      <4>3. ts_buff' = Packets[q].data
        BY <4>1, <4>2
      <4>4. ts_state' = Packets[q].event
        BY <1>1, <1>4, <2>3 DEF PacketAt
      <4>5. q \in DOMAIN Packets
        BY <1>4, TouchNumbers, SentIsSequence
      <4>. QED BY <1>1, <4>3, <4>4, <4>5, Zenon DEF AsSent
    <3>3. One(ts_ready /\ AsSent)' = 1
      BY <2>1, <3>2 DEF One
    <3>4. Behind' - 1 <= 2 * LostBefore("touch")'
      BY <1>0, <1>5, <1>6, <1>7, <2>2, <2>3, <3>1
    <3>. QED BY <2>1, <3>3, <3>4 DEF TouchInv, Finding
  <2>4. CASE i # 0
    <3>1. PICK k \in Int : k = last["touch"] \div 5 /\ 5 * k <= last["touch"]
      BY <1>0
    <3>2. 5 * k <= 5 * q + 4 + i /\ i >= 1
      BY <1>5, <1>6, <1>11, <2>4, <3>1
    <3>5. k - q <= 2 * i - 1
      BY <1>5, <3>2
    <3>6. k - intact["touch"] <= 2 * LostBefore("touch")
      BY <1>0, <1>5, <1>6, <3>5
    <3>3. One(ts_ready /\ AsSent)' \in {0, 1}
      BY DEF One
    <3>4. Behind' - One(ts_ready /\ AsSent)' <= 2 * LostBefore("touch")'
      BY <1>0, <1>7, <2>2, <3>1, <3>3, <3>6
    <3>. QED BY <2>1, <3>4 DEF TouchInv, Finding
  <2>. QED BY <2>3, <2>4
<1>. QED BY <1>0, <1>10, <1>11

LEMMA TouchHandle ==
  ASSUME TypeInv, TouchInv, UNCHANGED traffic, Handle
  PROVE  TouchInv'
<1>1. /\ UNCHANGED <<ts_state, ts_buff, last, taken, Packets>> /\ pc = "handle"
      /\ pc' \in {"busy", "gps"} /\ ts_ready' = FALSE
      /\ intact'["touch"] = intact["touch"] + One(ts_ready /\ AsSent)
  BY DEF Handle, Packets
<1>2. Behind - One(ts_ready /\ AsSent) <= 2 * LostBefore("touch")
  BY <1>1 DEF TouchInv, Finding
<1>3. Behind' = Behind - One(ts_ready /\ AsSent)
  <2>1. Behind' = (last["touch"] \div 5) - intact'["touch"]
        /\ Behind = (last["touch"] \div 5) - intact["touch"]
    BY <1>1 DEF Behind
  <2>2. last["touch"] \div 5 \in Int
    BY TouchNumbers
  <2>. QED BY <1>1, <2>1, <2>2, TouchNumbers
<1>4. LostBefore("touch")' = LostBefore("touch") /\ One(ts_ready /\ AsSent)' = 0
  BY <1>1 DEF LostBefore, One
<1>5. Behind' \in Int
  BY <1>3, TouchNumbers DEF Behind
<1>. QED BY <1>1, <1>2, <1>3, <1>4, <1>5 DEF TouchInv, Finding

LEMMA TouchStep ==
  ASSUME TypeInv, TypeInv', InitInv, InitInv', TouchInv, [Next]_vars
  PROVE  TouchInv'
<1>1. CASE UNCHANGED vars
  <2>1. UNCHANGED <<rx, traffic, pc, got, touchVars, last, taken, intact>>
    BY <1>1 DEF vars, aciaVars
  <2>. QED BY <2>1, TouchRests DEF Idle
<1>2. CASE Lines
  <2>1. Idle("touch") /\ UNCHANGED traffic
    BY <1>2, TouchNumbers, LinesKeep
  <2>2. UNCHANGED <<pc, got, touchVars, intact>>
    BY <1>2 DEF Lines, ByteBegins, ByteEnds, BitsSent
  <2>. QED BY <2>1, <2>2, TouchRests
<1>3. CASE Controller
  <2>1. UNCHANGED traffic
    BY <1>3 DEF Controller
  <2>2. CASE Starting'
    BY <2>2, StartFindsNone, PTL
  <2>3. ASSUME ~Starting', PutChar \/ GotSync PROVE FALSE
    BY <2>3 DEF PutChar, GotSync, Starting
  <2>4. ASSUME NEW l \in Line, GetChar(l) PROVE TouchInv'
    <3>1. CASE l = "touch"
      BY <2>1, <2>4, <3>1, TouchGetChar
    <3>2. CASE l # "touch"
      <4>1. Idle("touch")
        BY <2>1, <2>4, <3>2, TouchNumbers, GetCharKeeps
      <4>2. UNCHANGED <<pc, got, touchVars, intact>>
        BY <2>4 DEF GetChar
      <4>. QED BY <2>1, <4>1, <4>2, TouchRests
    <3>. QED BY <3>1, <3>2
  <2>5. ASSUME ~Starting', GotValidation PROVE TouchInv'
    <3>1. /\ pc = "valid" /\ pc' = "busy" /\ got' = 0 /\ rx["touch"].Rd
          /\ UNCHANGED <<last, taken, intact, touchVars>> /\ got' = (got + 1) % 3
      BY <2>5 DEF GotValidation, Starting, EndOfStrobe
    <3>2. Behind - One(ts_ready /\ AsSent) <= 2 * LostBefore("touch")
      BY <3>1, StartFindsNone DEF TouchInv, Finding, Starting
    <3>3. ~ts_ready /\ ~Finding /\ ~Finding' /\ pc # "packet" /\ pc' # "packet"
      BY <3>1, TouchNumbers DEF Finding, Position
    <3>. QED BY <2>1, <3>1, <3>3, ScanRests DEF touchVars
  <2>6. CASE poll_gps
    <3>1. /\ UNCHANGED <<got, touchVars, last, taken, intact>> /\ pc = "gps" /\ pc' = "touch"
      BY <2>6 DEF poll_gps
    <3>2. ~rx["touch"].Rd /\ ~ts_ready
      BY <3>1, TouchNumbers DEF Position
    <3>3. rx'["touch"].Rd = rx["touch"].Rd
      BY <2>6, TouchNumbers DEF poll_gps, EndOfStrobe, aciaVars, LineInv, ByteInv
    <3>. QED BY <2>1, <3>1, <3>2, <3>3, ScanRests DEF Finding, touchVars
  <2>7. CASE IterationEnds
    <3>1. /\ UNCHANGED <<touchVars, last, taken, intact>> /\ pc = "busy" /\ pc' = "gps"
      BY <2>7 DEF IterationEnds
    <3>. QED BY <2>1, <3>1, TouchNumbers, ScanRests DEF Finding, Position, touchVars
  <2>. QED BY <1>3, <2>1, <2>2, <2>3, <2>4, <2>5, <2>6, <2>7, TouchPoll, TouchGot, TouchHandle
           DEF Controller
<1>. QED BY <1>1, <1>2, <1>3 DEF Next

PanelInv == TypeInv /\ InitInv /\ TouchInv

LEMMA PanelIsInvariant == Spec => []PanelInv
<1>1. Init => PanelInv
  BY TypeInit, InitInit, TouchInit DEF PanelInv
<1>2. PanelInv /\ [Next]_vars => PanelInv'
  <2>. SUFFICES ASSUME PanelInv, [Next]_vars PROVE PanelInv'
    OBVIOUS
  <2>1. TypeInv'
    BY TypeStep DEF PanelInv
  <2>2. InitInv'
    <3>1. CASE UNCHANGED vars
      <4>1. UNCHANGED <<rx, pc, got, late, last, taken>>
        BY <3>1 DEF vars, aciaVars
      <4>2. LostBefore("touch")' = LostBefore("touch")
        BY <4>1 DEF LostBefore
      <4>. QED BY <4>1, <4>2 DEF PanelInv, InitInv, Starting
    <3>. QED BY <3>1, LinesInit, ControllerInit DEF PanelInv, Next
  <2>. QED BY <2>1, <2>2, TouchStep DEF PanelInv
<1>. QED BY <1>1, <1>2, PTL DEF Spec

(* Whatever the panel sends and whenever the program is busy, at most two  *)
(* touch packets are not handled as they were sent for each byte that was  *)
(* overrun: poll_touchscreen finds the beginning of a packet again, and    *)
(* waits for four bytes that are the packet's own unless one of them was   *)
(* lost.                                                                   *)
THEOREM PanelRecovers == Spec => []PacketsRecovered
<1>1. PanelInv => PacketsRecovered
  <2>. SUFFICES ASSUME PanelInv, pc = "gps"
                PROVE  (last["touch"] - 4) \div 5 - intact["touch"] <= 2 * Lost("touch")
    BY DEF PacketsRecovered, Polling, Answer
  <2>1. TypeInv /\ TouchInv
    BY DEF PanelInv
  <2>2. LostBefore("touch") <= Lost("touch") /\ Lost("touch") \in Nat
    BY <2>1, TouchNumbers, LossIsSeen
  <2>3. Behind - One(ts_ready /\ AsSent) <= 2 * LostBefore("touch")
    BY <2>1 DEF TouchInv, Finding
  <2>4. One(ts_ready /\ AsSent) = 0
    BY <2>1, TouchNumbers DEF Position, One
  <2>5. /\ last["touch"] \div 5 \in Int /\ (last["touch"] - 4) \div 5 \in Int
        /\ (last["touch"] - 4) \div 5 <= last["touch"] \div 5
    BY <2>1, TouchNumbers
  <2>6. intact["touch"] \in Nat /\ LostBefore("touch") \in Nat
    BY <2>1, TouchNumbers
  <2>. QED BY <2>2, <2>3, <2>4, <2>5, <2>6 DEF Behind
<1>. QED BY <1>1, PanelIsInvariant, PTL

----------------------------------------------------------------------------
(* The time after m sentences, if no byte has been lost.                   *)
Timed(m) == {i \in 2..m : Sentences[i].type = "GGA"}
Latest(S) == CHOOSE i \in S : \A j \in S : j <= i
TimeAt(m) ==
  IF Timed(m) = {} THEN curr_time = Nul /\ gpgga_sentence = <<>>
  ELSE /\ curr_time = <<"field", Sentences[Latest(Timed(m))].field>>
       /\ gpgga_sentence = SentenceBytes(Sentences[Latest(Timed(m))])

(* m sentences have been handled, the last of them up to its newline, and  *)
(* since then e of the bytes lost were lost; before the first the NUL of   *)
(* reset is number 0.                                                      *)
GpsAt(m, e) ==
  /\ e <= LostBefore("gps") /\ m <= Len(Sentences)
  /\ 4 * m <= last["gps"] \/ m = 0
  /\ Len(gps_buff) + One(rx["gps"].Rd) = last["gps"] - 4 * m - e + One(m = 0)
  /\ (last["gps"] - 4 * m) \div 4
        <= e + One((rx["gps"].Rd \/ gps_ready) /\ IsNewlineAt(last["gps"]))
  /\ gps_ready => IsNewlineAt(last["gps"]) /\ last["gps"] > 4 * m
  /\ m - intact["gps"] <= 2 * (LostBefore("gps") - e) + 1 - One(m = 0)
  /\ e = 0 => \A j \in 1..Len(gps_buff) : gps_buff[j] = ByteAt("gps", 4 * m + j - One(m = 0))
  /\ LostBefore("gps") = 0 => TimeAt(m)

GpsInv == \E m \in Nat, e \in Nat : GpsAt(m, e)

LEMMA GpsNumbers ==
  ASSUME TypeInv
  PROVE  /\ "gps" \in Line /\ last["gps"] \in Int /\ intact["gps"] \in Nat
         /\ LostBefore("gps") \in Nat
         /\ last["gps"] >= -1 /\ taken["gps"] \in Nat
         /\ rx["gps"].Rd \in BOOLEAN /\ Len(Sentences) \in Nat
         /\ LostBefore("gps") = last["gps"] + 1 - taken["gps"]
         /\ gps_buff \in Seq(Byte) /\ Len(gps_buff) \in Nat /\ gps_ready \in BOOLEAN
         /\ One(rx["gps"].Rd) \in {0, 1}
         /\ traffic \in Traffics /\ LineInv /\ Position
<1>1. /\ "gps" \in Line /\ traffic \in Traffics /\ LineInv /\ Position
      /\ gps_buff \in Seq(Byte) /\ gps_ready \in BOOLEAN
  BY TrafficAssumption DEF TypeInv, TypeOK
<1>2. LostBefore("gps") = last["gps"] + 1 - taken["gps"]
  BY DEF LostBefore
<1>3. Len(Sentences) \in Nat
  BY <1>1, SentIsSequence
<1>. QED BY <1>1, <1>2, <1>3, LineTypes DEF One

LEMMA GpsInit == Init => GpsInv
<1>. SUFFICES ASSUME Init PROVE GpsAt(0, 0)
  BY DEF GpsInv
<1>1. TypeInv
  BY TypeInit
<1>2. /\ last["gps"] = -1 /\ taken["gps"] = 0 /\ intact["gps"] = 0 /\ gps_buff = <<>>
      /\ gps_ready = FALSE /\ curr_time = Nul /\ gpgga_sentence = <<>> /\ pc = "send"
  BY <1>1, GpsNumbers DEF Init
<1>3. ~rx["gps"].Rd /\ LostBefore("gps") = 0 /\ Len(gps_buff) = 0
  BY <1>1, <1>2, GpsNumbers DEF Position
<1>4. One(rx["gps"].Rd) = 0 /\ One(0 = 0) = 1
      /\ One((rx["gps"].Rd \/ gps_ready) /\ IsNewlineAt(last["gps"])) = 0
  BY <1>2, <1>3 DEF One
<1>5. TimeAt(0)
  <2>1. Timed(0) = {}
    BY DEF Timed
  <2>. QED BY <1>2, <2>1 DEF TimeAt
<1>6. (last["gps"] - 4 * 0) \div 4 <= 0
  BY <1>2
<1>7. Len(Sentences) \in Nat
  BY <1>1, GpsNumbers
<1>. QED BY <1>2, <1>3, <1>4, <1>5, <1>6, <1>7 DEF GpsAt

LEMMA GpsRests ==
  ASSUME TypeInv, GpsInv, Idle("gps"), UNCHANGED <<traffic, gpsVars>>,
         intact'["gps"] = intact["gps"]
  PROVE  GpsInv'
<1>1. /\ UNCHANGED <<gps_buff, gps_ready, curr_time, gpgga_sentence, Sentences>>
      /\ last'["gps"] = last["gps"] /\ rx'["gps"].Rd = rx["gps"].Rd
      /\ LostBefore("gps")' = LostBefore("gps") /\ intact'["gps"] = intact["gps"]
  BY DEF gpsVars, Idle, LostBefore, Sentences
<1>2. \A n : ByteAt("gps", n)' = ByteAt("gps", n)
  BY DEF ByteAt, Sent
<1>3. \A m : TimeAt(m)' <=> TimeAt(m)
  BY <1>1 DEF TimeAt, Timed
<1>4. \A m, e : GpsAt(m, e)' <=> GpsAt(m, e)
  BY <1>1, <1>2, <1>3 DEF GpsAt
<1>. QED BY <1>4 DEF GpsInv

(* The same for fours.                                                     *)
LEMMA Fours ==
  ASSUME NEW a \in Int, NEW d \in Nat, NEW m \in Nat
  PROVE  /\ (a - 4 * m) \div 4 \in Int /\ (a + 1 + d - 4 * m) \div 4 \in Int
         /\ (a + 1 + d - 4 * m) \div 4 <= (a - 4 * m) \div 4 + d + 1
         /\ (a + 1 + d) % 4 # 0 =>
              (a + 1 + d - 4 * m) \div 4 <= (a - 4 * m) \div 4 + d
<1>. DEFINE x == (a - 4 * m) \div 4
            y == (a + 1 + d - 4 * m) \div 4
            z == (a + 1 + d) \div 4
<1>1. x \in Int /\ 4 * x <= a - 4 * m /\ a - 4 * m <= 4 * x + 3
  OBVIOUS
<1>2. y \in Int /\ 4 * y <= a + 1 + d - 4 * m /\ a + 1 + d - 4 * m <= 4 * y + 3
  OBVIOUS
<1>3. z \in Int /\ a + 1 + d = 4 * z + ((a + 1 + d) % 4) /\ (a + 1 + d) % 4 \in 0..3
  OBVIOUS
<1>. HIDE DEF x, y, z
<1>4. y <= x + d + 1
  BY <1>1, <1>2
<1>5. ASSUME (a + 1 + d) % 4 # 0 PROVE y <= x + d
  <2>1. y = z - m
    BY <1>2, <1>3
  <2>. QED BY <1>1, <1>3, <1>5, <2>1
<1>. QED BY <1>1, <1>2, <1>4, <1>5 DEF x, y

LEMMA GpsGetChar ==
  ASSUME TypeInv, GpsInv, UNCHANGED traffic, GetChar("gps")
  PROVE  GpsInv'
<1>1. /\ UNCHANGED <<pc, gps_buff, gps_ready, curr_time, gpgga_sentence, intact, Sentences>>
      /\ pc = "gps" /\ Takes("gps")
  BY GpsNumbers, GetCharKeeps DEF GetChar, Reads, gpsVars, Sentences
<1>2. PICK m \in Nat, e \in Nat : GpsAt(m, e)
  BY DEF GpsInv
<1>3. PICK d \in Nat : last'["gps"] = last["gps"] + 1 + d
  <2>1. last'["gps"] \in Int /\ last["gps"] \in Int /\ last'["gps"] > last["gps"]
    BY <1>1, GpsNumbers DEF Takes
  <2>2. last'["gps"] - last["gps"] - 1 \in Nat
    BY <2>1
  <2>. QED BY <2>1, <2>2
<1>4. LostBefore("gps")' = LostBefore("gps") + d
  <2>1. LostBefore("gps")' = last'["gps"] + 1 - taken'["gps"]
    BY DEF LostBefore
  <2>2. taken'["gps"] = taken["gps"] + 1
    BY <1>1 DEF Takes
  <2>3. LostBefore("gps") = last["gps"] + 1 - taken["gps"] /\ taken["gps"] \in Nat
        /\ last["gps"] \in Int
    BY GpsNumbers
  <2>. QED BY <1>3, <2>1, <2>2, <2>3
<1>5. ~rx["gps"].Rd /\ rx'["gps"].Rd /\ ~gps_ready
  BY <1>1, GpsNumbers DEF Takes, Position
<1>6. /\ One(rx["gps"].Rd) = 0 /\ One(rx'["gps"].Rd) = 1 /\ One(m = 0) \in {0, 1}
      /\ One((rx["gps"].Rd \/ gps_ready) /\ IsNewlineAt(last["gps"])) = 0
      /\ One((rx'["gps"].Rd \/ gps_ready') /\ IsNewlineAt(last'["gps"]))
           = One(IsNewlineAt(last'["gps"]))
  BY <1>5 DEF One
<1>7. /\ last["gps"] \in Int /\ last["gps"] >= -1 /\ LostBefore("gps") \in Nat
      /\ Len(gps_buff) \in Nat /\ intact["gps"] \in Nat /\ Len(Sentences) \in Nat
  BY GpsNumbers
<1>8. /\ e <= LostBefore("gps") /\ m <= Len(Sentences)
      /\ 4 * m <= last["gps"] \/ m = 0
      /\ Len(gps_buff) + 0 = last["gps"] - 4 * m - e + One(m = 0)
      /\ (last["gps"] - 4 * m) \div 4 <= e + 0
      /\ m - intact["gps"] <= 2 * (LostBefore("gps") - e) + 1 - One(m = 0)
  BY <1>2, <1>6 DEF GpsAt
<1>9. PICK k \in Nat : k = e + d
  OBVIOUS
<1>10. (last'["gps"] - 4 * m) \div 4 <= k + One(IsNewlineAt(last'["gps"]))
  <2>. DEFINE x == (last["gps"] - 4 * m) \div 4
              y == (last["gps"] + 1 + d - 4 * m) \div 4
  <2>1. /\ x \in Int /\ y \in Int /\ y <= x + d + 1
        /\ (last["gps"] + 1 + d) % 4 # 0 => y <= x + d
    BY <1>7, Fours
  <2>2. x <= e /\ (last'["gps"] - 4 * m) \div 4 = y
    <3>1. x <= e + 0
      BY <1>8
    <3>2. (last'["gps"] - 4 * m) \div 4 = y
      <4>1. last'["gps"] - 4 * m = last["gps"] + 1 + d - 4 * m
        BY <1>3, <1>7
      <4>. QED BY <4>1
    <3>. HIDE DEF x, y
    <3>. QED BY <2>1, <3>1, <3>2
  <2>3. CASE last["gps"] + 1 + d <= 0
    <3>1. last["gps"] + 1 + d - 4 * m <= 0 /\ last["gps"] + 1 + d - 4 * m \in Int
      BY <1>7, <2>3
    <3>2. y <= 0
      BY <3>1
    <3>. HIDE DEF x, y
    <3>3. One(IsNewlineAt(last'["gps"])) \in {0, 1}
      BY DEF One
    <3>. QED BY <1>9, <2>1, <2>2, <3>2, <3>3
  <2>4. CASE last["gps"] + 1 + d > 0
    <3>1. IsNewlineAt(last'["gps"]) <=> (last["gps"] + 1 + d) % 4 = 0
      BY <1>3, <2>4 DEF IsNewlineAt
    <3>. HIDE DEF x, y
    <3>2. CASE IsNewlineAt(last'["gps"])
      <4>1. One(IsNewlineAt(last'["gps"])) = 1
        BY <3>2 DEF One
      <4>. QED BY <1>9, <2>1, <2>2, <4>1
    <3>3. CASE ~IsNewlineAt(last'["gps"])
      <4>1. One(IsNewlineAt(last'["gps"])) = 0
        BY <3>3 DEF One
      <4>. QED BY <1>9, <2>1, <2>2, <3>1, <3>3, <4>1
    <3>. QED BY <3>2, <3>3
  <2>. QED BY <1>7, <2>3, <2>4
<1>11. \A n : ByteAt("gps", n)' = ByteAt("gps", n)
  BY DEF ByteAt, Sent
<1>12. TimeAt(m)' <=> TimeAt(m)
  BY <1>1 DEF TimeAt, Timed
<1>13. /\ k <= LostBefore("gps")' /\ m <= Len(Sentences)'
       /\ 4 * m <= last'["gps"] \/ m = 0
       /\ Len(gps_buff)' + 1 = last'["gps"] - 4 * m - k + One(m = 0)
       /\ m - intact'["gps"] <= 2 * (LostBefore("gps")' - k) + 1 - One(m = 0)
  <2>. DEFINE L == LostBefore("gps")
              a == last["gps"]
              b == Len(gps_buff)
              c == intact["gps"]
              f == One(m = 0)
  <2>1. /\ L \in Nat /\ a \in Int /\ b \in Nat /\ c \in Nat /\ f \in {0, 1}
        /\ e <= L /\ (4 * m <= a \/ m = 0) /\ b + 0 = a - 4 * m - e + f
        /\ m - c <= 2 * (L - e) + 1 - f
    BY <1>6, <1>7, <1>8
  <2>2. /\ LostBefore("gps")' = L + d /\ last'["gps"] = a + 1 + d /\ Len(gps_buff)' = b
        /\ intact'["gps"] = c /\ m <= Len(Sentences)'
    BY <1>1, <1>3, <1>4, <1>8
  <2>. HIDE DEF L, a, b, c, f
  <2>3. /\ k <= L + d
        /\ 4 * m <= a + 1 + d \/ m = 0
        /\ b + 1 = (a + 1 + d) - 4 * m - k + f
        /\ m - c <= 2 * ((L + d) - k) + 1 - f
    BY <1>9, <2>1
  <2>. QED BY <2>2, <2>3, Zenon DEF f
<1>14. k = 0 => \A j \in 1..Len(gps_buff)' :
                  gps_buff'[j] = ByteAt("gps", 4 * m + j - One(m = 0))'
  <2>1. k = 0 => e = 0
    BY <1>9
  <2>. QED BY <1>1, <1>2, <1>11, <2>1 DEF GpsAt
<1>15. LostBefore("gps")' = 0 => TimeAt(m)'
  BY <1>2, <1>4, <1>7, <1>12 DEF GpsAt
<1>16. GpsAt(m, k)'
  BY <1>1, <1>5, <1>6, <1>10, <1>13, <1>14, <1>15 DEF GpsAt
<1>. QED BY <1>16 DEF GpsInv

LEMMA GpsPoll ==
  ASSUME TypeInv, GpsInv, UNCHANGED traffic, poll_gps
  PROVE  GpsInv'
<1>1. /\ UNCHANGED <<curr_time, gpgga_sentence, last, taken, intact, Sentences>> /\ pc = "gps"
      /\ ~gps_ready
  BY GpsNumbers DEF poll_gps, Position, Sentences
<1>2. CASE UNCHANGED <<aciaVars, gps_buff, gps_ready>>
  <2>1. Idle("gps") /\ UNCHANGED gpsVars
    BY <1>1, <1>2 DEF Idle, aciaVars, gpsVars
  <2>. QED BY <1>1, <2>1, GpsRests
<1>3. CASE /\ EndOfStrobe("gps") /\ gps_buff' = Append(gps_buff, Char("gps"))
           /\ gps_ready' = (gps_ready \/ Char("gps")[1] = "newline")
  <2>1. rx["gps"].Rd /\ ~rx'["gps"].Rd
    BY <1>1, <1>3, GpsNumbers, StrobeKeeps DEF Ends, EndOfStrobe
  <2>2. /\ last["gps"] \in Nat /\ Char("gps") \in Byte
        /\ (Char("gps")[1] = "newline") <=> IsNewlineAt(last["gps"])
        /\ Char("gps") = ByteAt("gps", last["gps"])
    BY <2>1, GpsNumbers, GpsChar
  <2>3. gps_ready' <=> IsNewlineAt(last["gps"])
    BY <1>1, <1>3, <2>2
  <2>4. PICK m \in Nat, e \in Nat : GpsAt(m, e)
    BY DEF GpsInv
  <2>5. /\ One(rx["gps"].Rd) = 1 /\ One(rx'["gps"].Rd) = 0 /\ One(m = 0) \in {0, 1}
        /\ m > 0 => One(m = 0) = 0
        /\ One((rx["gps"].Rd \/ gps_ready) /\ IsNewlineAt(last["gps"]))
             = One(IsNewlineAt(last["gps"]))
        /\ One((rx'["gps"].Rd \/ gps_ready') /\ IsNewlineAt(last["gps"]))
             = One(IsNewlineAt(last["gps"]))
    BY <2>1, <2>3 DEF One
  <2>6. /\ e <= LostBefore("gps") /\ m <= Len(Sentences)
        /\ 4 * m <= last["gps"] \/ m = 0
        /\ Len(gps_buff) + 1 = last["gps"] - 4 * m - e + One(m = 0)
        /\ (last["gps"] - 4 * m) \div 4 <= e + One(IsNewlineAt(last["gps"]))
        /\ m - intact["gps"] <= 2 * (LostBefore("gps") - e) + 1 - One(m = 0)
    BY <2>4, <2>5 DEF GpsAt
  <2>7. /\ Len(gps_buff') = Len(gps_buff) + 1 /\ Len(gps_buff) \in Nat
        /\ \A j \in 1..Len(gps_buff) : gps_buff'[j] = gps_buff[j]
        /\ gps_buff'[Len(gps_buff) + 1] = Char("gps")
    BY <1>3, <2>2, GpsNumbers
  <2>8. IsNewlineAt(last["gps"]) => last["gps"] > 4 * m
    <3>1. CASE m = 0
      BY <3>1 DEF IsNewlineAt
    <3>2. CASE m > 0
      BY <2>2, <2>5, <2>6, <2>7, <3>2
    <3>. QED BY <3>1, <3>2
  <2>9. \A n : ByteAt("gps", n)' = ByteAt("gps", n)
    BY DEF ByteAt, Sent
  <2>10. e = 0 => \A j \in 1..Len(gps_buff') :
                    gps_buff'[j] = ByteAt("gps", 4 * m + j - One(m = 0))
    <3>. SUFFICES ASSUME e = 0, NEW j \in 1..Len(gps_buff')
                  PROVE  gps_buff'[j] = ByteAt("gps", 4 * m + j - One(m = 0))
      OBVIOUS
    <3>1. CASE j \in 1..Len(gps_buff)
      BY <2>4, <2>7, <3>1 DEF GpsAt
    <3>2. CASE j = Len(gps_buff) + 1
      <4>1. /\ Len(gps_buff) + 1 = last["gps"] - 4 * m - 0 + One(m = 0)
            /\ last["gps"] \in Nat /\ One(m = 0) \in {0, 1} /\ Len(gps_buff) \in Nat
        BY <2>2, <2>5, <2>6, <2>7
      <4>2. 4 * m + (Len(gps_buff) + 1) - One(m = 0) = last["gps"]
        BY <4>1
      <4>3. 4 * m + j - One(m = 0) = last["gps"]
        BY <3>2, <4>2, Zenon
      <4>4. gps_buff'[Len(gps_buff) + 1] = Char("gps")
            /\ Char("gps") = ByteAt("gps", last["gps"])
        BY <2>2, <2>7, Zenon
      <4>. QED BY <3>2, <4>3, <4>4, Zenon
    <3>. QED BY <2>7, <3>1, <3>2
  <2>11. TimeAt(m)' <=> TimeAt(m)
    BY <1>1 DEF TimeAt, Timed
  <2>12. LostBefore("gps")' = LostBefore("gps")
    BY <1>1 DEF LostBefore
  <2>13. GpsAt(m, e)'
    <3>1. /\ e <= LostBefore("gps")' /\ m <= Len(Sentences')
          /\ 4 * m <= last'["gps"] \/ m = 0
      BY <1>1, <2>6, <2>12
    <3>2. Len(gps_buff') + One(rx'["gps"].Rd) = last'["gps"] - 4 * m - e + One(m = 0)
      BY <1>1, <2>5, <2>6, <2>7
    <3>3. (last'["gps"] - 4 * m) \div 4
            <= e + One((rx'["gps"].Rd \/ gps_ready') /\ IsNewlineAt(last'["gps"]))
      BY <1>1, <2>5, <2>6, Zenon
    <3>4. gps_ready' => IsNewlineAt(last'["gps"]) /\ last'["gps"] > 4 * m
      BY <1>1, <2>3, <2>8
    <3>5. m - intact'["gps"] <= 2 * (LostBefore("gps")' - e) + 1 - One(m = 0)
      BY <1>1, <2>6, <2>12, Zenon
    <3>6. e = 0 => \A j \in 1..Len(gps_buff') :
                     gps_buff'[j] = ByteAt("gps", 4 * m + j - One(m = 0))'
      BY <2>9, <2>10
    <3>7. LostBefore("gps")' = 0 => TimeAt(m)'
      BY <2>4, <2>11, <2>12 DEF GpsAt
    <3>. QED BY <3>1, <3>2, <3>3, <3>4, <3>5, <3>6, <3>7 DEF GpsAt
  <2>. QED BY <2>13 DEF GpsInv
<1>. QED BY <1>2, <1>3 DEF poll_gps

----------------------------------------------------------------------------
(* The buffer that begins with the NUL of reset has an empty string.       *)
LEMMA NulHidesAll ==
  ASSUME NEW buff \in Seq(Byte), Len(buff) >= 1, buff[1] = Nul
  PROVE  ~HasGPGGA(buff)
<1>. DEFINE nuls == {i \in DOMAIN buff : buff[i] = Nul}
<1>1. DOMAIN buff = 1..Len(buff) /\ Len(buff) \in Nat
  OBVIOUS
<1>2. nuls \in SUBSET Nat /\ 1 \in nuls
  BY <1>1
<1>3. First(nuls) \in nuls /\ First(nuls) <= 1
  BY <1>2, FirstIsLeast
<1>4. First(nuls) = 1
  BY <1>1, <1>3
<1>5. String(buff) = SubSeq(buff, 1, 0)
  <2>1. nuls # {}
    BY <1>2
  <2>2. String(buff) = SubSeq(buff, 1, First(nuls) - 1)
    BY <2>1, Zenon DEF String
  <2>. HIDE DEF nuls
  <2>. QED BY <1>4, <2>2
<1>6. String(buff) = <<>>
  BY <1>5
<1>. QED BY <1>6 DEF HasGPGGA

LEMMA FourTuple ==
  ASSUME NEW a, NEW b, NEW c, NEW d
  PROVE  DOMAIN <<a, b, c, d>> = 1..4
  OBVIOUS

LEMMA WholeSentence ==
  ASSUME NEW s \in Sentence, NEW buff, buff = SentenceBytes(s)
  PROVE  /\ String(buff) = buff
         /\ HasGPGGA(buff) <=> s.type = "GGA"
         /\ parse_gps_buffer(buff) = <<"field", s.field>>
<1>1. DOMAIN buff = 1..4
  BY FourTuple, Zenon DEF SentenceBytes
<1>2. /\ buff[1] = <<s.type, 0>> /\ buff[2] = <<",", 0>> /\ buff[3] = <<"field", s.field>>
      /\ buff[4] = <<"newline", 0>>
      /\ s.type \in {"GGA", "GSV"} /\ s.field \in Nat
  BY SentenceByte, Zenon
<1>3. /\ 0 \in Nat /\ "," \in Kind /\ "field" \in Kind /\ "newline" \in Kind
      /\ s.type \in Kind
  BY <1>2 DEF Kind
<1>4. /\ buff[1][1] = s.type /\ buff[2][1] = "," /\ buff[3][1] = "field"
      /\ buff[4][1] = "newline"
  <2>1. buff[1][1] = s.type
    BY <1>2, <1>3, ByteParts, Zenon
  <2>2. buff[2][1] = ","
    BY <1>2, <1>3, ByteParts, Zenon
  <2>3. buff[3][1] = "field"
    <3>. DEFINE b == buff[3]
                v == s.field
    <3>1. b = <<"field", v>> /\ "field" \in Kind /\ v \in Nat
      BY <1>2, <1>3, Zenon
    <3>. HIDE DEF b, v
    <3>2. b[1] = "field"
      BY <3>1, ByteParts, Zenon
    <3>. QED BY <3>2 DEF b
  <2>4. buff[4][1] = "newline"
    BY <1>2, <1>3, ByteParts, Zenon
  <2>. QED BY <2>1, <2>2, <2>3, <2>4, Zenon
<1>5. \A i \in 1..4 : i = 1 \/ i = 2 \/ i = 3 \/ i = 4
  OBVIOUS
<1>6. s.type # "nul" /\ s.type # "," /\ "," # "nul" /\ "," # "GGA"
  <2>1. s.type # "nul"
    BY <1>2
  <2>2. s.type # ","
    BY <1>2, Zenon
  <2>3. "," # "nul" /\ "," # "GGA"
    BY Zenon
  <2>. QED BY <2>1, <2>2, <2>3, Zenon
<1>7. \A i \in 1..4 : buff[i] # Nul
  <2>1. Nul[1] = "nul"
    BY NulByte
  <2>2. \A i \in 1..4 : buff[i][1] # "nul"
    BY <1>4, <1>5, <1>6, Zenon
  <2>. QED BY <2>1, <2>2, Zenon
<1>8. String(buff) = buff
  <2>1. {i \in DOMAIN buff : buff[i] = Nul} = {}
    BY <1>1, <1>7
  <2>. QED BY <2>1 DEF String
<1>9. HasGPGGA(buff) <=> s.type = "GGA"
  <2>1. HasGPGGA(buff) <=> \E i \in 1..4 : buff[i][1] = "GGA"
    BY <1>1, <1>8, Zenon DEF HasGPGGA
  <2>2. "field" # "GGA" /\ "newline" # "GGA" /\ 1 \in 1..4
    OBVIOUS
  <2>. QED BY <1>4, <1>5, <1>6, <2>1, <2>2, Zenon
<1>10. parse_gps_buffer(buff) = <<"field", s.field>>
  <2>. DEFINE commas == {i \in DOMAIN String(buff) : buff[i] = <<",", 0>>}
  <2>1. \A i \in 1..4 : buff[i] = <<",", 0>> <=> i = 2
    <3>1. \A i \in 1..4 : buff[i] = <<",", 0>> => buff[i][1] = ","
      BY <1>3, ByteParts, Zenon
    <3>2. "field" # "," /\ "newline" # ","
      BY Zenon
    <3>. QED BY <1>2, <1>4, <1>5, <1>6, <3>1, <3>2, Zenon
  <2>2. commas = {2}
    <3>1. commas = {i \in 1..4 : buff[i] = <<",", 0>>}
      BY <1>1, <1>8, Zenon
    <3>2. {i \in 1..4 : buff[i] = <<",", 0>>} = {i \in 1..4 : i = 2}
      BY <2>1, Zenon
    <3>3. {i \in 1..4 : i = 2} = {2}
      OBVIOUS
    <3>. QED BY <3>1, <3>2, <3>3, Zenon
  <2>3. First(commas) = 2
    <3>1. First({2}) \in {2}
      BY FirstIsLeast
    <3>. QED BY <2>2, <3>1
  <2>. HIDE DEF commas
  <2>4. commas # {} /\ First(commas) + 1 = 3 /\ 3 \in 1..4
    BY <2>2, <2>3
  <2>5. 3 \in DOMAIN String(buff) /\ buff[3][1] = "field" /\ buff[3] = <<"field", s.field>>
    BY <1>1, <1>2, <1>4, <1>8, <2>4
  <2>6. parse_gps_buffer(buff)
          = IF commas # {} /\ First(commas) + 1 \in DOMAIN String(buff)
                           /\ buff[First(commas) + 1][1] = "field"
            THEN buff[First(commas) + 1] ELSE <<"garbled", 0>>
    BY Zenon DEF parse_gps_buffer, commas
  <2>. QED BY <2>4, <2>5, <2>6
<1>. QED BY <1>8, <1>9, <1>10

LEMMA SentenceHeld ==
  ASSUME traffic \in Traffics, NEW m \in Nat, m + 1 <= Len(Sentences),
         gps_buff \in Seq(Byte), Len(gps_buff) = 4,
         \A j \in 1..4 : gps_buff[j] = ByteAt("gps", 4 * m + j)
  PROVE  gps_buff = SentenceBytes(Sentences[m + 1])
<1>1. /\ Sentences \in Seq(Sentence) /\ Len(Sentences) \in Nat
      /\ Len(Sent("gps")) = 4 * Len(Sentences)
  BY SentIsSequence
<1>2. ASSUME NEW j \in 1..4 PROVE gps_buff[j] = SentenceBytes(Sentences[m + 1])[j]
  <2>1. PICK n \in Nat : n = 4 * m + j
    OBVIOUS
  <2>2. n \in 1..Len(Sent("gps"))
    BY <1>1, <2>1
  <2>3. gps_buff[j] = Sent("gps")[n]
    BY <2>1, <2>2 DEF ByteAt
  <2>. QED BY <2>1, <2>2, <2>3, GpsByte
<1>3. DOMAIN gps_buff = 1..4 /\ gps_buff = [i \in 1..4 |-> gps_buff[i]]
  <2>1. DOMAIN gps_buff = 1..Len(gps_buff) /\ gps_buff = [i \in DOMAIN gps_buff |-> gps_buff[i]]
    BY LenProperties
  <2>. QED BY <2>1
<1>. DEFINE B == SentenceBytes(Sentences[m + 1])
<1>4. B = [i \in 1..4 |-> B[i]]
  BY DEF SentenceBytes
<1>. HIDE DEF B
<1>5. \A j \in 1..4 : gps_buff[j] = B[j]
  BY <1>2 DEF B
<1>6. [i \in 1..4 |-> gps_buff[i]] = [i \in 1..4 |-> B[i]]
  BY <1>5, Zenon
<1>7. gps_buff = B
  BY <1>3, <1>4, <1>6, Zenon
<1>. QED BY <1>7 DEF B

LEMMA TimedNext ==
  ASSUME NEW m \in Nat, m >= 1
  PROVE  /\ Sentences[m + 1].type = "GGA" =>
              Timed(m + 1) # {} /\ Latest(Timed(m + 1)) = m + 1
         /\ Sentences[m + 1].type # "GGA" => Timed(m + 1) = Timed(m)
<1>1. ASSUME Sentences[m + 1].type = "GGA"
      PROVE  Timed(m + 1) # {} /\ Latest(Timed(m + 1)) = m + 1
  <2>1. m + 1 \in Timed(m + 1)
    BY <1>1 DEF Timed
  <2>2. \A j \in Timed(m + 1) : j \in Nat /\ j <= m + 1
    BY DEF Timed
  <2>3. \A i \in Timed(m + 1) : (\A j \in Timed(m + 1) : j <= i) => i = m + 1
    BY <2>1, <2>2
  <2>. QED BY <2>1, <2>2, <2>3 DEF Latest
<1>2. ASSUME Sentences[m + 1].type # "GGA" PROVE Timed(m + 1) = Timed(m)
  <2>1. \A i \in 2..(m + 1) : i \in 2..m \/ i = m + 1
    OBVIOUS
  <2>2. \A i \in 2..m : i \in 2..(m + 1)
    OBVIOUS
  <2>. QED BY <1>2, <2>1, <2>2 DEF Timed
<1>. QED BY <1>1, <1>2

(* The time after the next sentence, handled as it was sent.               *)
LEMMA TimeGoesOn ==
  ASSUME TypeInv, UNCHANGED traffic, gps_ready, handle_gps,
         NEW m \in Nat, m + 1 <= Len(Sentences), TimeAt(m),
         m = 0 => Len(gps_buff) >= 1 /\ gps_buff[1] = Nul,
         m > 0 => gps_buff = SentenceBytes(Sentences[m + 1])
  PROVE  TimeAt(m + 1)'
<1>1. /\ curr_time' = IF HasGPGGA(gps_buff) THEN parse_gps_buffer(gps_buff) ELSE curr_time
      /\ gpgga_sentence' = IF HasGPGGA(gps_buff) THEN String(gps_buff) ELSE gpgga_sentence
  BY DEF handle_gps
<1>2. Timed(m + 1)' = Timed(m + 1) /\ Sentences' = Sentences
  BY DEF Timed, Sentences
<1>3. CASE m = 0
  <2>1. ~HasGPGGA(gps_buff)
    BY <1>3, GpsNumbers, NulHidesAll
  <2>2. Timed(m) = {} /\ Timed(m + 1) = {}
    BY <1>3 DEF Timed
  <2>3. curr_time' = Nul /\ gpgga_sentence' = <<>>
    BY <1>1, <2>1, <2>2 DEF TimeAt
  <2>. QED BY <1>2, <2>2, <2>3, Zenon DEF TimeAt
<1>4. CASE m > 0
  <2>. DEFINE s == Sentences[m + 1]
  <2>1. s \in Sentence
    BY GpsNumbers, SentIsSequence
  <2>2. gps_buff = SentenceBytes(s)
    BY <1>4
  <2>3. /\ String(gps_buff) = gps_buff
        /\ HasGPGGA(gps_buff) <=> s.type = "GGA"
        /\ parse_gps_buffer(gps_buff) = <<"field", s.field>>
    BY <2>1, <2>2, WholeSentence
  <2>4. /\ s.type = "GGA" => Timed(m + 1) # {} /\ Latest(Timed(m + 1)) = m + 1
        /\ s.type # "GGA" => Timed(m + 1) = Timed(m)
    BY <1>4, TimedNext
  <2>5. CASE s.type = "GGA"
    <3>1. curr_time' = <<"field", s.field>> /\ gpgga_sentence' = SentenceBytes(s)
      BY <1>1, <2>2, <2>3, <2>5, Zenon
    <3>2. Timed(m + 1)' # {} /\ Latest(Timed(m + 1)') = m + 1
      BY <1>2, <2>4, <2>5
    <3>3. /\ curr_time' = <<"field", Sentences'[Latest(Timed(m + 1)')].field>>
          /\ gpgga_sentence' = SentenceBytes(Sentences'[Latest(Timed(m + 1)')])
      BY <1>2, <3>1, <3>2, Zenon
    <3>. QED BY <3>2, <3>3, Zenon DEF TimeAt, Latest
  <2>6. CASE s.type # "GGA"
    <3>1. UNCHANGED <<curr_time, gpgga_sentence>>
      BY <1>1, <2>3, <2>6
    <3>2. Timed(m + 1)' = Timed(m)
      BY <1>2, <2>4, <2>6
    <3>. QED BY <1>2, <3>1, <3>2, Zenon DEF TimeAt
  <2>. QED BY <2>5, <2>6
<1>. QED BY <1>3, <1>4

LEMMA GpsHandle ==
  ASSUME TypeInv, GpsInv, UNCHANGED traffic, Handle
  PROVE  GpsInv'
<1>1. /\ UNCHANGED <<last, taken, rx, Sentences>> /\ pc = "handle" /\ handle_gps
      /\ intact'["gps"] = intact["gps"] + One(gps_ready /\ Whole(gps_buff))
  BY DEF Handle, aciaVars, Sentences
<1>2. LostBefore("gps")' = LostBefore("gps") /\ ~gps_ready'
  BY <1>1 DEF LostBefore, handle_gps
<1>3. CASE ~gps_ready
  <2>1. UNCHANGED gpsVars /\ Idle("gps")
    BY <1>1, <1>3, GpsNumbers DEF gpsVars, Idle, handle_gps
  <2>2. intact'["gps"] = intact["gps"]
    BY <1>1, <1>3, GpsNumbers DEF One
  <2>. QED BY <2>1, <2>2, GpsRests
<1>4. CASE gps_ready
  <2>0. /\ last["gps"] \in Int /\ intact["gps"] \in Nat /\ LostBefore("gps") \in Nat
        /\ Len(gps_buff) \in Nat /\ Len(Sentences) \in Nat /\ gps_buff \in Seq(Byte)
        /\ traffic \in Traffics
    BY GpsNumbers
  <2>1. ~rx["gps"].Rd
    BY <1>1, GpsNumbers DEF Position
  <2>2. PICK m \in Nat, e \in Nat : GpsAt(m, e)
    BY DEF GpsInv
  <2>3. /\ e <= LostBefore("gps")
        /\ Len(gps_buff) = last["gps"] - 4 * m - e + One(m = 0)
        /\ (last["gps"] - 4 * m) \div 4 <= e + 1
        /\ IsNewlineAt(last["gps"]) /\ last["gps"] > 4 * m
        /\ m - intact["gps"] <= 2 * (LostBefore("gps") - e) + 1 - One(m = 0)
        /\ One(m = 0) = IF m = 0 THEN 1 ELSE 0
    <3>1. One(rx["gps"].Rd) = 0 /\ One(m = 0) \in {0, 1}
      BY <2>1 DEF One
    <3>2. Len(gps_buff) + 0 = last["gps"] - 4 * m - e + One(m = 0)
      BY <2>2, <3>1, Zenon DEF GpsAt
    <3>3. IsNewlineAt(last["gps"]) /\ last["gps"] > 4 * m
      BY <1>4, <2>2 DEF GpsAt
    <3>4. One((rx["gps"].Rd \/ gps_ready) /\ IsNewlineAt(last["gps"])) = 1
      BY <1>4, <3>3 DEF One
    <3>5. (last["gps"] - 4 * m) \div 4 <= e + 1
      BY <2>2, <3>4, Zenon DEF GpsAt
    <3>6. /\ e <= LostBefore("gps")
          /\ m - intact["gps"] <= 2 * (LostBefore("gps") - e) + 1 - One(m = 0)
      BY <2>2 DEF GpsAt
    <3>7. Len(gps_buff) = last["gps"] - 4 * m - e + One(m = 0)
      BY <2>0, <3>2
    <3>8. One(m = 0) = IF m = 0 THEN 1 ELSE 0
      BY DEF One
    <3>. QED BY <3>3, <3>5, <3>6, <3>7, <3>8
  <2>4. PICK n \in Nat : n = last["gps"] \div 4 /\ last["gps"] = 4 * n /\ n >= 1
    <3>1. last["gps"] \in Nat /\ last["gps"] > 0 /\ last["gps"] % 4 = 0
      BY <2>0, <2>3 DEF IsNewlineAt
    <3>2. last["gps"] \div 4 \in Nat /\ last["gps"] = 4 * (last["gps"] \div 4)
      BY <3>1, FourFold
    <3>. QED BY <3>1, <3>2
  <2>5. m < n /\ n - m <= e + 1
    <3>1. m < n
      BY <2>3, <2>4
    <3>2. (4 * n - 4 * m) \div 4 = n - m
      OBVIOUS
    <3>. QED BY <2>3, <2>4, <3>1, <3>2
  <2>6. n <= Len(Sentences)
    <3>1. /\ last["gps"] <= rx["gps"].count /\ rx["gps"].count <= Len(Sent("gps"))
          /\ rx["gps"].count \in Nat
      BY GpsNumbers DEF LineInv, ByteInv, Fresh, Receiver
    <3>2. Len(Sent("gps")) = 4 * Len(Sentences)
      BY <2>0, SentIsSequence
    <3>. QED BY <2>0, <2>4, <3>1, <3>2
  <2>7. e = 0 => n = m + 1
    BY <2>5
  <2>8. ASSUME e = 0
        PROVE  /\ m = 0 => Len(gps_buff) >= 1 /\ gps_buff[1] = Nul
               /\ m > 0 => gps_buff = SentenceBytes(Sentences[m + 1])
    <3>1. \A j \in 1..Len(gps_buff) : gps_buff[j] = ByteAt("gps", 4 * m + j - One(m = 0))
      BY <2>2, <2>8 DEF GpsAt
    <3>2. ASSUME m = 0 PROVE Len(gps_buff) >= 1 /\ gps_buff[1] = Nul
      <4>0. Len(gps_buff) = 4 * n - 4 * m - e + One(m = 0)
        BY <2>3, <2>4, Zenon
      <4>1. Len(gps_buff) >= 1 /\ One(m = 0) = 1
        <5>1. One(m = 0) = 1 /\ n = 1
          BY <2>3, <2>7, <2>8, <3>2
        <5>. QED BY <2>8, <3>2, <4>0, <5>1
      <4>2. 4 * m + 1 - One(m = 0) = 0 /\ 1 \in 1..Len(gps_buff)
        BY <2>0, <3>2, <4>1
      <4>3. gps_buff[1] = ByteAt("gps", 0)
        BY <3>1, <4>2
      <4>. QED BY <4>1, <4>3 DEF ByteAt
    <3>3. ASSUME m > 0 PROVE gps_buff = SentenceBytes(Sentences[m + 1])
      <4>1. Len(gps_buff) = 4 /\ One(m = 0) = 0
        BY <2>3, <2>4, <2>7, <2>8, <3>3
      <4>2. \A j \in 1..4 : gps_buff[j] = ByteAt("gps", 4 * m + j)
        <5>1. \A j \in 1..4 : 4 * m + j - 0 = 4 * m + j
          OBVIOUS
        <5>2. \A j \in 1..4 : gps_buff[j] = ByteAt("gps", 4 * m + j - 0)
          BY <3>1, <4>1, Zenon
        <5>. QED BY <5>1, <5>2, Zenon
      <4>3. m + 1 <= Len(Sentences)
        BY <2>6, <2>7, <2>8
      <4>. QED BY <2>0, <4>1, <4>2, <4>3, SentenceHeld
    <3>. QED BY <3>2, <3>3
  <2>9. n - intact'["gps"] <= 2 * LostBefore("gps") + 1
    <3>1. One(gps_ready /\ Whole(gps_buff)) \in {0, 1}
      BY DEF One
    <3>2. CASE e > 0 \/ m = 0
      <4>. DEFINE L == LostBefore("gps")
                  c == intact["gps"]
      <4>1. L \in Nat /\ c \in Nat /\ e <= L /\ n - m <= e + 1
        BY <2>0, <2>3, <2>5
      <4>2. m - c <= 2 * (L - e) + 1 - (IF m = 0 THEN 1 ELSE 0)
        BY <2>3, Zenon
      <4>. HIDE DEF L, c
      <4>3. n - c <= 2 * L + 1
        BY <3>2, <4>1, <4>2
      <4>4. \A z \in {0, 1} : n - (c + z) <= 2 * L + 1
        BY <4>1, <4>3
      <4>. QED BY <1>1, <3>1, <4>4, Zenon DEF L, c
    <3>3. CASE e = 0 /\ m > 0
      <4>1. gps_buff = SentenceBytes(Sentences[m + 1])
        BY <2>8, <3>3
      <4>2. m + 1 \in DOMAIN Sentences
        BY <2>0, <2>6, <2>7, <3>3, SentIsSequence
      <4>3. One(gps_ready /\ Whole(gps_buff)) = 1
        BY <1>4, <4>1, <4>2 DEF One, Whole
      <4>. QED BY <1>1, <2>0, <2>3, <2>7, <3>3, <4>3
    <3>. QED BY <3>2, <3>3
  <2>10. LostBefore("gps") = 0 => TimeAt(n)'
    <3>. SUFFICES ASSUME LostBefore("gps") = 0 PROVE TimeAt(n)'
      OBVIOUS
    <3>1. e = 0 /\ TimeAt(m)
      BY <2>2, <2>3 DEF GpsAt
    <3>2. n = m + 1 /\ m + 1 <= Len(Sentences)
      BY <2>6, <2>7, <3>1
    <3>3. TimeAt(m + 1)'
      BY <1>1, <1>4, <2>8, <3>1, <3>2, TimeGoesOn
    <3>. QED BY <3>2, <3>3, Zenon
  <2>11. gps_buff' = <<>>
    BY <1>1, <1>4 DEF handle_gps
  <2>12. GpsAt(n, 0)'
    <3>1. /\ One(rx'["gps"].Rd) = 0 /\ One(n = 0) = 0
          /\ One((rx'["gps"].Rd \/ gps_ready') /\ IsNewlineAt(last'["gps"])) = 0
      BY <1>1, <1>2, <2>1, <2>4 DEF One
    <3>2. /\ 0 <= LostBefore("gps")' /\ n <= Len(Sentences)' /\ 4 * n <= last'["gps"]
      BY <1>1, <1>2, <2>0, <2>4, <2>6
    <3>3. Len(gps_buff') = 0 /\ last'["gps"] - 4 * n = 0
      BY <1>1, <2>4, <2>11
    <3>4. n - intact'["gps"] <= 2 * (LostBefore("gps")' - 0) + 1 - 0
      BY <1>2, <2>0, <2>9
    <3>5. /\ Len(gps_buff)' + 0 = last'["gps"] - 4 * n - 0 + 0
          /\ (last'["gps"] - 4 * n) \div 4 <= 0 + 0
      BY <3>3
    <3>6. \A j \in 1..Len(gps_buff)' :
             gps_buff'[j] = ByteAt("gps", 4 * n + j - One(n = 0))'
      BY <3>3
    <3>7. LostBefore("gps")' = 0 => TimeAt(n)'
      BY <1>2, <2>10
    <3>. QED BY <1>2, <3>1, <3>2, <3>4, <3>5, <3>6, <3>7, Zenon DEF GpsAt
  <2>. QED BY <2>12 DEF GpsInv
<1>. QED BY <1>3, <1>4

LEMMA GpsStep ==
  ASSUME TypeInv, GpsInv, [Next]_vars
  PROVE  GpsInv'
<1>0. "gps" \in Line /\ "touch" \in Line /\ LineInv /\ traffic \in Traffics
  BY TrafficAssumption, GpsNumbers
<1>1. CASE UNCHANGED vars
  BY <1>1, GpsRests DEF vars, aciaVars, gpsVars, Idle
<1>2. CASE Lines
  <2>1. Idle("gps") /\ UNCHANGED traffic
    BY <1>0, <1>2, LinesKeep
  <2>2. UNCHANGED <<gpsVars, intact>>
    BY <1>2 DEF Lines, ByteBegins, ByteEnds, BitsSent
  <2>. QED BY <2>1, <2>2, GpsRests
<1>3. CASE Controller
  <2>1. UNCHANGED traffic
    BY <1>3 DEF Controller
  <2>2. CASE PutChar \/ IterationEnds
    <3>1. UNCHANGED <<rx, last, taken, gpsVars, intact>>
      BY <2>2 DEF PutChar, WriteTR, IterationEnds, aciaVars
    <3>. QED BY <2>1, <3>1, GpsRests DEF Idle
  <2>3. ASSUME NEW l \in Line, GetChar(l) PROVE GpsInv'
    <3>1. CASE l = "gps"
      BY <2>1, <2>3, <3>1, GpsGetChar
    <3>2. CASE l # "gps"
      <4>1. Idle("gps")
        BY <1>0, <2>1, <2>3, <3>2, GetCharKeeps
      <4>2. UNCHANGED <<gpsVars, intact>>
        BY <2>3 DEF GetChar
      <4>. QED BY <2>1, <4>1, <4>2, GpsRests
    <3>. QED BY <3>1, <3>2
  <2>4. ASSUME EndOfStrobe("touch"), UNCHANGED <<last, taken, gpsVars, intact>> PROVE GpsInv'
    <3>1. Idle("gps")
      BY <1>0, <2>1, <2>4, StrobeKeeps
    <3>. QED BY <2>1, <2>4, <3>1, GpsRests
  <2>5. CASE GotSync \/ GotValidation \/ GotPosition
    BY <2>4, <2>5 DEF GotSync, GotValidation, GotPosition
  <2>6. CASE poll_touchscreen
    <3>1. UNCHANGED <<last, taken, gpsVars, intact>>
      BY <2>6 DEF poll_touchscreen
    <3>2. CASE UNCHANGED aciaVars
      BY <2>1, <3>1, <3>2, GpsRests DEF Idle, aciaVars
    <3>. QED BY <2>4, <2>6, <3>1, <3>2 DEF poll_touchscreen
  <2>. QED BY <1>3, <2>1, <2>2, <2>3, <2>5, <2>6, GpsPoll, GpsHandle DEF Controller
<1>. QED BY <1>1, <1>2, <1>3 DEF Next

ReceiverInv == TypeInv /\ GpsInv

LEMMA ReceiverIsInvariant == Spec => []ReceiverInv
<1>1. Init => ReceiverInv
  BY TypeInit, GpsInit DEF ReceiverInv
<1>2. ReceiverInv /\ [Next]_vars => ReceiverInv'
  BY TypeStep, GpsStep DEF ReceiverInv
<1>. QED BY <1>1, <1>2, PTL DEF Spec

LEMMA SentencesBehind ==
  ASSUME ReceiverInv
  PROVE  /\ LostBefore("gps") <= Lost("gps") /\ LostBefore("gps") \in Nat /\ Lost("gps") \in Nat
         /\ last["gps"] \in Int /\ last["gps"] >= -1 /\ intact["gps"] \in Nat
         /\ rx["gps"].Rd \in BOOLEAN
         /\ Polling => ~rx["gps"].Rd /\ ~gps_ready
<1>1. TypeInv /\ "gps" \in Line
  BY TrafficAssumption DEF ReceiverInv
<1>. QED BY <1>1, GpsNumbers, LossIsSeen DEF Polling, Position

(* gps_buff, which poll_gps fills without a bound, holds no more than the  *)
(* sentences joined by the loss of a newline, one for each byte lost, and  *)
(* the first with its NUL.                                                 *)
THEOREM BufferIsBounded == Spec => []GpsBufferBounded
<1>1. ReceiverInv => GpsBufferBounded
  <2>. SUFFICES ASSUME ReceiverInv PROVE Len(gps_buff) <= 4 * (1 + Lost("gps")) + 1
    BY DEF GpsBufferBounded
  <2>1. PICK m \in Nat, e \in Nat : GpsAt(m, e)
    BY DEF ReceiverInv, GpsInv
  <2>. DEFINE N == last["gps"]
              x == One((rx["gps"].Rd \/ gps_ready) /\ IsNewlineAt(N))
  <2>2. N \in Int /\ Len(gps_buff) \in Nat
    BY SentencesBehind, GpsNumbers DEF ReceiverInv
  <2>3. Len(gps_buff) + One(rx["gps"].Rd) = N - 4 * m - e + One(m = 0)
        /\ One(rx["gps"].Rd) \in {0, 1} /\ One(m = 0) \in {0, 1}
    BY <2>1 DEF GpsAt, One
  <2>4. (N - 4 * m) \div 4 <= e + x
    BY <2>1 DEF GpsAt
  <2>5. x = 0 \/ (x = 1 /\ N % 4 = 0)
    BY DEF One, IsNewlineAt
  <2>. HIDE DEF N, x
  <2>6. N - 4 * m <= 4 * e + 4
    <3>1. PICK k \in Int : /\ k = (N - 4 * m) \div 4
                           /\ 4 * k <= N - 4 * m /\ N - 4 * m <= 4 * k + 3
      BY <2>2
    <3>2. CASE x = 0
      BY <2>2, <2>4, <3>1, <3>2
    <3>3. CASE x = 1 /\ N % 4 = 0
      <4>1. PICK n \in Int : N = 4 * n
        BY <2>2, <3>3
      <4>2. k = n - m
        BY <3>1, <4>1
      <4>. QED BY <2>4, <3>1, <3>3, <4>1, <4>2
    <3>. QED BY <2>5, <3>2, <3>3
  <2>7. e <= LostBefore("gps")
    BY <2>1 DEF GpsAt
  <2>8. e <= Lost("gps") /\ Lost("gps") \in Nat
    BY <2>7, SentencesBehind
  <2>9. Len(gps_buff) <= 3 * e + 5
    BY <2>2, <2>3, <2>6
  <2>. QED BY <2>2, <2>8, <2>9
<1>. QED BY <1>1, ReceiverIsInvariant, PTL

(* Whatever the receiver sends and whenever the program is busy, at most   *)
(* two GPS sentences are not handled as they were sent for each byte that  *)
(* was overrun, and one more, the first (poll_gps, handle_gps).            *)
THEOREM ReceiverRecovers == Spec => []SentencesRecovered
<1>1. ReceiverInv => SentencesRecovered
  <2>. SUFFICES ASSUME ReceiverInv, Polling
                PROVE  last["gps"] \div 4 - intact["gps"] <= 2 * Lost("gps") + 1
    BY DEF SentencesRecovered
  <2>1. PICK m \in Nat, e \in Nat : GpsAt(m, e)
    BY DEF ReceiverInv, GpsInv
  <2>2. One((rx["gps"].Rd \/ gps_ready) /\ IsNewlineAt(last["gps"])) = 0
    BY SentencesBehind DEF One
  <2>. DEFINE N == last["gps"]
              L == LostBefore("gps")
              c == intact["gps"]
  <2>3. (N - 4 * m) \div 4 <= e + 0
    BY <2>1, <2>2, Zenon DEF GpsAt
  <2>4. e <= L /\ m - c <= 2 * (L - e) + 1 - One(m = 0) /\ One(m = 0) \in {0, 1}
    BY <2>1 DEF GpsAt, One
  <2>5. N \in Int /\ L \in Nat /\ c \in Nat /\ L <= Lost("gps") /\ Lost("gps") \in Nat
    BY SentencesBehind
  <2>. HIDE DEF N, L, c
  <2>6. PICK k \in Int : k = N \div 4 /\ k - m = (N - 4 * m) \div 4
    BY <2>5
  <2>7. k - c <= 2 * L + 1
    BY <2>3, <2>4, <2>5, <2>6
  <2>8. k - c <= 2 * Lost("gps") + 1
    BY <2>5, <2>7
  <2>. QED BY <2>6, <2>8, Zenon DEF N, c
<1>. QED BY <1>1, ReceiverIsInvariant, PTL

(* As long as no byte has been overrun the time shown and the sentence     *)
(* kept are those of the last GPGGA sentence read to its end, the first    *)
(* sentence of all excepted (handle_gps, parse_gps_buffer).                *)
THEOREM TimeIsUpToDate == Spec => []TimeUpToDate
<1>1. ReceiverInv => TimeUpToDate
  <2>. SUFFICES ASSUME ReceiverInv, Polling, Lost("gps") = 0
                PROVE  TimeAt(last["gps"] \div 4)
    BY Zenon DEF TimeUpToDate, TimeAt, Timed, Latest
  <2>1. PICK m \in Nat, e \in Nat : GpsAt(m, e)
    BY DEF ReceiverInv, GpsInv
  <2>2. One((rx["gps"].Rd \/ gps_ready) /\ IsNewlineAt(last["gps"])) = 0
    BY SentencesBehind DEF One
  <2>3. LostBefore("gps") = 0 /\ last["gps"] \in Int /\ last["gps"] >= -1
    BY SentencesBehind
  <2>4. e = 0 /\ TimeAt(m) /\ (4 * m <= last["gps"] \/ m = 0)
    BY <2>1, <2>3 DEF GpsAt
  <2>5. (last["gps"] - 4 * m) \div 4 <= 0
    <3>1. (last["gps"] - 4 * m) \div 4 <= e + 0
      BY <2>1, <2>2, Zenon DEF GpsAt
    <3>. QED BY <2>4, <3>1
  <2>6. Timed(last["gps"] \div 4) = Timed(m)
    <3>. DEFINE N == last["gps"]
    <3>1. N \in Int /\ (N - 4 * m) \div 4 <= 0 /\ (4 * m <= N \/ m = 0)
      BY <2>3, <2>4, <2>5
    <3>. HIDE DEF N
    <3>2. N \div 4 = m \/ (m = 0 /\ N \div 4 <= 0 /\ N \div 4 \in Int)
      BY <3>1
    <3>3. CASE N \div 4 = m
      BY <3>3, Zenon DEF N
    <3>4. CASE m = 0 /\ N \div 4 <= 0 /\ N \div 4 \in Int
      <4>1. 2..m = {} /\ 2..(N \div 4) = {}
        BY <3>4
      <4>. QED BY <4>1 DEF Timed, N
    <3>. QED BY <3>2, <3>3, <3>4
  <2>. QED BY <2>4, <2>6, Zenon DEF TimeAt
<1>. QED BY <1>1, ReceiverIsInvariant, PTL
=============================================================================
