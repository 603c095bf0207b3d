-------------------------- MODULE SerialLines_proofs --------------------------
(***************************************************************************)
(* What holds of the serial chips and the drivers for whatever the panel   *)
(* and the GPS receiver send, and whatever times their bytes take.         *)
(***************************************************************************)
EXTENDS SerialLines, SequenceTheorems, WellFoundedInduction, TLAPS

Receiver == [Ack : BOOLEAN, Req : BOOLEAN, Ready : BOOLEAN,
             OErr : BOOLEAN, Rd : BOOLEAN, count : Nat]

(* Byte n being the last one read: the flag of a byte already read is off, *)
(* and stays off until the next one is in, since the request for it is     *)
(* pending or has been met by a byte that has begun.                       *)
Fresh(r, n) == n <= r.count /\ (n = r.count => ~r.Ready /\ (r.Req \/ r.Ack))

ByteInv ==
  /\ rx \in [Line -> Receiver] /\ last \in [Line -> Int] /\ taken \in [Line -> Nat]
  /\ \A l \in Line : Fresh(rx[l], last[l])

----------------------------------------------------------------------------
(* The events of a receiver.                                               *)
LEMMA Settles ==
  ASSUME NEW r \in Receiver
  PROVE  /\ ReadProcess(r) \in Receiver
         /\ ReadProcess(r).count = r.count
         /\ ReadProcess(r).Ack = r.Ack
         /\ ReadProcess(r).Ready => r.Ready \/ (~r.Req /\ ~r.Ack)
         /\ r.Rd => ~ReadProcess(r).Ready
         /\ r.Req \/ r.Ack \/ r.Rd => ReadProcess(r).Req \/ ReadProcess(r).Ack
  BY DEF ReadProcess, Receiver

LEMMA DataFresh ==
  ASSUME NEW r \in Receiver, NEW n \in Int, Fresh(r, n)
  PROVE  LET s == ReadProcess([r EXCEPT !.Ack = TRUE])
         IN  s \in Receiver /\ Fresh(s, n)
<1> DEFINE q == [r EXCEPT !.Ack = TRUE]
<1>1. /\ q \in Receiver /\ q.Ack /\ q.count = r.count /\ q.Ready = r.Ready
  BY DEF Receiver
<1> HIDE DEF q
<1>2. Fresh(ReadProcess(q), n)
  BY <1>1, Settles DEF Fresh
<1> QED
  BY <1>1, <1>2, Settles DEF q

LEMMA StopFresh ==
  ASSUME NEW r \in Receiver, NEW n \in Int, Fresh(r, n)
  PROVE  /\ ReadProcess(Stopped(r)) \in Receiver
         /\ Fresh(ReadProcess(Stopped(r)), n)
<1>1. r.count + 1 \in Nat /\ r.count \in Nat /\ r.Ready \in BOOLEAN
  BY DEF Receiver
<1>2. Stopped(r).count = r.count + 1
  BY DEF Stopped, Receiver
<1>3. Stopped(r) \in Receiver
  BY <1>1, Zenon DEF Receiver, Stopped
<1> QED
  BY <1>1, <1>2, <1>3, Settles DEF Fresh

LEMMA ReadFresh ==
  ASSUME NEW r \in Receiver
  PROVE  LET s == ReadProcess([r EXCEPT !.Rd = TRUE])
         IN  s \in Receiver /\ Fresh(s, r.count)
<1> DEFINE q == [r EXCEPT !.Rd = TRUE]
<1>1. q \in Receiver /\ q.Rd /\ q.count = r.count /\ r.count \in Nat
  BY DEF Receiver
<1> HIDE DEF q
<1>2. Fresh(ReadProcess(q), r.count)
  BY <1>1, Settles DEF Fresh
<1> QED
  BY <1>1, <1>2, Settles DEF q

LEMMA StrobeFresh ==
  ASSUME NEW r \in Receiver, NEW n \in Int, Fresh(r, n), r.Rd
  PROVE  LET s == ReadProcess([ReadProcess(r) EXCEPT !.Rd = FALSE])
         IN  s \in Receiver /\ Fresh(s, n)
<1> DEFINE p == ReadProcess(r)
           q == [p EXCEPT !.Rd = FALSE]
<1>1. /\ p \in Receiver /\ p.count = r.count /\ ~p.Ready /\ (p.Req \/ p.Ack)
  BY Settles
<1> HIDE DEF p
<1>2. /\ q \in Receiver /\ q.count = r.count /\ ~q.Ready /\ (q.Req \/ q.Ack)
  BY <1>1 DEF Receiver
<1> HIDE DEF q
<1>3. ReadProcess(q) \in Receiver /\ Fresh(ReadProcess(q), n)
  BY <1>2, Settles DEF Fresh
<1> QED
  BY <1>3 DEF p, q

----------------------------------------------------------------------------
(* The steps of the system.                                                *)
LEMMA ByteInit == Init => ByteInv
<1> SUFFICES ASSUME Init PROVE ByteInv
  OBVIOUS
<1>1. RxReset \in Receiver /\ RxReset.count = 0
  BY DEF RxReset, Receiver
<1>2. ReadProcess(RxReset) \in Receiver /\ ReadProcess(RxReset).count = 0
  BY <1>1, Settles
<1>3. Fresh(ReadProcess(RxReset), -1)
  BY <1>2 DEF Fresh
<1> QED
  BY <1>2, <1>3 DEF Init, AciaInit, ByteInv

LEMMA LinesStep ==
  ASSUME ByteInv, NEW k \in Line, ByteBegins(k) \/ ByteEnds(k) \/ BitsSent(k)
  PROVE  ByteInv' /\ UNCHANGED <<last, taken>>
<1> USE DEF ByteInv
<1>1. CASE ByteBegins(k)
  BY <1>1, DataFresh DEF ByteBegins, RxData
<1>2. CASE ByteEnds(k)
  BY <1>2, StopFresh DEF ByteEnds, RxStop
<1>3. CASE BitsSent(k)
  BY <1>3 DEF BitsSent, TxBit
<1> QED
  BY <1>1, <1>2, <1>3

LEMMA GetCharStep ==
  ASSUME ByteInv, NEW k \in Line, GetChar(k)
  PROVE  /\ ByteInv'
         /\ \A l \in Line : taken'[l] # taken[l] => last'[l] > last[l]
<1> USE DEF ByteInv
<1>1. /\ rx' = [rx EXCEPT ![k] = ReadProcess([rx[k] EXCEPT !.Rd = TRUE])]
      /\ last' = [last EXCEPT ![k] = rx[k].count]
      /\ taken' = [taken EXCEPT ![k] = taken[k] + 1]
      /\ rx[k].Ready
  BY DEF GetChar, ReadRR, RxReady
<1>2. rx[k] \in Receiver /\ rx[k].count \in Int /\ taken[k] + 1 \in Nat
  BY DEF Receiver
<1>3. ByteInv'
  BY <1>1, <1>2, ReadFresh
<1>4. last[k] < rx[k].count
  BY <1>1, <1>2 DEF Fresh
<1> QED
  BY <1>1, <1>2, <1>3, <1>4

LEMMA EndOfStrobeStep ==
  ASSUME ByteInv, NEW k \in Line, EndOfStrobe(k), UNCHANGED <<last, taken>>
  PROVE  ByteInv'
  BY StrobeFresh DEF ByteInv, EndOfStrobe

LEMMA ControllerStep ==
  ASSUME ByteInv, Controller
  PROVE  /\ ByteInv'
         /\ \A l \in Line : taken'[l] # taken[l] => last'[l] > last[l]
<1>1. CASE PutChar \/ Handle \/ IterationEnds
  <2>1. UNCHANGED <<rx, last, taken>>
    BY <1>1 DEF PutChar, WriteTR, Handle, IterationEnds, aciaVars
  <2> QED
    BY <2>1 DEF ByteInv
<1>2. CASE \E l \in Line : GetChar(l)
  BY <1>2, GetCharStep
<1>3. CASE GotSync \/ GotValidation \/ poll_gps \/ poll_touchscreen \/ GotPosition
  <2>1. UNCHANGED <<last, taken>>
    BY <1>3 DEF GotSync, GotValidation, poll_gps, poll_touchscreen, GotPosition
  <2>2. UNCHANGED rx \/ EndOfStrobe("touch") \/ EndOfStrobe("gps")
    BY <1>3 DEF GotSync, GotValidation, poll_gps, poll_touchscreen, GotPosition, aciaVars
  <2>3. "touch" \in Line /\ "gps" \in Line
    BY TrafficAssumption
  <2>4. ByteInv'
    BY <2>1, <2>2, <2>3, EndOfStrobeStep DEF ByteInv
  <2> QED
    BY <2>1, <2>4
<1> QED
  BY <1>1, <1>2, <1>3 DEF Controller

(* No driver is given a byte twice, or a byte after a later one, however   *)
(* the reads of the processor and the ends of the bytes fall together      *)
(* (acia_rx_read and get_char).                                            *)
THEOREM BytesAreReadOnce == Spec => EachByteOnce
<1>1. ByteInv /\ [Next]_vars
        => ByteInv' /\ [\A l \in Line : taken'[l] # taken[l] => last'[l] > last[l]]_vars
  <2> SUFFICES ASSUME ByteInv, [Next]_vars
               PROVE  /\ ByteInv'
                      /\ \A l \in Line : taken'[l] # taken[l] => last'[l] > last[l]
    OBVIOUS
  <2>1. CASE Lines
    BY <2>1, LinesStep DEF Lines
  <2>2. CASE Controller
    BY <2>2, ControllerStep
  <2>3. CASE UNCHANGED vars
    BY <2>3 DEF vars, aciaVars, ByteInv
  <2> QED
    BY <2>1, <2>2, <2>3 DEF Next
<1> QED
  BY <1>1, ByteInit, PTL DEF Spec, EachByteOnce
----------------------------------------------------------------------------
(* The flags between events: the strobe clears the flag of the byte and    *)
(* leaves its request, which is met as soon as a byte is being received.   *)
Settled(r) ==
  /\ r.Rd => ~r.Ready /\ r.Req
  /\ ~r.Rd /\ r.Ack => ~r.Req
  /\ r.Ready => ~r.Req

(* Bytes lost before the one last read.                                    *)
LostBefore(l) == last[l] + 1 - taken[l]

LineInv ==
  /\ ByteInv
  /\ \A l \in Line :
       /\ Settled(rx[l])
       /\ rx[l].count <= Len(Sent(l)) /\ (rx[l].Ack => rx[l].count < Len(Sent(l)))
       /\ last[l] >= -1 /\ (rx[l].Rd => last[l] >= 0)
       /\ LostBefore(l) >= 0

Idle(l) == last'[l] = last[l] /\ taken'[l] = taken[l] /\ rx'[l].Rd = rx[l].Rd
Takes(l) ==
  /\ ~rx[l].Rd /\ rx'[l].Rd
  /\ last'[l] \in Nat /\ last'[l] > last[l] /\ last'[l] <= Len(Sent(l))
  /\ taken'[l] = taken[l] + 1
Ends(l) == rx[l].Rd /\ ~rx'[l].Rd /\ last'[l] = last[l] /\ taken'[l] = taken[l]

LEMMA DataSettled ==
  ASSUME NEW r \in Receiver, Settled(r), ~r.Ack
  PROVE  LET s == ReadProcess([r EXCEPT !.Ack = TRUE])
         IN  /\ s \in Receiver /\ Settled(s)
             /\ s.count = r.count /\ s.Rd = r.Rd /\ s.Ready = r.Ready /\ s.Ack
<1>. DEFINE q == [r EXCEPT !.Ack = TRUE]
<1>1. /\ q \in Receiver /\ q.Ack /\ q.count = r.count /\ q.Ready = r.Ready /\ q.Rd = r.Rd
      /\ q.Req = r.Req
  BY DEF Receiver
<1>. HIDE DEF q
<1>2. /\ ReadProcess(q) \in Receiver /\ Settled(ReadProcess(q))
      /\ ReadProcess(q).count = q.count /\ ReadProcess(q).Rd = q.Rd
      /\ ReadProcess(q).Ready = q.Ready /\ ReadProcess(q).Ack
  BY <1>1 DEF ReadProcess, Receiver, Settled
<1>. QED BY <1>1, <1>2 DEF q

LEMMA StopSettled ==
  ASSUME NEW r \in Receiver, Settled(r), r.Ack
  PROVE  LET s == ReadProcess(Stopped(r))
         IN  /\ s \in Receiver /\ Settled(s)
             /\ s.count = r.count + 1 /\ s.Rd = r.Rd /\ s.Ready = ~r.Rd /\ ~s.Ack
<1>. DEFINE q == Stopped(r)
<1>1. r.count + 1 \in Nat /\ r.count \in Nat /\ r.Ready \in BOOLEAN
  BY DEF Receiver
<1>2. q.count = r.count + 1
  BY DEF Stopped, Receiver
<1>3. q \in Receiver
  BY <1>1, Zenon DEF Receiver, Stopped
<1>4. ~q.Ack /\ q.Rd = r.Rd /\ q.Req = r.Req /\ q.Ready = r.Ready
  BY DEF Receiver, Stopped
<1>. HIDE DEF q
<1>5. /\ ReadProcess(q) \in Receiver /\ Settled(ReadProcess(q))
      /\ ReadProcess(q).count = q.count /\ ReadProcess(q).Rd = q.Rd
      /\ ReadProcess(q).Ready = ~q.Rd /\ ~ReadProcess(q).Ack
  BY <1>3, <1>4 DEF ReadProcess, Receiver, Settled
<1>. QED BY <1>2, <1>4, <1>5 DEF q

LEMMA ReadSettled ==
  ASSUME NEW r \in Receiver, Settled(r), ~r.Rd
  PROVE  LET s == ReadProcess([r EXCEPT !.Rd = TRUE])
         IN  /\ s \in Receiver /\ Settled(s)
             /\ s.count = r.count /\ s.Rd /\ ~s.Ready /\ s.Ack = r.Ack
<1>. DEFINE q == [r EXCEPT !.Rd = TRUE]
<1>1. q \in Receiver /\ q.Rd /\ q.count = r.count /\ q.Ack = r.Ack
  BY DEF Receiver
<1>. HIDE DEF q
<1>2. /\ ReadProcess(q) \in Receiver /\ Settled(ReadProcess(q))
      /\ ReadProcess(q).count = q.count /\ ReadProcess(q).Rd /\ ~ReadProcess(q).Ready
      /\ ReadProcess(q).Ack = q.Ack
  BY <1>1 DEF ReadProcess, Receiver, Settled
<1>. QED BY <1>1, <1>2 DEF q

LEMMA StrobeSettled ==
  ASSUME NEW r \in Receiver, Settled(r), r.Rd
  PROVE  LET s == ReadProcess([ReadProcess(r) EXCEPT !.Rd = FALSE])
         IN  /\ s \in Receiver /\ Settled(s)
             /\ s.count = r.count /\ ~s.Rd /\ ~s.Ready /\ s.Ack = r.Ack
<1>. DEFINE p == ReadProcess(r)
            q == [p EXCEPT !.Rd = FALSE]
<1>1. p \in Receiver /\ p.count = r.count /\ ~p.Ready /\ p.Req /\ p.Ack = r.Ack
  BY DEF ReadProcess, Receiver
<1>. HIDE DEF p
<1>2. /\ q \in Receiver /\ q.count = r.count /\ ~q.Ready /\ q.Req /\ q.Ack = r.Ack
      /\ ~q.Rd
  BY <1>1 DEF Receiver
<1>. HIDE DEF q
<1>3. /\ ReadProcess(q) \in Receiver /\ Settled(ReadProcess(q))
      /\ ReadProcess(q).count = q.count /\ ~ReadProcess(q).Rd /\ ~ReadProcess(q).Ready
      /\ ReadProcess(q).Ack = q.Ack
  BY <1>2 DEF ReadProcess, Receiver, Settled
<1>. QED BY <1>2, <1>3 DEF p, q

----------------------------------------------------------------------------
(* What is sent, byte by byte.                                             *)
LEMMA SentIsSequence ==
  ASSUME traffic \in Traffics
  PROVE  /\ Packets \in Seq(TouchPacket) /\ Sentences \in Seq(Sentence)
         /\ Len(Packets) \in Nat /\ Len(Sentences) \in Nat
         /\ Len(Sent("touch")) = 4 + 5 * Len(Packets)
         /\ \A n \in 1..Len(Sent("touch")) :
              Sent("touch")[n] = IF n <= 4 THEN Answer[n]
                                 ELSE PacketBytes(Packets[n \div 5])[(n % 5) + 1]
         /\ Len(Sent("gps")) = 4 * Len(Sentences)
         /\ \A n \in 1..Len(Sent("gps")) :
              Sent("gps")[n] = SentenceBytes(Sentences[(n + 3) \div 4])[((n + 3) % 4) + 1]
<1>1. Packets \in Seq(TouchPacket) /\ Sentences \in Seq(Sentence)
  BY TrafficAssumption DEF Packets, Sentences
<1>2. Len(Packets) \in Nat /\ Len(Sentences) \in Nat
  BY <1>1
<1>. DEFINE f == [n \in 1..(4 + 5 * Len(Packets)) |->
                   IF n <= 4 THEN Answer[n]
                   ELSE PacketBytes(Packets[n \div 5])[(n % 5) + 1]]
            g == [n \in 1..(4 * Len(Sentences)) |->
                   SentenceBytes(Sentences[(n + 3) \div 4])[((n + 3) % 4) + 1]]
<1>3. Sent("touch") = f /\ Sent("gps") = g
  BY Zenon DEF Sent, Bytes, Packets, Sentences
<1>4. DOMAIN f = 1..(4 + 5 * Len(Packets)) /\ DOMAIN g = 1..(4 * Len(Sentences))
  OBVIOUS
<1>. HIDE DEF f, g
<1>5. Len(f) = 4 + 5 * Len(Packets) /\ Len(g) = 4 * Len(Sentences)
  BY <1>2, <1>4
<1>. QED BY <1>1, <1>2, <1>3, <1>5 DEF f, g

----------------------------------------------------------------------------
(* What each event leaves of the lines: only get_char takes a byte, only   *)
(* the end of a strobe lets it go.                                         *)
LEMMA LineInit == Init => LineInv
<1>. SUFFICES ASSUME Init PROVE LineInv
  OBVIOUS
<1>1. ByteInv
  BY ByteInit
<1>2. /\ ReadProcess(RxReset).Ready /\ ~ReadProcess(RxReset).Rd /\ ~ReadProcess(RxReset).Req
      /\ ~ReadProcess(RxReset).Ack /\ ReadProcess(RxReset).count = 0
  BY DEF ReadProcess, RxReset
<1>3. \A l \in Line : rx[l] = ReadProcess(RxReset) /\ last[l] = -1 /\ taken[l] = 0
  BY DEF Init, AciaInit
<1>4. \A l \in Line : Len(Sent(l)) \in Nat
  BY SentIsSequence, TrafficAssumption DEF Init
<1>. QED BY <1>1, <1>2, <1>3, <1>4 DEF LineInv, Settled, LostBefore

(* What an event of line k leaves of the lines.                            *)
LEMMA LineKept ==
  ASSUME LineInv, traffic \in Traffics, UNCHANGED traffic, NEW k \in Line, NEW s \in Receiver,
         rx' = [rx EXCEPT ![k] = s], UNCHANGED <<last, taken>>,
         Settled(s), Fresh(s, last[k]), s.Rd => last[k] >= 0,
         s.count <= Len(Sent(k)), s.Ack => s.count < Len(Sent(k))
  PROVE  LineInv' /\ \A l \in Line : l # k => Idle(l)
<1>1. \A l \in Line : Sent(l)' = Sent(l)
  BY DEF Sent
<1>2. rx'[k] = s /\ \A l \in Line : l # k => rx'[l] = rx[l]
  BY DEF LineInv, ByteInv
<1>3. ByteInv'
  BY <1>2 DEF LineInv, ByteInv
<1>. QED BY <1>1, <1>2, <1>3 DEF LineInv, Idle, LostBefore

LEMMA LinesKeep ==
  ASSUME LineInv, traffic \in Traffics, Lines
  PROVE  LineInv' /\ (\A l \in Line : Idle(l)) /\ UNCHANGED <<traffic, last, taken>>
<1>. USE DEF LineInv
<1>1. \A l \in Line : /\ rx[l] \in Receiver /\ Settled(rx[l]) /\ Fresh(rx[l], last[l])
                      /\ last[l] \in Int /\ rx[l].count \in Nat
  BY DEF ByteInv, Receiver
<1>2. \A l \in Line : Len(Sent(l)) \in Nat
  BY SentIsSequence, TrafficAssumption
<1>3. ASSUME NEW k \in Line, ByteBegins(k)
      PROVE  LineInv' /\ (\A l \in Line : Idle(l)) /\ UNCHANGED <<traffic, last, taken>>
  <2>. DEFINE s == ReadProcess([rx[k] EXCEPT !.Ack = TRUE])
  <2>1. rx' = [rx EXCEPT ![k] = s] /\ ~rx[k].Ack /\ rx[k].count < Len(Sent(k))
        /\ UNCHANGED <<traffic, last, taken>>
    BY <1>3 DEF ByteBegins, RxData, Speaks
  <2>2. /\ s \in Receiver /\ Settled(s)
        /\ s.count = rx[k].count /\ s.Rd = rx[k].Rd /\ s.Ready = rx[k].Ready /\ s.Ack
    BY <1>1, <2>1, DataSettled
  <2>3. Fresh(s, last[k])
    BY <1>1, DataFresh
  <2>. HIDE DEF s
  <2>4. s.Rd => last[k] >= 0
    BY <2>2
  <2>5. LineInv' /\ \A l \in Line : l # k => Idle(l)
    BY <1>2, <2>1, <2>2, <2>3, <2>4, LineKept
  <2>6. Idle(k)
    BY <2>1, <2>2 DEF Idle, ByteInv
  <2>. QED BY <2>1, <2>5, <2>6
<1>4. ASSUME NEW k \in Line, ByteEnds(k)
      PROVE  LineInv' /\ (\A l \in Line : Idle(l)) /\ UNCHANGED <<traffic, last, taken>>
  <2>. DEFINE s == ReadProcess(Stopped(rx[k]))
  <2>1. rx' = [rx EXCEPT ![k] = s] /\ rx[k].Ack /\ UNCHANGED <<traffic, last, taken>>
    BY <1>4 DEF ByteEnds, RxStop
  <2>2. /\ s \in Receiver /\ Settled(s)
        /\ s.count = rx[k].count + 1 /\ s.Rd = rx[k].Rd /\ ~s.Ack
    BY <1>1, <2>1, StopSettled
  <2>3. Fresh(s, last[k])
    BY <1>1, StopFresh
  <2>. HIDE DEF s
  <2>4. /\ s.Rd => last[k] >= 0
        /\ s.count <= Len(Sent(k)) /\ (s.Ack => s.count < Len(Sent(k)))
    BY <1>1, <1>2, <2>1, <2>2
  <2>5. LineInv' /\ \A l \in Line : l # k => Idle(l)
    BY <2>1, <2>2, <2>3, <2>4, LineKept
  <2>6. Idle(k)
    BY <2>1, <2>2 DEF Idle, ByteInv
  <2>. QED BY <2>1, <2>5, <2>6
<1>5. ASSUME NEW k \in Line, BitsSent(k)
      PROVE  LineInv' /\ (\A l \in Line : Idle(l)) /\ UNCHANGED <<traffic, last, taken>>
  <2>1. UNCHANGED <<rx, traffic, last, taken>>
    BY <1>5 DEF BitsSent, TxBit
  <2>2. \A l \in Line : Sent(l)' = Sent(l)
    BY <2>1 DEF Sent
  <2>. QED BY <2>1, <2>2 DEF Idle, ByteInv, LostBefore
<1>. QED BY <1>3, <1>4, <1>5 DEF Lines

LEMMA GetCharKeeps ==
  ASSUME LineInv, traffic \in Traffics, UNCHANGED traffic, NEW k \in Line, GetChar(k)
  PROVE  /\ LineInv' /\ Takes(k)
         /\ \A l \in Line : l # k => Idle(l)
         /\ rx[k].Ready /\ ~rx'[k].Ready /\ last'[k] = rx[k].count
         /\ rx'[k].count = rx[k].count
<1>. DEFINE s == ReadProcess([rx[k] EXCEPT !.Rd = TRUE])
<1>1. /\ rx' = [rx EXCEPT ![k] = s] /\ ~rx[k].Rd /\ rx[k].Ready
      /\ last' = [last EXCEPT ![k] = rx[k].count]
      /\ taken' = [taken EXCEPT ![k] = taken[k] + 1]
  BY DEF GetChar, ReadRR, RxReady
<1>2. /\ rx[k] \in Receiver /\ Settled(rx[k]) /\ Fresh(rx[k], last[k])
      /\ last[k] \in Int /\ rx[k].count \in Nat /\ taken[k] \in Nat
  BY DEF LineInv, ByteInv, Receiver
<1>3. /\ s \in Receiver /\ Settled(s)
      /\ s.count = rx[k].count /\ s.Rd /\ ~s.Ready /\ s.Ack = rx[k].Ack
  BY <1>1, <1>2, ReadSettled
<1>4. ByteInv'
  BY GetCharStep DEF LineInv
<1>. HIDE DEF s
<1>5. last[k] < rx[k].count
  BY <1>1, <1>2 DEF Fresh
<1>6. \A l \in Line : Sent(l)' = Sent(l)
  BY DEF Sent
<1>7. /\ rx'[k] = s /\ last'[k] = rx[k].count /\ taken'[k] = taken[k] + 1
      /\ \A l \in Line : l # k => rx'[l] = rx[l] /\ last'[l] = last[l] /\ taken'[l] = taken[l]
  BY <1>1 DEF LineInv, ByteInv
<1>8. LineInv'
  BY <1>2, <1>3, <1>4, <1>5, <1>6, <1>7 DEF LineInv, LostBefore
<1>. QED BY <1>1, <1>2, <1>3, <1>5, <1>7, <1>8 DEF LineInv, Takes, Idle

LEMMA StrobeKeeps ==
  ASSUME LineInv, traffic \in Traffics, UNCHANGED traffic, NEW k \in Line, EndOfStrobe(k),
         UNCHANGED <<last, taken>>
  PROVE  /\ LineInv' /\ Ends(k) /\ \A l \in Line : l # k => Idle(l)
         /\ ~rx'[k].Ready /\ rx'[k].count = rx[k].count
<1>. DEFINE s == ReadProcess([ReadProcess(rx[k]) EXCEPT !.Rd = FALSE])
<1>1. rx' = [rx EXCEPT ![k] = s] /\ rx[k].Rd
  BY DEF EndOfStrobe
<1>2. /\ rx[k] \in Receiver /\ Settled(rx[k]) /\ Fresh(rx[k], last[k])
      /\ last[k] \in Int /\ rx[k].count \in Nat /\ taken[k] \in Nat
  BY DEF LineInv, ByteInv, Receiver
<1>3. /\ s \in Receiver /\ Settled(s)
      /\ s.count = rx[k].count /\ ~s.Rd /\ ~s.Ready /\ s.Ack = rx[k].Ack
  BY <1>1, <1>2, StrobeSettled
<1>4. Fresh(s, last[k])
  BY <1>1, <1>2, StrobeFresh
<1>. HIDE DEF s
<1>5. rx'[k] = s
  BY <1>1 DEF LineInv, ByteInv
<1>6. s.count <= Len(Sent(k)) /\ (s.Ack => s.count < Len(Sent(k)))
  BY <1>3 DEF LineInv
<1>7. LineInv' /\ \A l \in Line : l # k => Idle(l)
  BY <1>1, <1>3, <1>4, <1>6, LineKept
<1>. QED BY <1>1, <1>3, <1>5, <1>7 DEF Ends

LEMMA ChipsRest ==
  ASSUME LineInv, UNCHANGED <<traffic, rx, last, taken>>
  PROVE  LineInv' /\ \A l \in Line : Idle(l)
<1>1. \A l \in Line : Sent(l)' = Sent(l)
  BY DEF Sent
<1>. QED BY <1>1 DEF LineInv, ByteInv, LostBefore, Idle

LEMMA LossIsSeen ==
  ASSUME LineInv, NEW l \in Line
  PROVE  /\ LostBefore(l) \in Nat /\ Lost(l) \in Nat /\ LostBefore(l) <= Lost(l)
         /\ last[l] \in Int /\ taken[l] \in Nat
<1>1. /\ rx[l].count \in Nat /\ last[l] \in Int /\ taken[l] \in Nat /\ last[l] <= rx[l].count
      /\ LostBefore(l) >= 0 /\ (last[l] = rx[l].count => ~rx[l].Ready)
  BY DEF LineInv, ByteInv, Receiver, Fresh
<1>. QED BY <1>1 DEF Lost, LostBefore, One

----------------------------------------------------------------------------
(* What the bytes of a line are, by their numbers: which begin a packet,   *)
(* which end a sentence.                                                   *)
IsEventAt(n) == n >= 5 /\ n % 5 = 0
IsNewlineAt(n) == n > 0 /\ n % 4 = 0

LEMMA FiveFold ==
  ASSUME NEW n \in Nat
  PROVE  n = 5 * (n \div 5) + (n % 5) /\ n \div 5 \in Nat /\ n % 5 \in 0..4
  OBVIOUS

LEMMA FourFold ==
  ASSUME NEW n \in Nat
  PROVE  n = 4 * (n \div 4) + (n % 4) /\ n \div 4 \in Nat /\ n % 4 \in 0..3
  OBVIOUS

LEMMA ByteParts ==
  ASSUME NEW b, NEW k \in Kind, NEW v \in Nat, b = <<k, v>>
  PROVE  b \in Byte /\ b[1] = k /\ b[2] = v
<1>1. <<k, v>> \in Byte /\ <<k, v>>[1] = k /\ <<k, v>>[2] = v
  BY DEF Byte
<1>. QED BY <1>1, Zenon

LEMMA FirstIsLeast ==
  ASSUME NEW S \in SUBSET Nat, S # {}
  PROVE  First(S) \in S /\ \A j \in S : First(S) <= j
<1>. DEFINE R == {ss \in Nat \X Nat : ss[1] < ss[2]}
<1>1. IsWellFoundedOn(R, Nat)
  BY NatLessThanWellFounded DEF OpToRel
<1>2. PICK i \in S : \A j \in S : ~(<<j, i>> \in R)
  <2>. HIDE DEF R
  <2>. QED BY <1>1, WFMin, Zenon
<1>3. ASSUME NEW j \in S PROVE i <= j
  <2>1. i \in Nat /\ j \in Nat
    OBVIOUS
  <2>2. ~(j < i)
    BY <1>2, <2>1
  <2>. QED BY <2>1, <2>2
<1>. QED BY <1>3 DEF First

LEMMA FourAreASequence ==
  ASSUME NEW S, NEW d \in [1..4 -> S]
  PROVE  d \in Seq(S) /\ Len(d) = 4
<1>1. d \in Seq(S)
  <2>1. 4 \in Nat
    OBVIOUS
  <2>. QED BY <2>1, SeqDef, Zenon
<1>2. DOMAIN d = 1..4
  OBVIOUS
<1>3. DOMAIN d = 1..Len(d) /\ Len(d) \in Nat
  BY <1>1, LenProperties
<1>. QED BY <1>1, <1>2, <1>3

LEMMA HeadOfFour ==
  ASSUME NEW S, NEW d \in Seq(S), Len(d) = 4, NEW f \in Seq(S), Len(f) = 1
  PROVE  (f \o d)[1] = f[1] /\ \A i \in 1..4 : (f \o d)[i + 1] = d[i]
<1>. DEFINE h == f \o d
<1>1. \A k \in 1..(Len(f) + Len(d)) : h[k] = IF k <= Len(f) THEN f[k] ELSE d[k - Len(f)]
  BY ConcatProperties
<1>. HIDE DEF h
<1>2. ASSUME NEW i \in 1..4 PROVE h[i + 1] = d[i]
  BY <1>1
<1>3. h[1] = f[1]
  BY <1>1
<1>. QED BY <1>2, <1>3, Zenon DEF h

LEMMA PacketByte ==
  ASSUME NEW p \in TouchPacket
  PROVE  /\ PacketBytes(p)[1] = <<p.event, 0>>
         /\ \A j \in 1..4 : PacketBytes(p)[j + 1] = <<"data", p.data[j]>>
<1>. DEFINE e == <<p.event, 0>>
            d == [i \in 1..4 |-> <<"data", p.data[i]>>]
            S == {e} \cup {d[i] : i \in 1..4}
<1>1. \A j \in 1..4 : d[j] = <<"data", p.data[j]>>
  OBVIOUS
<1>2. e \in S /\ d \in [1..4 -> S]
  <2>1. d = [i \in 1..4 |-> d[i]] /\ \A i \in 1..4 : d[i] \in S
    OBVIOUS
  <2>. HIDE DEF S, d
  <2>2. d \in [1..4 -> S]
    BY <2>1
  <2>. QED BY <2>2 DEF S
<1>3. PacketBytes(p) = <<e>> \o d
  BY DEF PacketBytes
<1>. HIDE DEF d, S, e
<1>4. <<e>> \in Seq(S) /\ Len(<<e>>) = 1 /\ <<e>>[1] = e
  BY <1>2
<1>5. d \in Seq(S) /\ Len(d) = 4
  BY <1>2, FourAreASequence
<1>6. (<<e>> \o d)[1] = e /\ \A j \in 1..4 : (<<e>> \o d)[j + 1] = d[j]
  BY <1>4, <1>5, HeadOfFour, Zenon
<1>7. PacketBytes(p)[1] = <<p.event, 0>>
  BY <1>3, <1>6, Zenon DEF e
<1>8. ASSUME NEW j \in 1..4 PROVE PacketBytes(p)[j + 1] = <<"data", p.data[j]>>
  BY <1>1, <1>3, <1>6, Zenon
<1>. QED BY <1>7, <1>8

LEMMA TouchByte ==
  ASSUME traffic \in Traffics, NEW n \in 1..Len(Sent("touch"))
  PROVE  /\ (n = 1) <=> (Sent("touch")[n] = Sync)
         /\ IsEvent(Sent("touch")[n]) <=> IsEventAt(n)
         /\ Sent("touch")[n] \in Byte
         /\ Sent("touch")[n][2] \in 0..127
         /\ IsEventAt(n) => (/\ n \div 5 \in 1..Len(Packets)
                             /\ Sent("touch")[n][1] = Packets[n \div 5].event)
         /\ \A q \in Nat, j \in 1..4 :
              q > 0 /\ n = 5 * q + j => /\ q \in 1..Len(Packets)
                                        /\ Sent("touch")[n][2] = Packets[q].data[j]
<1>. DEFINE b == Sent("touch")[n]
            q == n \div 5
            j == n % 5
<1>1. /\ Packets \in Seq(TouchPacket) /\ Len(Packets) \in Nat
      /\ n \in 1..(4 + 5 * Len(Packets)) /\ n \in Nat
      /\ b = IF n <= 4 THEN Answer[n] ELSE PacketBytes(Packets[q])[j + 1]
  BY SentIsSequence
<1>2. n = 5 * q + j /\ j \in 0..4 /\ q \in Nat
  BY <1>1, FiveFold
<1>3. Sync = <<"sync", 0>> /\ Sync[1] = "sync"
  BY DEF Sync
<1>4. CASE n <= 4
  <2>1. b = Answer[n] /\ n \in 1..4
    BY <1>1, <1>4
  <2>2. /\ Answer[1] = <<"sync", 0>> /\ Answer[2] = <<"data", 2>> /\ Answer[3] = <<"data", 0>>
        /\ Answer[4] = <<"data", 18>>
    BY DEF Answer, Sync
  <2>. HIDE DEF b, q, j
  <2>3. CASE n = 1
    <3>1. b = <<"sync", 0>> /\ "sync" \in Kind /\ 0 \in Nat
      BY <2>1, <2>2, <2>3 DEF Kind
    <3>2. b \in Byte /\ b[1] = "sync" /\ b[2] = 0
      BY <3>1, ByteParts, Zenon
    <3>. QED BY <1>3, <1>4, <2>3, <3>1, <3>2 DEF b, IsEvent, IsEventAt
  <2>4. CASE n # 1
    <3>1. PICK v \in {0, 2, 18} : b = <<"data", v>>
      BY <2>1, <2>2, <2>4
    <3>2. "data" \in Kind /\ v \in Nat
      BY DEF Kind
    <3>3. b \in Byte /\ b[1] = "data" /\ b[2] = v
      BY <3>1, <3>2, ByteParts, Zenon
    <3>4. b # Sync
      BY <1>3, <3>3
    <3>. QED BY <1>4, <2>4, <3>3, <3>4 DEF b, IsEvent, IsEventAt
  <2>. QED BY <2>3, <2>4
<1>5. CASE n > 4
  <2>. HIDE DEF b, q, j
  <2>1. q \in 1..Len(Packets)
    BY <1>1, <1>2, <1>5
  <2>2. Packets[q] \in TouchPacket
    BY <1>1, <2>1
  <2>3. b = PacketBytes(Packets[q])[j + 1]
    BY <1>1, <1>5
  <2>4. \A k \in Nat, i \in 1..4 : n = 5 * k + i => k = q /\ i = j
    BY <1>2
  <2>5. IsEventAt(n) <=> (j = 0)
    BY <1>2, <1>5 DEF IsEventAt
  <2>6. CASE j = 0
    <3>1. PacketBytes(Packets[q])[1] = <<Packets[q].event, 0>>
      BY <2>2, PacketByte
    <3>2. b = <<Packets[q].event, 0>>
      BY <2>3, <2>6, <3>1
    <3>3. Packets[q].event \in {"press", "release"}
      BY <2>2 DEF TouchPacket
    <3>4. b \in Byte /\ b[1] = Packets[q].event /\ b[2] = 0
      <4>1. Packets[q].event \in Kind /\ 0 \in Nat
        BY <3>3 DEF Kind
      <4>. QED BY <3>2, <4>1, ByteParts, Zenon
    <3>5. b # Sync /\ IsEvent(b)
      BY <1>3, <3>3, <3>4 DEF IsEvent
    <3>6. \A k \in Nat, i \in 1..4 : n # 5 * k + i
      BY <2>4, <2>6
    <3>. QED BY <1>5, <2>1, <2>5, <2>6, <3>4, <3>5, <3>6 DEF b, q
  <2>7. CASE j # 0
    <3>1. j \in 1..4
      BY <1>2, <2>7
    <3>2. b = <<"data", Packets[q].data[j]>>
      BY <2>2, <2>3, <3>1, PacketByte
    <3>3. Packets[q].data[j] \in 0..127
      BY <2>2, <3>1 DEF TouchPacket
    <3>4. b \in Byte /\ b[1] = "data" /\ b[2] = Packets[q].data[j]
      <4>. DEFINE v == Packets[q].data[j]
      <4>1. "data" \in Kind
        BY DEF Kind
      <4>2. v \in 0..127 /\ b = <<"data", v>>
        BY <3>2, <3>3
      <4>. HIDE DEF v
      <4>3. v \in Nat
        BY <4>2
      <4>4. b \in Byte /\ b[1] = "data" /\ b[2] = v
        BY <4>1, <4>2, <4>3, ByteParts, Zenon
      <4>. QED BY <4>4 DEF v
    <3>5. b # Sync /\ ~IsEvent(b)
      BY <1>3, <3>4 DEF IsEvent
    <3>6. b[2] \in 0..127
      BY <3>3, <3>4
    <3>7. n # 1 /\ ~IsEventAt(n)
      BY <1>5, <2>5, <2>7
    <3>8. ASSUME NEW k \in Nat, NEW i \in 1..4, n = 5 * k + i
          PROVE  k \in 1..Len(Packets) /\ b[2] = Packets[k].data[i]
      BY <2>1, <2>4, <3>4, <3>8
    <3>. QED BY <3>4, <3>5, <3>6, <3>7, <3>8 DEF b
  <2>. QED BY <2>6, <2>7, <1>2
<1>. QED BY <1>1, <1>4, <1>5

LEMMA SentenceByte ==
  ASSUME NEW s \in Sentence
  PROVE  /\ SentenceBytes(s)[1] = <<s.type, 0>>
         /\ SentenceBytes(s)[2] = <<",", 0>>
         /\ SentenceBytes(s)[3] = <<"field", s.field>>
         /\ SentenceBytes(s)[4] = <<"newline", 0>>
         /\ s.type \in {"GGA", "GSV"} /\ s.field \in Nat
  BY DEF SentenceBytes, Sentence

LEMMA GpsByte ==
  ASSUME traffic \in Traffics, NEW n \in 1..Len(Sent("gps"))
  PROVE  /\ Sent("gps")[n] \in Byte
         /\ Sent("gps")[n] # Nul
         /\ (Sent("gps")[n][1] = "newline") <=> (n % 4 = 0)
         /\ \A m \in Nat, j \in 1..4 :
              n = 4 * m + j => /\ m + 1 \in 1..Len(Sentences)
                               /\ Sent("gps")[n] = SentenceBytes(Sentences[m + 1])[j]
<1>. DEFINE b == Sent("gps")[n]
            q == (n + 3) \div 4
            j == (n + 3) % 4
            s == Sentences[q]
<1>1. /\ Sentences \in Seq(Sentence) /\ Len(Sentences) \in Nat
      /\ n \in 1..(4 * Len(Sentences))
      /\ b = SentenceBytes(s)[j + 1]
  BY SentIsSequence
<1>2. n \in Nat /\ n + 3 \in Nat
  BY <1>1
<1>3. n + 3 = 4 * q + j /\ j \in 0..3 /\ q \in Nat
  BY <1>2, FourFold
<1>. HIDE DEF b, q, j
<1>4. q \in 1..Len(Sentences)
  BY <1>1, <1>3
<1>5. s \in Sentence
  BY <1>1, <1>4
<1>. HIDE DEF s
<1>6. (n % 4 = 0) <=> (j = 3)
  BY <1>2, <1>3
<1>7. \/ j # 3 /\ b = <<s.type, 0>>
      \/ j # 3 /\ b = <<",", 0>>
      \/ j # 3 /\ b = <<"field", s.field>>
      \/ j = 3 /\ b = <<"newline", 0>>
  <2>1. \/ j = 0 /\ j + 1 = 1
        \/ j = 1 /\ j + 1 = 2
        \/ j = 2 /\ j + 1 = 3
        \/ j = 3 /\ j + 1 = 4
    BY <1>3
  <2>. DEFINE B == SentenceBytes(s)
  <2>2. /\ B[1] = <<s.type, 0>> /\ B[2] = <<",", 0>> /\ B[3] = <<"field", s.field>>
        /\ B[4] = <<"newline", 0>> /\ b = B[j + 1]
    BY <1>1, <1>5, SentenceByte
  <2>. HIDE DEF B
  <2>. QED BY <2>1, <2>2
<1>8. /\ 0 \in Nat /\ "," \in Kind /\ "field" \in Kind /\ "newline" \in Kind
      /\ s.type \in Kind /\ s.field \in Nat /\ s.type \in {"GGA", "GSV"}
  BY <1>5, SentenceByte DEF Kind
<1>9. b \in Byte /\ b[1] # "nul" /\ ((b[1] = "newline") <=> (j = 3))
  <2>1. CASE j # 3 /\ b = <<s.type, 0>>
    <3>1. b \in Byte /\ b[1] = s.type
      BY <1>8, <2>1, ByteParts, Zenon
    <3>2. s.type # "nul" /\ s.type # "newline"
      BY <1>8
    <3>. QED BY <2>1, <3>1, <3>2, Zenon
  <2>2. CASE j # 3 /\ b = <<",", 0>>
    <3>1. b \in Byte /\ b[1] = ","
      BY <1>8, <2>2, ByteParts, Zenon
    <3>. QED BY <2>2, <3>1, Zenon
  <2>3. CASE j # 3 /\ b = <<"field", s.field>>
    <3>1. b \in Byte /\ b[1] = "field"
      BY <1>8, <2>3, ByteParts, Zenon
    <3>. QED BY <2>3, <3>1
  <2>4. CASE j = 3 /\ b = <<"newline", 0>>
    <3>1. b \in Byte /\ b[1] = "newline"
      BY <1>8, <2>4, ByteParts, Zenon
    <3>. QED BY <2>4, <3>1
  <2>. QED BY <1>7, <2>1, <2>2, <2>3, <2>4
<1>10. Nul[1] = "nul"
  BY DEF Nul
<1>11. ASSUME NEW m \in Nat, NEW i \in 1..4, n = 4 * m + i
       PROVE  m + 1 = q /\ i = j + 1
  BY <1>2, <1>3, <1>11
<1>. QED BY <1>1, <1>4, <1>6, <1>9, <1>10, <1>11 DEF b, s

----------------------------------------------------------------------------
(* The transmitters.                                                       *)
Transmitter == [Req : BOOLEAN, Ack : BOOLEAN, Emp : BOOLEAN,
                state : {"Tx1Stop", "TxStart", "TxData"}, din : Nat, sent : Seq(Nat)]

LEMMA WriteSettles ==
  ASSUME NEW t \in Transmitter
  PROVE  WriteProcess(t) \in Transmitter
  BY DEF WriteProcess, Transmitter

LEMMA TxBitTyped ==
  ASSUME tx \in [Line -> Transmitter], NEW l \in Line, TxBit(l)
  PROVE  tx' \in [Line -> Transmitter]
<1>1. tx[l] \in Transmitter
  OBVIOUS
<1>2. CASE tx' = [tx EXCEPT ![l] = WriteProcess([@ EXCEPT !.Ack = FALSE,
                    !.state = IF tx[l].Req THEN "TxStart" ELSE "Tx1Stop"])]
  <2>1. [tx[l] EXCEPT !.Ack = FALSE, !.state = IF tx[l].Req THEN "TxStart" ELSE "Tx1Stop"]
          \in Transmitter
    BY <1>1 DEF Transmitter
  <2>. QED BY <1>2, <2>1, WriteSettles
<1>3. CASE tx' = [tx EXCEPT ![l] = WriteProcess([@ EXCEPT !.Ack = TRUE,
                    !.state = "TxData", !.sent = Append(tx[l].sent, tx[l].din)])]
  <2>1. Append(tx[l].sent, tx[l].din) \in Seq(Nat)
    BY <1>1 DEF Transmitter
  <2>. DEFINE q == [tx[l] EXCEPT !.Ack = TRUE, !.state = "TxData",
                                 !.sent = Append(tx[l].sent, tx[l].din)]
  <2>2. q \in Transmitter
    BY <1>1, <2>1 DEF Transmitter
  <2>3. tx' = [tx EXCEPT ![l] = WriteProcess(q)]
    BY <1>3
  <2>. HIDE DEF q
  <2>. QED BY <2>2, <2>3, WriteSettles
<1>4. CASE tx' = [tx EXCEPT ![l].state = "Tx1Stop"]
  <2>1. [tx[l] EXCEPT !.state = "Tx1Stop"] \in Transmitter
    BY <1>1 DEF Transmitter
  <2>. QED BY <1>4, <2>1
<1>. QED BY <1>2, <1>3, <1>4 DEF TxBit

LEMMA WriteTyped ==
  ASSUME tx \in [Line -> Transmitter], NEW l \in Line, NEW byte \in Nat, WriteTR(l, byte)
  PROVE  tx' \in [Line -> Transmitter]
<1>1. [tx[l] EXCEPT !.Req = TRUE, !.Emp = FALSE, !.din = byte] \in Transmitter
  BY DEF Transmitter
<1>. QED BY <1>1, WriteSettles DEF WriteTR

LEMMA AciaTyped ==
  /\ AciaTypeOK <=> rx \in [Line -> Receiver] /\ tx \in [Line -> Transmitter]
  /\ AciaTypeOK' <=> rx' \in [Line -> Receiver] /\ tx' \in [Line -> Transmitter]
  BY DEF AciaTypeOK, Receiver, Transmitter

----------------------------------------------------------------------------
(* The bytes the drivers read.                                             *)
LEMMA NulByte == Nul \in Byte /\ Nul[1] = "nul" /\ Nul[2] = 0
<1>1. "nul" \in Kind /\ 0 \in Nat /\ Nul = <<"nul", 0>>
  BY DEF Kind, Nul
<1>. QED BY <1>1, ByteParts, Zenon

(* The byte a driver has just read.                                        *)
LEMMA CharIsSent ==
  ASSUME LineInv, traffic \in Traffics, NEW l \in Line, rx[l].Rd
  PROVE  /\ last[l] \in 0..Len(Sent(l)) /\ Len(Sent(l)) \in Nat
         /\ Char(l) = (IF last[l] = 0 THEN Nul ELSE Sent(l)[last[l]])
  <1>1. /\ last[l] \in Int /\ last[l] <= rx[l].count /\ rx[l].count <= Len(Sent(l))
        /\ last[l] >= 0 /\ rx[l].count \in Nat
    BY DEF LineInv, ByteInv, Receiver, Fresh
  <1>2. Len(Sent(l)) \in Nat
    BY SentIsSequence, TrafficAssumption
  <1>. QED BY <1>1, <1>2 DEF Char, ByteAt

LEMMA TouchChar ==
  ASSUME LineInv, traffic \in Traffics, rx["touch"].Rd
  PROVE  /\ last["touch"] \in Nat
         /\ Char("touch") \in Byte
         /\ Char("touch")[2] \in 0..127
         /\ IsEvent(Char("touch")) <=> IsEventAt(last["touch"])
         /\ (Char("touch") = Sync) <=> (last["touch"] = 1)
<1>1. "touch" \in Line
  BY TrafficAssumption
<1>2. /\ last["touch"] \in 0..Len(Sent("touch")) /\ Len(Sent("touch")) \in Nat
      /\ Char("touch") = (IF last["touch"] = 0 THEN Nul ELSE Sent("touch")[last["touch"]])
  BY <1>1, CharIsSent
<1>3. CASE last["touch"] = 0
  <2>1. Char("touch") = Nul /\ Sync = <<"sync", 0>>
    BY <1>2, <1>3 DEF Sync
  <2>2. Sync[1] = "sync"
    BY DEF Sync
  <2>. QED BY <1>3, <2>1, <2>2, NulByte DEF IsEvent, IsEventAt
<1>4. CASE last["touch"] # 0
  <2>. DEFINE n == last["touch"]
  <2>1. n \in 1..Len(Sent("touch")) /\ Char("touch") = Sent("touch")[n]
    BY <1>2, <1>4
  <2>. HIDE DEF n
  <2>2. n \in Nat
    BY <2>1
  <2>. QED BY <2>1, <2>2, TouchByte DEF n
<1>. QED BY <1>3, <1>4

LEMMA GpsChar ==
  ASSUME LineInv, traffic \in Traffics, rx["gps"].Rd
  PROVE  /\ last["gps"] \in Nat
         /\ Char("gps") \in Byte
         /\ (Char("gps")[1] = "newline") <=> IsNewlineAt(last["gps"])
         /\ Char("gps") = ByteAt("gps", last["gps"])
<1>1. "gps" \in Line
  BY TrafficAssumption
<1>2. /\ last["gps"] \in 0..Len(Sent("gps")) /\ Len(Sent("gps")) \in Nat
      /\ Char("gps") = (IF last["gps"] = 0 THEN Nul ELSE Sent("gps")[last["gps"]])
  BY <1>1, CharIsSent
<1>3. CASE last["gps"] = 0
  <2>1. Char("gps") = Nul
    BY <1>2, <1>3
  <2>. QED BY <1>3, <2>1, NulByte DEF IsNewlineAt, Char
<1>4. CASE last["gps"] # 0
  <2>. DEFINE n == last["gps"]
  <2>1. n \in 1..Len(Sent("gps")) /\ Char("gps") = Sent("gps")[n]
    BY <1>2, <1>4
  <2>2. Char("gps") = ByteAt("gps", n)
    BY DEF Char
  <2>. HIDE DEF n
  <2>3. n \in Nat /\ n > 0
    BY <2>1
  <2>. QED BY <2>1, <2>2, <2>3, GpsByte DEF n, IsNewlineAt
<1>. QED BY <1>3, <1>4

----------------------------------------------------------------------------
(* The strings of handle_gps.                                              *)
LEMMA StringIsBytes ==
  ASSUME NEW buff \in Seq(Byte)
  PROVE  /\ String(buff) \in Seq(Byte)
         /\ Len(String(buff)) \in Nat /\ Len(String(buff)) <= Len(buff)
         /\ \A i \in 1..Len(String(buff)) : String(buff)[i] = buff[i]
<1>. DEFINE nuls == {i \in DOMAIN buff : buff[i] = Nul}
            k == First(nuls) - 1
<1>1. DOMAIN buff = 1..Len(buff) /\ Len(buff) \in Nat
  OBVIOUS
<1>2. CASE nuls = {}
  <2>1. String(buff) = buff
    BY <1>2 DEF String
  <2>. QED BY <1>1, <2>1
<1>3. CASE nuls # {}
  <2>1. nuls \in SUBSET Nat
    BY <1>1
  <2>2. First(nuls) \in nuls
    BY <1>3, <2>1, FirstIsLeast
  <2>3. First(nuls) \in 1..Len(buff)
    BY <1>1, <2>2
  <2>4. String(buff) = SubSeq(buff, 1, k)
    BY <1>3 DEF String
  <2>5. k \in Nat /\ k < Len(buff)
    BY <1>1, <2>3
  <2>. HIDE DEF k
  <2>. QED BY <1>1, <2>4, <2>5
<1>. QED BY <1>2, <1>3

LEMMA ParseIsByte ==
  ASSUME NEW buff \in Seq(Byte)
  PROVE  parse_gps_buffer(buff) \in Byte
<1>1. \A i \in DOMAIN String(buff) : buff[i] \in Byte
  <2>1. DOMAIN String(buff) = 1..Len(String(buff)) /\ Len(buff) \in Nat
    BY StringIsBytes
  <2>. QED BY <2>1, StringIsBytes
<1>2. <<"garbled", 0>> \in Byte
  BY DEF Byte, Kind
<1>. QED BY <1>1, <1>2, Zenon DEF parse_gps_buffer

----------------------------------------------------------------------------
(* Where the program is when a strobe, a packet or a sentence is pending,  *)
(* and the types.                                                          *)
Position ==
  /\ pc \in {"send", "valid"} => got \in 0..2
  /\ pc \notin {"send", "valid", "packet"} => got = 0
  /\ pc = "packet" /\ got > 0 => Len(ts_buff) = got
  /\ ts_ready => pc = "handle"
  /\ gps_ready => pc \in {"touch", "packet", "handle"}
  /\ rx["touch"].Rd => pc \in {"sync", "valid", "touch", "packet"}
  /\ rx["gps"].Rd => pc = "gps"

TypeInv == TypeOK /\ LineInv /\ Position

LEMMA TypeInit == Init => TypeInv
<1>. SUFFICES ASSUME Init PROVE TypeInv
  OBVIOUS
<1>1. LineInv
  BY LineInit
<1>2. RxReset \in Receiver /\ TxReset \in Transmitter
  BY DEF RxReset, TxReset, Receiver, Transmitter
<1>3. ReadProcess(RxReset) \in Receiver /\ ~ReadProcess(RxReset).Rd
  BY <1>2, Settles DEF ReadProcess, RxReset
<1>4. AciaTypeOK
  BY <1>2, <1>3, AciaTyped DEF Init, AciaInit
<1>5. Position
  BY <1>3, TrafficAssumption DEF Init, AciaInit, Position
<1>6. <<>> \in Seq(Byte) /\ <<>> \in Seq(0..127) /\ Len(<<>>) = 0
  OBVIOUS
<1>7. /\ pc = "send" /\ got = 0 /\ traffic \in Traffics /\ ts_state = "none"
      /\ ts_ready = FALSE /\ gps_ready = FALSE /\ curr_time = Nul
      /\ ts_buff = <<>> /\ gps_buff = <<>> /\ gpgga_sentence = <<>>
  BY DEF Init
<1>8. /\ late \in [Line -> BOOLEAN] /\ last \in [Line -> Int]
      /\ taken \in [Line -> Nat] /\ intact \in [Line -> Nat]
  BY DEF Init
<1>9. ts_buff \in Seq(0..127) /\ Len(ts_buff) <= 4
  BY <1>6, <1>7
<1>10. /\ pc \in {"send", "sync", "valid", "busy", "gps", "touch", "packet", "handle"}
       /\ got \in 0..3 /\ ts_state \in {"none", "press", "release"}
       /\ ts_ready \in BOOLEAN /\ gps_ready \in BOOLEAN
  <2>1. pc = "send" /\ got = 0 /\ ts_state = "none"
    BY DEF Init
  <2>2. ts_ready = FALSE /\ gps_ready = FALSE
    BY DEF Init
  <2>3. ts_ready \in BOOLEAN /\ gps_ready \in BOOLEAN
    BY <2>2
  <2>. QED BY <2>1, <2>3
<1>11. gps_buff \in Seq(Byte) /\ gpgga_sentence \in Seq(Byte) /\ curr_time \in Byte
  <2>1. gps_buff \in Seq(Byte) /\ gpgga_sentence \in Seq(Byte)
    BY <1>6, <1>7
  <2>2. Nul \in Byte /\ curr_time = Nul
    BY <1>7, NulByte
  <2>. QED BY <2>1, <2>2, Zenon
<1>. QED BY <1>1, <1>4, <1>5, <1>7, <1>8, <1>9, <1>10, <1>11, Zenon DEF TypeInv, TypeOK

LEMMA LinesTyped ==
  ASSUME TypeInv, Lines
  PROVE  TypeInv'
<1>. USE DEF TypeInv
<1>1. LineInv' /\ (\A l \in Line : Idle(l)) /\ UNCHANGED <<traffic, last, taken>>
  BY LinesKeep DEF TypeOK
<1>2. /\ tx' \in [Line -> Transmitter] /\ late' \in [Line -> BOOLEAN]
      /\ UNCHANGED <<pc, got, touchVars, gpsVars, intact>>
  <2>1. tx \in [Line -> Transmitter] /\ late \in [Line -> BOOLEAN]
    BY AciaTyped DEF TypeOK
  <2>2. ASSUME NEW l \in Line, ByteBegins(l)
        PROVE  UNCHANGED <<tx, late, pc, got, touchVars, gpsVars, intact>>
    BY <2>2 DEF ByteBegins, RxData
  <2>3. ASSUME NEW l \in Line, ByteEnds(l)
        PROVE  /\ UNCHANGED <<tx, pc, got, touchVars, gpsVars, intact>>
               /\ late' \in [Line -> BOOLEAN]
    BY <2>1, <2>3 DEF ByteEnds, RxStop
  <2>4. ASSUME NEW l \in Line, BitsSent(l)
        PROVE  /\ UNCHANGED <<late, pc, got, touchVars, gpsVars, intact>>
               /\ tx' \in [Line -> Transmitter]
    BY <2>1, <2>4, TxBitTyped DEF BitsSent
  <2>. QED BY <2>1, <2>2, <2>3, <2>4 DEF Lines
<1>3. AciaTypeOK'
  BY <1>1, <1>2, AciaTyped DEF LineInv, ByteInv
<1>4. Position'
  BY <1>1, <1>2, TrafficAssumption DEF Position, touchVars, gpsVars, Idle
<1>. QED BY <1>1, <1>2, <1>3, <1>4 DEF TypeOK, touchVars, gpsVars

(* What every step of the program leaves typed.                            *)
LEMMA ControllerTyped ==
  ASSUME TypeInv, UNCHANGED traffic, Returns, LineInv', Position',
         tx' \in [Line -> Transmitter],
         pc' \in {"send", "sync", "valid", "busy", "gps", "touch", "packet", "handle"},
         got' \in 0..3,
         ts_state' \in {"none", "press", "release"} /\ ts_ready' \in BOOLEAN,
         ts_buff' \in Seq(0..127) /\ Len(ts_buff') <= 4,
         gps_buff' \in Seq(Byte) /\ gpgga_sentence' \in Seq(Byte),
         gps_ready' \in BOOLEAN /\ curr_time' \in Byte,
         intact' \in [Line -> Nat]
  PROVE  TypeInv'
<1>1. rx' \in [Line -> Receiver] /\ last' \in [Line -> Int] /\ taken' \in [Line -> Nat]
  BY DEF LineInv, ByteInv
<1>2. late' \in [Line -> BOOLEAN]
  <2>1. rx \in [Line -> Receiver] /\ late \in [Line -> BOOLEAN]
    BY DEF TypeInv, TypeOK, LineInv, ByteInv
  <2>. QED BY <1>1, <2>1 DEF Returns, Receiver
<1>3. AciaTypeOK'
  BY <1>1, AciaTyped
<1>. QED BY <1>1, <1>2, <1>3 DEF TypeInv, TypeOK

LEMMA ControllerTypes ==
  ASSUME TypeInv, Controller
  PROVE  TypeInv'
<1>. USE DEF TypeInv
<1>1. /\ UNCHANGED traffic /\ Returns /\ traffic \in Traffics /\ "touch" \in Line /\ "gps" \in Line
      /\ tx \in [Line -> Transmitter] /\ rx \in [Line -> Receiver]
  BY TrafficAssumption, AciaTyped DEF Controller, TypeOK, LineInv, ByteInv
<1>2. CASE PutChar
  <2>1. UNCHANGED <<rx, last, taken, touchVars, gpsVars, intact>> /\ WriteTR("touch", Request[got + 1])
        /\ pc = "send" /\ got' = (got + 1) % 3 /\ pc' = (IF got' = 0 THEN "sync" ELSE "send")
    BY <1>2 DEF PutChar, WriteTR, Request
  <2>2. LineInv'
    BY <1>1, <2>1, ChipsRest
  <2>3. got \in 0..2 /\ got' \in 0..2
    BY <2>1 DEF Position
  <2>4. Request[got + 1] \in Nat
    BY <2>3 DEF Request
  <2>5. tx' \in [Line -> Transmitter]
    BY <1>1, <2>1, <2>4, WriteTyped
  <2>6. Position'
    BY <2>1, <2>3 DEF Position, touchVars, gpsVars
  <2>. QED BY <1>1, <2>1, <2>2, <2>3, <2>5, <2>6, ControllerTyped DEF TypeOK, touchVars, gpsVars
<1>3. ASSUME NEW l \in Line, GetChar(l) PROVE TypeInv'
  <2>1. UNCHANGED <<tx, pc, got, touchVars, gpsVars, intact>> /\ pc \in Reads(l)
    BY <1>3 DEF GetChar, ReadRR
  <2>2. LineInv' /\ \A k \in Line : k # l => Idle(k)
    BY <1>1, <1>3, GetCharKeeps
  <2>3. Position'
    BY <1>1, <2>1, <2>2, TrafficAssumption DEF Position, Idle, Reads, touchVars, gpsVars
  <2>. QED BY <1>1, <2>1, <2>2, <2>3, ControllerTyped DEF TypeOK, touchVars, gpsVars
<1>4. CASE GotSync
  <2>1. /\ UNCHANGED <<tx, got, touchVars, gpsVars, last, taken, intact>>
        /\ pc = "sync" /\ pc' \in {"sync", "valid"} /\ EndOfStrobe("touch")
    BY <1>4 DEF GotSync, EndOfStrobe
  <2>2. LineInv' /\ Ends("touch") /\ \A k \in Line : k # "touch" => Idle(k)
    BY <1>1, <2>1, StrobeKeeps
  <2>3. Position'
    BY <1>1, <2>1, <2>2 DEF Position, Idle, Ends, touchVars, gpsVars
  <2>. QED BY <1>1, <2>1, <2>2, <2>3, ControllerTyped DEF TypeOK, touchVars, gpsVars
<1>5. CASE GotValidation
  <2>1. /\ UNCHANGED <<tx, touchVars, gpsVars, last, taken, intact>>
        /\ pc = "valid" /\ got' = (got + 1) % 3 /\ EndOfStrobe("touch")
        /\ pc' = (IF got' = 0 THEN "busy" ELSE "valid")
    BY <1>5 DEF GotValidation, EndOfStrobe
  <2>2. LineInv' /\ Ends("touch") /\ \A k \in Line : k # "touch" => Idle(k)
    BY <1>1, <2>1, StrobeKeeps
  <2>3. got \in 0..2 /\ got' \in 0..2 /\ got' \in 0..3
        /\ pc' \in {"send", "sync", "valid", "busy", "gps", "touch", "packet", "handle"}
    BY <2>1 DEF Position
  <2>4. Position'
    BY <1>1, <2>1, <2>2, <2>3 DEF Position, Idle, Ends, touchVars, gpsVars
  <2>. QED BY <1>1, <2>1, <2>2, <2>3, <2>4, ControllerTyped DEF TypeOK, touchVars, gpsVars
<1>6. CASE poll_gps
  <2>1. /\ UNCHANGED <<got, touchVars, curr_time, gpgga_sentence, last, taken, intact>>
        /\ pc = "gps" /\ pc' = "touch"
    BY <1>6 DEF poll_gps
  <2>2. CASE ~rx["gps"].Rd /\ UNCHANGED <<aciaVars, gps_buff, gps_ready>>
    <3>1. UNCHANGED <<rx, tx>>
      BY <2>2 DEF aciaVars
    <3>2. LineInv'
      BY <1>1, <2>1, <3>1, ChipsRest
    <3>3. Position'
      BY <2>1, <2>2, <3>1 DEF Position, touchVars
    <3>. QED BY <1>1, <2>1, <2>2, <3>1, <3>2, <3>3, ControllerTyped DEF TypeOK, touchVars
  <2>3. CASE /\ EndOfStrobe("gps") /\ gps_buff' = Append(gps_buff, Char("gps"))
             /\ gps_ready' = (gps_ready \/ Char("gps")[1] = "newline")
    <3>1. rx["gps"].Rd /\ UNCHANGED tx
      BY <2>3 DEF EndOfStrobe
    <3>2. LineInv' /\ Ends("gps") /\ \A k \in Line : k # "gps" => Idle(k)
      BY <1>1, <2>1, <2>3, StrobeKeeps
    <3>3. gps_buff' \in Seq(Byte)
      BY <1>1, <2>3, <3>1, GpsChar DEF TypeOK
    <3>4. gps_ready' \in BOOLEAN
      BY <2>3
    <3>5. Position'
      BY <1>1, <2>1, <3>2 DEF Position, Idle, Ends, touchVars
    <3>. QED BY <1>1, <2>1, <3>1, <3>2, <3>3, <3>4, <3>5, ControllerTyped DEF TypeOK, touchVars
  <2>. QED BY <1>6, <2>2, <2>3 DEF poll_gps
<1>7. CASE poll_touchscreen
  <2>1. /\ UNCHANGED <<got, ts_buff, ts_ready, gpsVars, last, taken, intact>>
        /\ pc = "touch"
    BY <1>7 DEF poll_touchscreen
  <2>2. CASE ~rx["touch"].Rd /\ pc' = "handle" /\ UNCHANGED <<aciaVars, ts_state>>
    <3>1. UNCHANGED <<rx, tx>>
      BY <2>2 DEF aciaVars
    <3>2. LineInv'
      BY <1>1, <2>1, <3>1, ChipsRest
    <3>3. Position'
      BY <2>1, <2>2, <3>1 DEF Position, gpsVars
    <3>. QED BY <1>1, <2>1, <2>2, <3>1, <3>2, <3>3, ControllerTyped DEF TypeOK, gpsVars
  <2>3. CASE /\ EndOfStrobe("touch")
             /\ ts_state' = IF IsEvent(Char("touch")) THEN Char("touch")[1] ELSE ts_state
             /\ pc' = IF IsEvent(Char("touch")) THEN "packet" ELSE "handle"
    <3>1. rx["touch"].Rd /\ UNCHANGED tx
      BY <2>3 DEF EndOfStrobe
    <3>2. LineInv' /\ Ends("touch") /\ \A k \in Line : k # "touch" => Idle(k)
      BY <1>1, <2>1, <2>3, StrobeKeeps
    <3>3. ts_state' \in {"none", "press", "release"}
      BY <2>3 DEF TypeOK, IsEvent
    <3>4. Position'
      BY <1>1, <2>1, <2>3, <3>2 DEF Position, Idle, Ends, gpsVars
    <3>. QED BY <1>1, <2>1, <2>3, <3>1, <3>2, <3>3, <3>4, ControllerTyped DEF TypeOK, gpsVars
  <2>. QED BY <1>7, <2>2, <2>3 DEF poll_touchscreen
<1>8. CASE GotPosition
  <2>1. /\ UNCHANGED <<tx, ts_state, gpsVars, last, taken, intact>>
        /\ pc = "packet" /\ EndOfStrobe("touch") /\ rx["touch"].Rd
        /\ ts_buff' = Append(IF got = 0 THEN <<>> ELSE ts_buff, Char("touch")[2])
        /\ got' = (got + 1) % 4 /\ ts_ready' = (got' = 0)
        /\ pc' = IF got' = 0 THEN "handle" ELSE "packet"
    BY <1>8 DEF GotPosition, EndOfStrobe
  <2>2. LineInv' /\ Ends("touch") /\ \A k \in Line : k # "touch" => Idle(k)
    BY <1>1, <2>1, StrobeKeeps
  <2>3. Char("touch")[2] \in 0..127
    BY <1>1, <2>1, TouchChar
  <2>4. got \in 0..3 /\ got' \in 0..3 /\ (got' = 0 \/ got' = got + 1)
    <3>1. got \in 0..3
      BY DEF TypeOK
    <3>2. got' = (got + 1) % 4
      BY <2>1
    <3>. QED BY <3>1, <3>2
  <2>5. ts_buff' \in Seq(0..127) /\ Len(ts_buff') = got + 1
    <3>. DEFINE b == IF got = 0 THEN <<>> ELSE ts_buff
    <3>1. b \in Seq(0..127) /\ Len(b) = got
      BY <2>1, <2>4 DEF TypeOK, Position
    <3>2. ts_buff' = Append(b, Char("touch")[2])
      BY <2>1
    <3>. HIDE DEF b
    <3>. QED BY <2>3, <2>4, <3>1, <3>2
  <2>6. Position'
    BY <1>1, <2>1, <2>2, <2>4, <2>5 DEF Position, Idle, Ends, gpsVars
  <2>7. Len(ts_buff') <= 4 /\ ts_ready' \in BOOLEAN
        /\ pc' \in {"send", "sync", "valid", "busy", "gps", "touch", "packet", "handle"}
    BY <2>1, <2>4, <2>5
  <2>. QED BY <1>1, <2>1, <2>2, <2>4, <2>5, <2>6, <2>7, ControllerTyped DEF TypeOK, gpsVars
<1>9. CASE Handle
  <2>1. /\ UNCHANGED <<aciaVars, got, ts_state, ts_buff, last, taken>>
        /\ pc = "handle" /\ pc' \in {"busy", "gps"} /\ handle_gps /\ ts_ready' = FALSE
        /\ intact' = [touch |-> intact["touch"] + One(ts_ready /\ AsSent),
                      gps |-> intact["gps"] + One(gps_ready /\ Whole(gps_buff))]
    BY <1>9 DEF Handle
  <2>2. UNCHANGED <<rx, tx>>
    BY <2>1 DEF aciaVars
  <2>3. LineInv'
    BY <1>1, <2>1, <2>2, ChipsRest
  <2>4. gps_buff' \in Seq(Byte) /\ gpgga_sentence' \in Seq(Byte) /\ curr_time' \in Byte
        /\ gps_ready' = FALSE
    <3>1. gps_buff \in Seq(Byte)
      BY DEF TypeOK
    <3>2. String(gps_buff) \in Seq(Byte) /\ parse_gps_buffer(gps_buff) \in Byte
      BY <3>1, StringIsBytes, ParseIsByte
    <3>. QED BY <2>1, <3>2 DEF handle_gps, TypeOK
  <2>5. Position'
    BY <2>1, <2>2, <2>4 DEF Position
  <2>6. intact' \in [Line -> Nat]
    BY <2>1, TrafficAssumption DEF One, TypeOK
  <2>. QED BY <1>1, <2>1, <2>2, <2>3, <2>4, <2>5, <2>6, ControllerTyped DEF TypeOK
<1>10. CASE IterationEnds
  <2>1. UNCHANGED <<rx, tx, got, touchVars, gpsVars, last, taken, intact>>
        /\ pc = "busy" /\ pc' = "gps"
    BY <1>10 DEF IterationEnds, aciaVars
  <2>2. LineInv'
    BY <1>1, <2>1, ChipsRest
  <2>3. Position'
    BY <2>1 DEF Position, touchVars, gpsVars
  <2>. QED BY <1>1, <2>1, <2>2, <2>3, ControllerTyped DEF TypeOK, touchVars, gpsVars
<1>. QED BY <1>2, <1>3, <1>4, <1>5, <1>6, <1>7, <1>8, <1>9, <1>10 DEF Controller

LEMMA TypeStep == TypeInv /\ [Next]_vars => TypeInv'
<1>. SUFFICES ASSUME TypeInv, [Next]_vars PROVE TypeInv'
  OBVIOUS
<1>1. CASE UNCHANGED vars
  <2>1. UNCHANGED <<rx, tx, traffic, pc, got, touchVars, gpsVars, late, last, taken, intact>>
    BY <1>1 DEF vars, aciaVars
  <2>2. LineInv'
    BY <2>1, ChipsRest DEF TypeInv
  <2>3. Position'
    BY <2>1 DEF TypeInv, Position, touchVars, gpsVars
  <2>4. AciaTypeOK'
    BY <2>1 DEF TypeInv, TypeOK, AciaTypeOK
  <2>. QED BY <2>1, <2>2, <2>3, <2>4 DEF TypeInv, TypeOK, touchVars, gpsVars
<1>. QED BY <1>1, LinesTyped, ControllerTypes DEF Next

(* The chips, the drivers and what they have put together keep their       *)
(* types: ts_buff has four bytes at most, each of them below 128, and got  *)
(* counts no further; gps_buff, the time and the sentence kept are made of *)
(* bytes (poll_touchscreen, poll_gps, handle_gps).                         *)
THEOREM SerialTypeCorrect == Spec => []TypeOK
<1>1. Spec => []TypeInv
  BY TypeInit, TypeStep, PTL DEF Spec
<1>2. TypeInv => TypeOK
  BY DEF TypeInv
<1>. QED BY <1>1, <1>2, PTL
=============================================================================
