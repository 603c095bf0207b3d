---------------------------- MODULE SerialLines ----------------------------
(***************************************************************************)
(* The controller on its two slowest lines, byte by byte: the touch panel  *)
(* and the GPS receiver, each behind an Acia.  init_touch, the polls of    *)
(* the loop of main.c and the handlers of what they have put together.     *)
(*                                                                         *)
(* A byte is a pair of a kind and a value, a header or a field of a GPS    *)
(* sentence being one byte here.  The loop polls far more often than bytes *)
(* come, but for its busy periods (drawing, usleep) and while it waits for *)
(* the other line: only then is a byte overrun.                            *)
(***************************************************************************)
EXTENDS Acia

CONSTANT Traffics      \* what panel and GPS receiver may send and lose

VARIABLES
  traffic,          \* what they send: packets and sentences; how many losses
  pc,               \* where the program is
  got,              \* bytes it has put or got in the loop it is in
  ts_state, ts_buff, ts_ready,
  gps_buff, gps_ready, curr_time, gpgga_sentence,
  late,             \* lines a byte of which has waited through a busy period
  last,             \* the byte last read from each line
  taken,            \* history: bytes read from each line
  intact            \* history: packets, sentences handled as they were sent

touchVars == <<ts_state, ts_buff, ts_ready>>
gpsVars == <<gps_buff, gps_ready, curr_time, gpgga_sentence>>
vars == <<traffic, aciaVars, pc, got, touchVars, gpsVars, late, last, taken, intact>>

Packets == traffic.packets          \* of the panel when touched
Sentences == traffic.sentences      \* of the GPS receiver

TouchPacket == [event : {"press", "release"}, data : [1..4 -> 0..127]]
Sentence == [type : {"GGA", "GSV"}, field : Nat]

ASSUME TrafficAssumption ==
  /\ Line = {"touch", "gps"}
  /\ \A t \in Traffics :
       t.packets \in Seq(TouchPacket) /\ t.sentences \in Seq(Sentence) /\ t.losses \in Nat

----------------------------------------------------------------------------
(* What the other sides send.                                              *)
Nul == <<"nul", 0>>
Sync == <<"sync", 0>>
Request == <<85, 1, 18>>
Kind == {"nul", "sync", "press", "release", "data",
         "GGA", "GSV", ",", "field", "newline", "garbled"}
Byte == Kind \X Nat
Answer == <<Sync, <<"data", 2>>, <<"data", 0>>, <<"data", 18>>>>

PacketBytes(p) == <<<<p.event, 0>>>> \o [i \in 1..4 |-> <<"data", p.data[i]>>]
SentenceBytes(s) ==
  <<<<s.type, 0>>, <<",", 0>>, <<"field", s.field>>, <<"newline", 0>>>>

(* By their numbers: packet i begins at 5 * i, after the answer, and       *)
(* sentence i ends at 4 * i.                                               *)
Bytes ==
  [t \in Traffics |->
     [touch |-> [n \in 1..(4 + 5 * Len(t.packets)) |->
                   IF n <= 4 THEN Answer[n]
                   ELSE PacketBytes(t.packets[n \div 5])[(n % 5) + 1]],
      gps |-> [n \in 1..(4 * Len(t.sentences)) |->
                 SentenceBytes(t.sentences[(n + 3) \div 4])[((n + 3) % 4) + 1]]]]
Sent(l) == Bytes[traffic][l]

(* What RxDOut holds when n bytes have been completed.                     *)
ByteAt(l, n) == IF n = 0 THEN Nul ELSE Sent(l)[n]

(* The panel answers the request; the receiver is heard once its line is   *)
(* set up.                                                                 *)
Speaks(l) ==
  /\ rx[l].count < Len(Sent(l))
  /\ l = "touch" => tx[l].sent = Request /\ tx[l].state = "Tx1Stop"
  /\ l = "gps" => pc \notin {"send", "sync", "valid"}

----------------------------------------------------------------------------
(* What handle_gps makes of the buffer, a string that ends at a NUL.       *)
First(S) == CHOOSE i \in S : \A j \in S : i <= j
String(buff) ==
  LET nuls == {i \in DOMAIN buff : buff[i] = Nul}
  IN  IF nuls = {} THEN buff ELSE SubSeq(buff, 1, First(nuls) - 1)

(* Mutant: the type of the sentence is not looked at.                      *)
HasGPGGA_Any(buff) == TRUE

HasGPGGA(buff) == \E i \in DOMAIN String(buff) : String(buff)[i][1] = "GGA"

(* The six characters after the first comma, if they are those of a field. *)
parse_gps_buffer(buff) ==
  LET commas == {i \in DOMAIN String(buff) : buff[i] = <<",", 0>>}
      at == First(commas) + 1
  IN  IF commas # {} /\ at \in DOMAIN String(buff) /\ buff[at][1] = "field"
      THEN buff[at] ELSE <<"garbled", 0>>

----------------------------------------------------------------------------
Init ==
  /\ traffic \in Traffics
  /\ AciaInit
  /\ pc = "send" /\ got = 0
  /\ ts_state = "none" /\ ts_buff = <<>> /\ ts_ready = FALSE
  /\ gps_buff = <<>> /\ gps_ready = FALSE
  /\ curr_time = Nul /\ gpgga_sentence = <<>>
  /\ late = [l \in Line |-> FALSE]
  /\ last = [l \in Line |-> -1]
  /\ taken = [l \in Line |-> 0]
  /\ intact = [l \in Line |-> 0]

One(condition) == IF condition THEN 1 ELSE 0

(* Bytes completed that were never read and cannot be any more.            *)
Lost(l) ==
  rx[l].count + 1 - taken[l] - One(rx[l].Ready /\ last[l] < rx[l].count)

(* The program does not look at line l for longer than a byte takes.       *)
Deaf(l) ==
  \/ pc = "busy"
  \/ l = "gps" /\ pc \in {"send", "sync", "valid", "packet"}

(* A byte ends on a line.  It overruns one not yet read only if the        *)
(* program is deaf to the line, or has just come back to it, and no more   *)
(* often than the bound on the losses of this traffic allows.              *)
ByteEnds(l) ==
  /\ RxStop(l)
  /\ Deaf(l) \/ late[l] \/ ~(rx[l].Ready \/ rx[l].Rd)
  /\ rx[l].Ready \/ rx[l].Rd => Lost(l) < traffic.losses
  /\ late' = [late EXCEPT ![l] = FALSE]
  /\ UNCHANGED <<traffic, pc, got, touchVars, gpsVars, last, taken, intact>>

ByteBegins(l) ==
  /\ Speaks(l)
  /\ RxData(l)
  /\ UNCHANGED <<traffic, pc, got, touchVars, gpsVars, late, last, taken, intact>>

BitsSent(l) ==
  /\ TxBit(l)
  /\ UNCHANGED <<traffic, pc, got, touchVars, gpsVars, late, last, taken, intact>>

Lines == \E l \in Line : ByteBegins(l) \/ ByteEnds(l) \/ BitsSent(l)

----------------------------------------------------------------------------
(* init_touch: the request is sent and its answer read.  The program is    *)
(* busy with the rest of main's beginning (draw_screen) after that.        *)
PutChar ==
  /\ pc = "send" /\ TxEmpty("touch")
  /\ WriteTR("touch", Request[got + 1])
  /\ got' = (got + 1) % Len(Request)
  /\ pc' = IF got' = 0 THEN "sync" ELSE "send"
  /\ UNCHANGED <<touchVars, gpsVars, last, taken, intact>>

Reads(l) == IF l = "gps" THEN {"gps"} ELSE {"sync", "valid", "touch", "packet"}

(* get_char: the status shows a byte, which is read.                       *)
GetChar(l) ==
  /\ pc \in Reads(l) /\ RxReady(l)
  /\ ReadRR(l)
  /\ last' = [last EXCEPT ![l] = rx[l].count]
  /\ taken' = [taken EXCEPT ![l] = @ + 1]
  /\ UNCHANGED <<pc, got, touchVars, gpsVars, intact>>

Char(l) == ByteAt(l, last[l])

GotSync ==
  /\ pc = "sync" /\ EndOfStrobe("touch")
  /\ pc' = IF Char("touch") = Sync THEN "valid" ELSE "sync"
  /\ UNCHANGED <<got, touchVars, gpsVars, last, taken, intact>>

GotValidation ==
  /\ pc = "valid" /\ EndOfStrobe("touch")
  /\ got' = (got + 1) % 3
  /\ pc' = IF got' = 0 THEN "busy" ELSE "valid"
  /\ UNCHANGED <<touchVars, gpsVars, last, taken, intact>>

----------------------------------------------------------------------------
(* The polls.                                                              *)
poll_gps ==
  /\ pc = "gps" /\ pc' = "touch"
  /\ \/ /\ ~RxReady("gps") /\ ~rx["gps"].Rd
        /\ UNCHANGED <<aciaVars, gps_buff, gps_ready>>
     \/ /\ EndOfStrobe("gps")
        /\ gps_buff' = Append(gps_buff, Char("gps"))
        /\ gps_ready' = (gps_ready \/ Char("gps")[1] = "newline")
  /\ UNCHANGED <<got, touchVars, curr_time, gpgga_sentence, last, taken, intact>>

IsEvent(c) == c[1] \in {"press", "release"}

(* Mutant: whatever comes begins a packet.                                 *)
poll_touchscreen_Any ==
  /\ pc = "touch"
  /\ \/ /\ ~RxReady("touch") /\ ~rx["touch"].Rd
        /\ pc' = "handle"
        /\ UNCHANGED <<aciaVars, ts_state>>
     \/ /\ EndOfStrobe("touch")
        /\ ts_state' = IF IsEvent(Char("touch")) THEN Char("touch")[1] ELSE ts_state
        /\ pc' = "packet"
  /\ UNCHANGED <<got, ts_buff, ts_ready, gpsVars, last, taken, intact>>

poll_touchscreen ==
  /\ pc = "touch"
  /\ \/ /\ ~RxReady("touch") /\ ~rx["touch"].Rd
        /\ pc' = "handle"
        /\ UNCHANGED <<aciaVars, ts_state>>
     \/ /\ EndOfStrobe("touch")
        /\ ts_state' = IF IsEvent(Char("touch")) THEN Char("touch")[1] ELSE ts_state
        /\ pc' = IF IsEvent(Char("touch")) THEN "packet" ELSE "handle"
  /\ UNCHANGED <<got, ts_buff, ts_ready, gpsVars, last, taken, intact>>

(* Mutant: the buffer is not begun anew.                                   *)
GotPosition_Appended ==
  /\ pc = "packet" /\ EndOfStrobe("touch")
  /\ ts_buff' = Append(ts_buff, Char("touch")[2])
  /\ got' = (got + 1) % 4
  /\ ts_ready' = (got' = 0)
  /\ pc' = IF got' = 0 THEN "handle" ELSE "packet"
  /\ UNCHANGED <<ts_state, gpsVars, last, taken, intact>>

(* Mutant: one byte too many is waited for.                                *)
GotPosition_Five ==
  /\ pc = "packet" /\ EndOfStrobe("touch")
  /\ ts_buff' = Append(IF got = 0 THEN <<>> ELSE ts_buff, Char("touch")[2])
  /\ got' = (got + 1) % 5
  /\ ts_ready' = (got' = 0)
  /\ pc' = IF got' = 0 THEN "handle" ELSE "packet"
  /\ UNCHANGED <<ts_state, gpsVars, last, taken, intact>>

(* The four bytes after the event, waited for.                             *)
GotPosition ==
  /\ pc = "packet" /\ EndOfStrobe("touch")
  /\ ts_buff' = Append(IF got = 0 THEN <<>> ELSE ts_buff, Char("touch")[2])
  /\ got' = (got + 1) % 4
  /\ ts_ready' = (got' = 0)
  /\ pc' = IF got' = 0 THEN "handle" ELSE "packet"
  /\ UNCHANGED <<ts_state, gpsVars, last, taken, intact>>

----------------------------------------------------------------------------
Whole(buff) == \E i \in DOMAIN Sentences : buff = SentenceBytes(Sentences[i])
AsSent == \E i \in DOMAIN Packets :
            Packets[i].event = ts_state /\ Packets[i].data = ts_buff

(* Mutant: the buffer goes on after a sentence that is not GPGGA.          *)
handle_gps_Kept ==
  /\ IF gps_ready /\ HasGPGGA(gps_buff)
     THEN /\ curr_time' = parse_gps_buffer(gps_buff)
          /\ gpgga_sentence' = String(gps_buff)
          /\ gps_buff' = <<>>
     ELSE UNCHANGED <<curr_time, gpgga_sentence, gps_buff>>
  /\ gps_ready' = FALSE

(* Mutant: the buffer goes on after a GPGGA whose time cannot be cut.      *)
handle_gps_Untimed ==
  /\ IF gps_ready /\ HasGPGGA(gps_buff)
     THEN /\ curr_time' = parse_gps_buffer(gps_buff)
          /\ gpgga_sentence' = String(gps_buff)
     ELSE UNCHANGED <<curr_time, gpgga_sentence>>
  /\ gps_buff' = IF gps_ready /\ (HasGPGGA(gps_buff) => curr_time'[1] # "garbled")
                 THEN <<>> ELSE gps_buff
  /\ gps_ready' = FALSE

(* A sentence that has GPGGA is kept, and its time shown.                  *)
handle_gps ==
  /\ IF gps_ready /\ HasGPGGA(gps_buff)
     THEN /\ curr_time' = parse_gps_buffer(gps_buff)
          /\ gpgga_sentence' = String(gps_buff)
     ELSE UNCHANGED <<curr_time, gpgga_sentence>>
  /\ gps_buff' = IF gps_ready THEN <<>> ELSE gps_buff
  /\ gps_ready' = FALSE

(* The rest of an iteration: the handlers, then what else it does, which   *)
(* takes long if the time is drawn and may take long if not.               *)
Handle ==
  /\ pc = "handle"
  /\ handle_gps
  /\ ts_ready' = FALSE
  /\ intact' = [touch |-> intact["touch"] + One(ts_ready /\ AsSent),
                gps |-> intact["gps"] + One(gps_ready /\ Whole(gps_buff))]
  /\ \/ pc' = "busy"
     \/ pc' = "gps" /\ curr_time' = curr_time
  /\ UNCHANGED <<aciaVars, got, ts_state, ts_buff, last, taken>>

IterationEnds ==
  /\ pc = "busy" /\ pc' = "gps"
  /\ UNCHANGED <<aciaVars, got, touchVars, gpsVars, last, taken, intact>>

----------------------------------------------------------------------------
(* A byte that waits when the program turns to a line again may be         *)
(* overrun by the one that ends just then.                                 *)
Returns ==
  late' = [l \in Line |->
             IF Deaf(l) /\ ~Deaf(l)' THEN rx[l].Ready
             ELSE late[l] /\ (rx'[l].Ready \/ rx'[l].Rd)]

Controller ==
  /\ \/ PutChar \/ (\E l \in Line : GetChar(l)) \/ GotSync \/ GotValidation
     \/ poll_gps \/ poll_touchscreen \/ GotPosition \/ Handle \/ IterationEnds
  /\ Returns
  /\ UNCHANGED traffic

Next == Lines \/ Controller

(* Lines and program go on.                                                *)
Spec == Init /\ [][Next]_vars /\ WF_vars(Controller)
        /\ \A l \in Line : WF_vars(ByteBegins(l) \/ ByteEnds(l) \/ BitsSent(l))

----------------------------------------------------------------------------
TypeOK ==
  /\ AciaTypeOK
  /\ traffic \in Traffics
  /\ pc \in {"send", "sync", "valid", "busy", "gps", "touch", "packet", "handle"}
  /\ got \in 0..3
  /\ ts_state \in {"none", "press", "release"} /\ ts_ready \in BOOLEAN
  /\ ts_buff \in Seq(0..127) /\ Len(ts_buff) <= 4
  /\ gps_buff \in Seq(Byte) /\ gpgga_sentence \in Seq(Byte)
  /\ gps_ready \in BOOLEAN /\ curr_time \in Byte
  /\ late \in [Line -> BOOLEAN]
  /\ last \in [Line -> Int] /\ taken \in [Line -> Nat] /\ intact \in [Line -> Nat]

Polling == pc = "gps" /\ ~rx["gps"].Rd

(* No byte is read twice, and none after a later one, whatever the moment  *)
(* at which a read meets the end of a byte (acia_rx_read).                 *)
EachByteOnce ==
  [][\A l \in Line : taken'[l] # taken[l] => last'[l] > last[l]]_vars

(* A byte lost costs two touch packets at most: poll_touchscreen finds the *)
(* next event again, since no position byte looks like one.                *)
PacketsRecovered ==
  Polling => (last["touch"] - Len(Answer)) \div 5 - intact["touch"]
                <= 2 * Lost("touch")

(* A byte lost costs two GPS sentences at most.  One more is lost always:  *)
(* the NUL the receiver flags after reset ends the string of the first.    *)
SentencesRecovered ==
  Polling => last["gps"] \div 4 - intact["gps"] <= 2 * Lost("gps") + 1

(* gps_buff holds the first sentence, its NUL and one more sentence for    *)
(* each byte lost: it does not grow unless bytes are lost.                 *)
GpsBufferBounded == Len(gps_buff) <= 4 * (1 + Lost("gps")) + 1

(* While no byte has been lost the time shown and the sentence kept are    *)
(* those of the last GPGGA sentence but the first sentence of all.         *)
TimeUpToDate ==
  Polling /\ Lost("gps") = 0 =>
    LET gga == {i \in 2..last["gps"] \div 4 : Sentences[i].type = "GGA"}
        latest == CHOOSE i \in gga : \A j \in gga : j <= i
    IN  IF gga = {} THEN curr_time = Nul /\ gpgga_sentence = <<>>
        ELSE /\ curr_time = <<"field", Sentences[latest].field>>
             /\ gpgga_sentence = SentenceBytes(Sentences[latest])

(* init_touch ends: every byte of the request is sent, the answer found.   *)
InitEnds == <>(pc = "gps")

(* The loop goes on for ever unless a byte of the panel has been lost, in  *)
(* which case poll_touchscreen may wait for one that does not come.        *)
StuckOnlyByLoss == ([]<>(pc = "gps")) \/ <>(Lost("touch") > 0)

(* The time shown is one that the GPS receiver has sent as a time.         *)
TimeIsFromGps ==
  curr_time # Nul =>
    \E i \in DOMAIN Sentences :
      Sentences[i].type = "GGA" /\ curr_time = <<"field", Sentences[i].field>>
=============================================================================
