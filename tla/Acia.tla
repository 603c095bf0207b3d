-------------------------------- MODULE Acia --------------------------------
(***************************************************************************)
(* The serial chips ACIA_6850, ACIA_RX and ACIA_TX, one for each line.  A  *)
(* byte is the number of its place in what the other side sends, the byte  *)
(* in RxDOut being the last one completed.                                 *)
(*                                                                         *)
(* The processes of a chip exchange flags on every system clock.  A bit of *)
(* the line takes thousands of them, an access of the processor several:   *)
(* the flags settle (ReadProcess, WriteProcess) before the next event.     *)
(* Only the second clock of a read strobe, in which the receiver may go    *)
(* on, is a step of its own.                                               *)
(***************************************************************************)
EXTENDS Integers, Sequences

CONSTANT Line        \* the chips the system has

VARIABLES
  rx,    \* receiver: RxAck, RxReq, RxReady, RxOErr, RxRd, bytes completed
  tx     \* transmitter: TxReq, TxAck, TxEmp, TxState, TxDin, bytes sent

aciaVars == <<rx, tx>>

AciaTypeOK ==
  /\ rx \in [Line -> [Ack : BOOLEAN, Req : BOOLEAN, Ready : BOOLEAN,
                      OErr : BOOLEAN, Rd : BOOLEAN, count : Nat]]
  /\ tx \in [Line -> [Req : BOOLEAN, Ack : BOOLEAN, Emp : BOOLEAN,
                      state : {"Tx1Stop", "TxStart", "TxData"},
                      din : Nat, sent : Seq(Nat)]]

----------------------------------------------------------------------------
(* Mutant: a byte just read is flagged again while none is being received. *)
ReadProcess_Again(r) ==
  IF r.Rd THEN [r EXCEPT !.Ready = FALSE, !.Req = TRUE]
  ELSE IF r.Ack THEN [r EXCEPT !.Req = FALSE]
  ELSE [r EXCEPT !.Ready = TRUE]

(* acia_rx_read: a read clears the flag and asks for another byte; the     *)
(* request is met when the byte has begun, the flag set when it is in.     *)
ReadProcess(r) ==
  IF r.Rd THEN [r EXCEPT !.Ready = FALSE, !.Req = TRUE]
  ELSE IF r.Req /\ r.Ack THEN [r EXCEPT !.Req = FALSE]
  ELSE IF ~r.Req /\ ~r.Ack THEN [r EXCEPT !.Ready = TRUE]
  ELSE r

(* Mutant: empty as soon as the request has been met.                      *)
WriteProcess_Early(t) ==
  IF t.Req /\ t.Ack THEN [t EXCEPT !.Req = FALSE]
  ELSE [t EXCEPT !.Emp = TRUE]

(* acia_tx_write: the request is met when the transmitter has loaded the   *)
(* byte, the register is empty when it has sent it.                        *)
WriteProcess(t) ==
  IF t.Req /\ t.Ack THEN [t EXCEPT !.Req = FALSE]
  ELSE IF ~t.Req /\ ~t.Ack THEN [t EXCEPT !.Emp = TRUE]
  ELSE t

(* After reset the receiver flags a byte although none has come.           *)
RxReset == [Ack |-> FALSE, Req |-> FALSE, Ready |-> FALSE, OErr |-> FALSE,
            Rd |-> FALSE, count |-> 0]
TxReset == [Req |-> FALSE, Ack |-> FALSE, Emp |-> TRUE, state |-> "Tx1Stop",
            din |-> 0, sent |-> <<>>]

AciaInit ==
  /\ rx = [l \in Line |-> ReadProcess(RxReset)]
  /\ tx = [l \in Line |-> TxReset]

----------------------------------------------------------------------------
(* The line: a byte begins, a byte ends.                                   *)
RxData(l) ==
  /\ ~rx[l].Ack
  /\ rx' = [rx EXCEPT ![l] = ReadProcess([@ EXCEPT !.Ack = TRUE])]
  /\ UNCHANGED tx

Stopped(r) == [r EXCEPT !.Ack = FALSE, !.OErr = r.Ready, !.count = @ + 1]
RxStop(l) ==
  /\ rx[l].Ack
  /\ rx' = [rx EXCEPT ![l] = ReadProcess(Stopped(@))]
  /\ UNCHANGED tx

(* acia_tx_transmit, one step for the bits of a byte.                      *)
TxBit(l) ==
  /\ \/ /\ tx[l].state = "Tx1Stop" /\ (tx[l].Ack \/ tx[l].Req)
        /\ tx' = [tx EXCEPT ![l] = WriteProcess([@ EXCEPT !.Ack = FALSE,
                    !.state = IF tx[l].Req THEN "TxStart" ELSE "Tx1Stop"])]
     \/ /\ tx[l].state = "TxStart"
        /\ tx' = [tx EXCEPT ![l] = WriteProcess([@ EXCEPT !.Ack = TRUE,
                    !.state = "TxData", !.sent = Append(tx[l].sent, tx[l].din)])]
     \/ /\ tx[l].state = "TxData"
        /\ tx' = [tx EXCEPT ![l].state = "Tx1Stop"]
  /\ UNCHANGED rx

----------------------------------------------------------------------------
(* The processor reads RxData: the strobe lasts two clocks, and what it    *)
(* has read is the byte of the first.                                      *)
ReadRR(l) ==
  /\ ~rx[l].Rd
  /\ rx' = [rx EXCEPT ![l] = ReadProcess([@ EXCEPT !.Rd = TRUE])]
  /\ UNCHANGED tx

EndOfStrobe(l) ==
  /\ rx[l].Rd
  /\ rx' = [rx EXCEPT ![l] = ReadProcess([ReadProcess(@) EXCEPT !.Rd = FALSE])]
  /\ UNCHANGED tx

WriteTR(l, byte) ==
  /\ tx' = [tx EXCEPT ![l] = WriteProcess([@ EXCEPT
              !.Req = TRUE, !.Emp = FALSE, !.din = byte])]
  /\ UNCHANGED rx

(* What the drivers test in the status register.                           *)
RxReady(l) == rx[l].Ready
TxEmpty(l) == tx[l].Emp
=============================================================================
