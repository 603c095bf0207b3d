------------------------------- MODULE Bridge -------------------------------
(***************************************************************************)
(* The bus on which the processor reaches the graphics controller: the     *)
(* bridge of the Nios system and the flip-flop that acknowledges its       *)
(* transfers one clock late.  Every action is one edge of the 50 MHz clock.*)
(***************************************************************************)
EXTENDS GraphicsCalls

VARIABLES
  request,       \* the transfer the processor waits for, or NoTransfer
  enable,        \* bus_enable: a transfer is on the bus (AS_L is low)
  bus,           \* the transfer the bridge's output registers hold
  acknowledge    \* the bus answers: the transfer ends with this clock

bridgeVars == <<request, enable, bus, acknowledge>>

Transfer == [rw : {"read", "write"}, reg : Register, data : Int]
NoTransfer == [rw |-> "none", reg |-> "none", data |-> 0]

BridgeTypeOK ==
  /\ request \in Transfer \cup {NoTransfer}
  /\ bus \in Transfer \cup {NoTransfer}
  /\ enable \in BOOLEAN
  /\ acknowledge \in BOOLEAN

BridgeInit ==
  /\ request = NoTransfer
  /\ enable = FALSE
  /\ bus = NoTransfer
  /\ acknowledge = FALSE

waitrequest == request # NoTransfer /\ ~acknowledge

BridgeClock ==
  /\ enable' = waitrequest
  /\ bus' = request
  /\ acknowledge' = enable

Completes == request # NoTransfer /\ acknowledge

(* What the addressed chip sees.                                           *)
Writes(reg) == enable /\ bus.rw = "write" /\ bus.reg = reg
=============================================================================
