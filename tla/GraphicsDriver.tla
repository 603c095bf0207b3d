--------------------------- MODULE GraphicsDriver ---------------------------
(***************************************************************************)
(* The primitives of graphics.c on the processor: the transfers each makes *)
(* over the bridge, and the processor's part in a clock.                   *)
(***************************************************************************)
EXTENDS GraphicsController

VARIABLES
  calls,      \* the calls the program has still to complete
  step,       \* the transfer of the first of them that is next
  results     \* what ReadAPixel has returned

driverVars == <<calls, step, results>>

Status == [rw |-> "read", reg |-> "Command", data |-> 0]
FetchColour == [rw |-> "read", reg |-> "Colour", data |-> 0]
Set(reg, value) == [rw |-> "write", reg |-> reg, data |-> value]

(* WAIT_FOR_GRAPHICS, the arguments, the command; to read a pixel, wait    *)
(* again and fetch it.                                                     *)
CommandStep(call) == Len(Arguments(call)) + 2
LastStep(call) ==
  IF call.Command = GetAPixelCmd THEN CommandStep(call) + 2 ELSE CommandStep(call)

TransferAt(call, n) ==
  CASE n = 1                     -> Status
    [] n \in 2..CommandStep(call) - 1 ->
         Set(Arguments(call)[n - 1], call[Arguments(call)[n - 1]])
    [] n = CommandStep(call)     -> Set("Command", call.Command)
    [] n = CommandStep(call) + 1 -> Status
    [] OTHER                     -> FetchColour

DriverTypeOK ==
  /\ calls \in Seq(PrimitiveCall)
  /\ step \in Nat \ {0}
  /\ calls # <<>> => step <= LastStep(Head(calls))
  /\ results \in Seq(Colour)

DriverInit == step = 1 /\ results = <<>>

----------------------------------------------------------------------------
(* The processor between two transfers: it computes, for as long as it     *)
(* likes and not less than it takes the acknowledgement to fall.           *)
Computes ==
  /\ request = NoTransfer
  /\ UNCHANGED <<request, calls, step, results>>

Issues ==
  /\ request = NoTransfer /\ ~acknowledge
  /\ calls # <<>>
  /\ request' = TransferAt(Head(calls), step)
  /\ UNCHANGED <<calls, step, results>>

Waits == waitrequest /\ UNCHANGED <<request, calls, step, results>>

Ends ==
  IF step < LastStep(Head(calls))
  THEN step' = step + 1 /\ UNCHANGED calls
  ELSE step' = 1 /\ calls' = Tail(calls)

(* A status that reads busy is read again.                                 *)
ReadsStatus ==
  /\ Completes /\ request = Status
  /\ request' = NoTransfer
  /\ IF DataOutToCPU = 1 THEN Ends ELSE UNCHANGED <<calls, step>>
  /\ UNCHANGED results

ReadsColour ==
  /\ Completes /\ request = FetchColour
  /\ request' = NoTransfer
  /\ results' = Append(results, DataOutToCPU)
  /\ Ends

WritesRegister ==
  /\ Completes /\ request.rw = "write"
  /\ request' = NoTransfer
  /\ Ends
  /\ UNCHANGED results

Processor ==
  Computes \/ Issues \/ Waits \/ ReadsStatus \/ ReadsColour \/ WritesRegister
=============================================================================
