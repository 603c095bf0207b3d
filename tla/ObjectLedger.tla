---------------------------- MODULE ObjectLedger ----------------------------
(***************************************************************************)
(* What the sorting line promises about the objects on its belt, whatever  *)
(* messages, retries, stops and new sessions do to them: an object is      *)
(* detected once, is then under way, and is counted once or lost.  A new   *)
(* session starts the counts again.  SortingSystem implements this.        *)
(***************************************************************************)
EXTENDS Naturals

VARIABLES
  seen,       \* objects detected so far
  pending,    \* objects detected and neither counted nor lost
  counted     \* objects counted in this session

ledgerVars == <<seen, pending, counted>>

Init == seen = 0 /\ pending = 0 /\ counted = 0

Detect == seen' = seen + 1 /\ pending' = pending + 1 /\ UNCHANGED counted

Count ==
  /\ pending > 0
  /\ pending' = pending - 1
  /\ counted' = counted + 1
  /\ UNCHANGED seen

Lose ==
  /\ \E n \in 1..pending : pending' = pending - n
  /\ UNCHANGED <<seen, counted>>

NewSession ==
  /\ counted' = 0
  /\ \E n \in 0..pending : pending' = pending - n
  /\ UNCHANGED seen

Next == Detect \/ Count \/ Lose \/ NewSession

Spec == Init /\ [][Next]_ledgerVars
=============================================================================
