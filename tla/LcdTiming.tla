------------------------------ MODULE LcdTiming ------------------------------
(***************************************************************************)
(* LCD_Controller.vhd: the counters that scan the picture and the signals  *)
(* derived from them.  LcdTick is one edge of the pixel clock.  V_Clock,   *)
(* which clocks the row counter, rises with the edge that ends a line.     *)
(* No scrolling is implemented: column and row are the two counts.         *)
(***************************************************************************)
EXTENDS Integers

CONSTANTS
  B, C, D, E,     \* a line in pixels: sync, back porch, data, front porch
  P, Q, R, S      \* a frame in lines: the same

ASSUME IntervalsAssumption ==
  /\ B \in Nat \ {0} /\ C \in Nat \ {0} /\ D \in Nat /\ E \in Nat \ {0}
  /\ P \in Nat \ {0} /\ Q \in Nat \ {0} /\ R \in Nat /\ S \in Nat \ {0}

VARIABLES
  HCount, H_Data_on, H_Sync_out,
  VCount, V_Data_on, V_Sync_out,
  Blank_L

lcdVars ==
  <<HCount, H_Data_on, H_Sync_out, VCount, V_Data_on, V_Sync_out, Blank_L>>

H_TOTAL == B + C + D + E
V_TOTAL == P + Q + R + S

LcdTypeOK ==
  /\ HCount \in 0..H_TOTAL /\ VCount \in 0..V_TOTAL
  /\ H_Data_on \in BOOLEAN /\ V_Data_on \in BOOLEAN
  /\ H_Sync_out \in BOOLEAN /\ V_Sync_out \in BOOLEAN
  /\ Blank_L \in BOOLEAN

(* Blank_L has no reset.                                                   *)
LcdInit ==
  /\ HCount = 0 /\ VCount = 0
  /\ H_Data_on = FALSE /\ V_Data_on = FALSE
  /\ H_Sync_out = TRUE /\ V_Sync_out = TRUE
  /\ Blank_L \in BOOLEAN

----------------------------------------------------------------------------
(* Mutant: the counter runs on past the sum of the intervals.              *)
Wrapped_Late(n, total) == IF n = total + 1 THEN 0 ELSE n + 1

Wrapped(n, total) == IF n = total THEN 0 ELSE n + 1
Switched(signal, n, on, off) == n = on \/ (signal /\ n # off)

V_Clock == HCount = H_TOTAL

(* Mutant: the picture is switched off where its sync pulse begins.        *)
HorizontalCounter_NoPorch ==
  /\ HCount' = Wrapped(HCount, H_TOTAL)
  /\ H_Sync_out' = Switched(H_Sync_out, HCount, D + E + B, D + E)
  /\ H_Data_on' = Switched(H_Data_on, HCount, D + E + B + C, D + E + 1)

HorizontalCounter ==
  /\ HCount' = Wrapped(HCount, H_TOTAL)
  /\ H_Sync_out' = Switched(H_Sync_out, HCount, D + E + B, D + E)
  /\ H_Data_on' = Switched(H_Data_on, HCount, D + E + B + C, D)

VerticalCounter ==
  IF V_Clock
  THEN /\ VCount' = Wrapped(VCount, V_TOTAL)
       /\ V_Sync_out' = Switched(V_Sync_out, VCount, R + S + P, R + S)
       /\ V_Data_on' = Switched(V_Data_on, VCount, R + S + P + Q, R)
  ELSE UNCHANGED <<VCount, V_Sync_out, V_Data_on>>

(* Mutant: blank from the last column on, not after it.                    *)
Blanking_Early ==
  Blank_L' = ~(HCount \in D..H_TOTAL - 1 \/ VCount \in R..V_TOTAL - 1)

Blanking ==
  Blank_L' = ~(HCount \in D + 1..H_TOTAL - 1 \/ VCount \in R + 1..V_TOTAL - 1)

LcdTick == HorizontalCounter /\ VerticalCounter /\ Blanking

LcdSpec == LcdInit /\ [][LcdTick]_lcdVars

----------------------------------------------------------------------------
(* A sync pulse, and so the time in which the controller may write the     *)
(* palette, lies wholly in the blanking of its direction; the picture has  *)
(* the columns 0..D and the rows 0..R (one more of each than the 800 x 480 *)
(* the intervals are commented with).                                      *)
SyncInBlanking ==
  /\ ~H_Sync_out => ~H_Data_on
  /\ ~V_Sync_out => ~V_Data_on
  /\ H_Data_on => HCount <= D
  /\ V_Data_on => VCount <= R

(* While Blank_L tells the outside that no video is displayed, none is:    *)
(* the signal is a register and one clock late on both sides.              *)
BlankMeansDark == ~Blank_L => ~(H_Data_on /\ V_Data_on)
=============================================================================
