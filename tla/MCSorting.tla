----------------------------- MODULE MCSorting -----------------------------
(***************************************************************************)
(* Small instances of SortingSystem for TLC: the values of its set-valued  *)
(* constants, chosen by the configurations MCSorting_*.cfg.                *)
(***************************************************************************)
EXTENDS SortingSystem

(* No remote control, or one message of each kind.                         *)
NoRemote == {}
EveryRemote ==
  {[type |-> "ctrl/as", val |-> 0], [type |-> "ctrl/st", val |-> 0],
   [type |-> "ctrl/pos", val |-> 1]}
RemoteStart == {[type |-> "ctrl/as", val |-> 0]}

(* One point of each kind: outside, AUTO SORT, STOP, a sweep, a position.  *)
EachButton == {Nowhere, AutoSortBtn, StopBtn, 2, 4}
SweepButtons == {AutoSortBtn, StopBtn, 2, 3}
SortButtons == {AutoSortBtn, StopBtn}

GreenBin == {2}
=============================================================================
