------------------------------ MODULE MCSerial ------------------------------
(***************************************************************************)
(* Small instances of SerialLines for TLC: what the panel and the GPS      *)
(* receiver send, chosen by the configurations MCSerial_*.cfg.             *)
(***************************************************************************)
EXTENDS SerialLines

TwoLines == {"touch", "gps"}

Press == [event |-> "press", data |-> <<1, 2, 3, 4>>]
Release == [event |-> "release", data |-> <<5, 6, 7, 8>>]
Time(t) == [type |-> "GGA", field |-> t]
Satellites == [type |-> "GSV", field |-> 3]

(* More losses than there are bytes: no bound.                             *)
AnyLosses == 24

Sends(packets, sentences, losses) ==
  [packets |-> packets, sentences |-> sentences, losses |-> losses]

(* Enough packets, then enough sentences, that two losses leave one        *)
(* intact; three sentences with any losses; a touch among the sentences.   *)
EachLine ==
  {Sends(<<Press, Release, Press, Release, Press>>, <<>>, 2),
   Sends(<<>>, <<Time(100), Satellites, Time(101), Time(102), Satellites, Time(103)>>, 2),
   Sends(<<>>, <<Time(100), Satellites, Time(101)>>, AnyLosses),
   Sends(<<Press>>, <<Time(100)>>, AnyLosses)}

GpsOnly == {Sends(<<>>, <<Time(100), Satellites, Time(101)>>, AnyLosses)}
=============================================================================
