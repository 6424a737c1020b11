---------------------------- MODULE MCReportgen -----------------------------
(* Instances of Reportgen: days on which datasets arrive. *)
EXTENDS Reportgen

(* A day, the next one, and a day after a day without data: generators 1   *)
(* and 2 make the page of day 1, all of them that of the current weather.  *)
(* The first two may get in each other's way before the third one starts.  *)
WithGap == <<1, 2, 4>>

(* The last dataset of a day and the first of the next one. *)
OverMidnight == <<1, 2>>
=============================================================================
