------------------------------- MODULE MCSite -------------------------------
(***************************************************************************)
(* A small calendar for Veterod and Site.  Months of two days, the first   *)
(* of which has begun before, keep what the code is sensitive to: the same *)
(* day of the month in two months, a day of the month that another month   *)
(* does not have, the first of a month and New Year's Day.                 *)
(***************************************************************************)
EXTENDS Site

(* Days 0 and 1 end a month, days 2 and 3 are the last month of the year,  *)
(* days 4 and 5 begin the next year.                                       *)
MCMonthOf == [d \in 0 .. MaxDay |-> d \div 2]
MCDomOf == [d \in 0 .. MaxDay |-> IF d <= 1 THEN d + 2 ELSE (d % 2) + 1]
MCYearOf == [m \in { MCMonthOf[d] : d \in 0 .. MaxDay } |-> IF m <= 1 THEN 0 ELSE 1]

(* Days 2 and 5 have one temperature, each as a part of a month that has   *)
(* one or two, by the days that have data.                                 *)
MCTemperature ==
  [d \in 0 .. MaxDay |-> [i \in 1 .. MaxRows |-> IF d \in {2, 5} THEN d \div 2 ELSE i]]

(* Days 1 and 5 have lost the pressure, day 3 gets it with its second      *)
(* dataset and day 4 loses it with its second one.                         *)
MCPressure ==
  [d \in 0 .. MaxDay |-> [i \in 1 .. MaxRows |->
     IF d \in {1, 5} \/ <<d, i>> \in {<<3, 1>>, <<4, 2>>} THEN 0 ELSE 1013]]

(* Every kind of year (it begins with any weekday, and is a leap year or   *)
(* not), and turns of centuries of both kinds.                             *)
MCTableYears == 1999 .. 2028 \union {1900, 2100}
=============================================================================
