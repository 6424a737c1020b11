---------------------------- MODULE MCRegenerate ----------------------------
(* Day 0 ends a month, days 1 and 2 are the last month of the year, day 3  *)
(* begins the next year.                                                   *)
EXTENDS Regenerate

MCMonthOf == [d \in 0 .. MaxDay |-> (d + 1) \div 2]
MCDomOf == [d \in 0 .. MaxDay |-> IF d = 0 THEN 3 ELSE ((d + 1) % 2) + 1]
MCYearOf == [m \in { MCMonthOf[d] : d \in 0 .. MaxDay } |-> IF m <= 1 THEN 0 ELSE 1]

(* Day 2 has one temperature, the others two. *)
MCTemperature == [d \in 0 .. MaxDay |-> [i \in 1 .. MaxRows |-> IF d = 2 THEN 1 ELSE i]]
MCPressure    == [d \in 0 .. MaxDay |-> [i \in 1 .. MaxRows |-> 0]]
MCTableYears == {2000}
=============================================================================
