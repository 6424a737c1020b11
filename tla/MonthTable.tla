----------------------------- MODULE MonthTable -----------------------------
(***************************************************************************)
(* The months of the index page: the table of weeks that                   *)
(* IndexGenerator::generateMonth fills cell by cell (indexgenerator.cc),   *)
(* and the lengths of months that the month pages ask for (calendar.cc).   *)
(* Pure operators.                                                         *)
(***************************************************************************)
EXTENDS Integers, FiniteSets

CONSTANT TableYears   \* the years to look at

ASSUME TableYearsAssumption == TableYears \subseteq Nat \ {0}

(* The Gregorian calendar, which the library's dates follow: the days since*)
(* 1 March of the year 0, which was a Wednesday.                           *)
DayNumber(year, month, day) ==
  LET y == IF month <= 2 THEN year - 1 ELSE year
      m == (month + 9) % 12
  IN  365 * y + y \div 4 - y \div 100 + y \div 400 + (153 * m + 2) \div 5 + day - 1

(* bw::Datetime::weekday: 1 is Monday, 7 is Sunday. *)
Weekday(year, month, day) == ((DayNumber(year, month, day) + 2) % 7) + 1

Length(year, month) ==
  (IF month = 12 THEN DayNumber(year + 1, 1, 1) ELSE DayNumber(year, month + 1, 1))
    - DayNumber(year, month, 1)

-----------------------------------------------------------------------------
(* Calendar::isLeapYear *)
IsLeapYear(year) == (year % 4 = 0 /\ year % 100 # 0) \/ year % 400 = 0

(* Calendar::daysPerMonth *)
DaysPerMonth(year, month) ==
  CASE month \in {1, 3, 5, 7, 8, 10, 12} -> 31
    [] month = 2 -> IF IsLeapYear(year) THEN 29 ELSE 28
    [] month \in {4, 6, 9, 11} -> 30

(* Mutant of Lines: a month has five weeks at most. *)
FiveLines == 5

Lines == 6

(* The test of a cell: whether day, which is the next to write, goes into a*)
(* cell of column wday.  The day after the last one is in another month.   *)
Filled(year, month, wday, day) ==
  /\ day # 1 \/ wday >= Weekday(year, month, 1)
  /\ day <= Length(year, month)

(* The days of the cells, line by line; 0 is an empty cell. *)
Cell(year, month) ==
  LET Wday(i) == (i % 7) + 1
      current[i \in 0 .. 7 * Lines] ==
        IF i = 0 THEN 1
        ELSE LET day == current[i - 1]
             IN  IF Filled(year, month, Wday(i - 1), day) THEN day + 1 ELSE day
  IN  [i \in 0 .. 7 * Lines - 1 |->
         LET day == current[i] IN IF Filled(year, month, Wday(i), day) THEN day ELSE 0]

-----------------------------------------------------------------------------
(* Every day of the month has one cell in the table, in the column of its  *)
(* weekday and in the week of its neighbours, and the month page selects up*)
(* to its last day.                                                        *)
RightTable(year, month) ==
  LET cell  == Cell(year, month)
      first == Weekday(year, month, 1)
  IN  /\ DaysPerMonth(year, month) = Length(year, month)
      /\ \A day \in 1 .. Length(year, month) :
           { i \in DOMAIN cell : cell[i] = day } = {first + day - 2}
      /\ \A i \in DOMAIN cell : cell[i] > 0 => Weekday(year, month, cell[i]) = (i % 7) + 1

RightTables == \A year \in TableYears, month \in 1 .. 12 : RightTable(year, month)
=============================================================================
