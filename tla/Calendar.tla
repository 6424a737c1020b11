------------------------------ MODULE Calendar ------------------------------
(***************************************************************************)
(* The civil calendar as the daemon uses it.  bw::Datetime is not under    *)
(* src/ (it comes from libbw), so this is what the code needs of it: day() *)
(* month() and year() of a time stamp, and addDays(-1).                    *)
(*                                                                         *)
(* A day is its number, counted from the day before the installation.  The *)
(* three functions give the month a day lies in (months are numbered       *)
(* through, so January of the next year is another month), its number      *)
(* within that month and its year.                                         *)
(***************************************************************************)
EXTENDS Integers

CONSTANTS MaxDay,   \* the last day of the horizon
          MonthOf,  \* [Day -> Month], "%Y-%m" of a day
          DomOf,    \* [Day -> Nat], bw::Datetime::day(), the day of the month
          YearOf    \* [Month -> Year], "%Y" of a month

Day   == 0 .. MaxDay
Month == { MonthOf[d] : d \in Day }
Year  == { YearOf[m] : m \in Month }

(* Days the program can run on: every one of them has a yesterday. *)
RunDay == 1 .. MaxDay

ASSUME HorizonAssumption == MaxDay \in Nat /\ MaxDay >= 1

ASSUME CalendarAssumption ==
  /\ MonthOf \in [Day -> Nat]
  /\ DomOf \in [Day -> Nat \ {0}]
  /\ YearOf \in [Month -> Nat]

(* Months follow each other, none has a single day, and the day of the     *)
(* month is 1 on the first day of a month and one more on each later one.  *)
ASSUME MonthAssumption ==
  \A d \in RunDay :
     \/ MonthOf[d] = MonthOf[d - 1] /\ DomOf[d] = DomOf[d - 1] + 1
     \/ MonthOf[d] = MonthOf[d - 1] + 1 /\ DomOf[d] = 1 /\ DomOf[d - 1] > 1

(* A year changes only where a month does, and January is its first month. *)
ASSUME YearAssumption ==
  \A m \in Month : m + 1 \in Month => YearOf[m + 1] \in {YearOf[m], YearOf[m] + 1}

DaysOf(m) == { d \in Day : MonthOf[d] = m }

(* timestamp.month() == January && timestamp.day() == 1 *)
IsNewYearsDay(d) == d \in RunDay /\ YearOf[MonthOf[d]] # YearOf[MonthOf[d - 1]]
=============================================================================
