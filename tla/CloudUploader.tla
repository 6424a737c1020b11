---------------------------- MODULE CloudUploader ----------------------------
(***************************************************************************)
(* The numbers of the cloud upload (clouduploader.cc): the conversion to   *)
(* the units of the service (weather.cc) and how operator<< writes them.   *)
(* Pure operators.                                                         *)
(*                                                                         *)
(* setprecision without "fixed" counts significant digits, and a number    *)
(* with more digits before its point than that is written as in 1e+02.     *)
(* A number in another unit is a fraction: a double, up to its last bits   *)
(* and the last digits of the factor.                                      *)
(***************************************************************************)
EXTENDS Integers, FiniteSetsExt

(* From hundredths, and from 1/1000 mm for the rain *)
celsius2Fahrenheit(t) == [n |-> 18 * t + 32000, d |-> 1000]
kmh2mph(v)            == [n |-> 6214 * v, d |-> 1000000]
mm2in(r)              == [n |-> r, d |-> 25400]
hPa2inHg(p)           == [n |-> 2953 * p, d |-> 10000000]
Percent(h)            == [n |-> h, d |-> 100]

-----------------------------------------------------------------------------
(* n / d, a half is rounded up; n is not negative. *)
Quotient(n, d) == (n + d \div 2) \div d

(* n * 10^k / d, in two parts that TLC has integers for *)
Scaled(n, d, k) ==
  LET part == IF k <= 4 THEN k ELSE 4
      whole == n * 10^part
  IN  (whole \div d) * 10^(k - part) + Quotient((whole % d) * 10^(k - part), d)

(* The power of ten of the first digit of n / d; 0 of 0 *)
Exponent(n, d) ==
  LET Reaches(e) == IF e >= 0 THEN n \div 10^e >= d
                    ELSE n >= (d + 10^(-e) - 1) \div 10^(-e)
  IN  IF n = 0 THEN 0 ELSE Max({ e \in -4 .. 2 : Reaches(e) })

(* The number as it is written: its digits, what the last of them counts   *)
(* in powers of ten, and whether it is written with an exponent.           *)
Written(x, precision) ==
  LET size   == IF x.n < 0 THEN -x.n ELSE x.n
      first  == Exponent(size, x.d)
      last   == first - precision + 1
      digits == IF last >= 0 THEN Quotient(size, x.d * 10^last)
                ELSE IF x.d % 10^(-last) = 0 THEN Quotient(size, x.d \div 10^(-last))
                ELSE Scaled(size, x.d, -last)
      carry  == digits = 10^precision
  IN  [digits |-> (IF carry THEN digits \div 10 ELSE digits) * (IF x.n < 0 THEN -1 ELSE 1),
       last   |-> IF carry THEN last + 1 ELSE last,
       power  |-> last + (IF carry THEN 1 ELSE 0) > 0]

(* The number that the service reads, in units of 10^unit *)
ReadAs(written, unit) ==
  IF written.last >= unit THEN written.digits * 10^(written.last - unit)
  ELSE written.digits \div 10^(unit - written.last)

-----------------------------------------------------------------------------
(* Mutant of PressureDigits: the precision of the wind is left in force. *)
DigitsOfWind == 2

(* The precision of each number *)
PressureDigits == 3
RainDigits     == 5
OtherDigits    == 2
=============================================================================
