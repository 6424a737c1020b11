------------------------ MODULE CurrentWeatherProofs ------------------------
(***************************************************************************)
(* Theorems about CurrentWeather for every number of time slots, of ways   *)
(* the clock is set back and of failures, and for everything that the      *)
(* stations can encode.                                                    *)
(*                                                                         *)
(* What is assumed of the constants, beyond the assumptions of the module: *)
(* the stations are of the types that a reader reads a dataset of          *)
(* (ReadTypes; of the two others everything is zero), for what is exact to *)
(* the digit or fits on the display that their samples are of weather that *)
(* there is (PlausibleReadings), and for the display that a day's datasets *)
(* are not ten metres of rain (DatasetsOfDay).                             *)
(***************************************************************************)
EXTENDS CurrentWeather, FiniteSetTheorems, WellFoundedInduction, TLAPS

-----------------------------------------------------------------------------
(* The greatest and the least of a set, without an induction: of the sets  *)
(* of what is greater than an element, one has none below it.              *)

LEMMA MaxOfFiniteSet ==
  ASSUME NEW S \in SUBSET Int, IsFiniteSet(S), S # {}
  PROVE  Max(S) \in S /\ \A x \in S : x <= Max(S)
<1> DEFINE Above(x) == { y \in S : y > x }
           T == { Above(x) : x \in S }
<1>1. T \subseteq FiniteSubsetsOf(S) /\ T # {}
  <2>1. PICK x \in S : TRUE
    OBVIOUS
  <2>2. Above(x) \in T
    OBVIOUS
  <2>3. T \subseteq SUBSET S
    OBVIOUS
  <2> HIDE DEF T
  <2> QED
    BY <2>2, <2>3, FS_FiniteSubsetsOfFinite
<1>2. PICK A \in T : \A B \in T : ~ <<B, A>> \in StrictSubsetOrdering(S)
  <2> HIDE DEF T
  <2> QED
    BY <1>1, FS_StrictSubsetOrderingWellFounded, WFMin
<1>3. PICK x \in S : A = Above(x)
  BY <1>2
<1>4. \A y \in S : x >= y
  <2> SUFFICES ASSUME NEW y \in S, y > x PROVE FALSE
    OBVIOUS
  <2>1. Above(y) \subseteq Above(x) /\ y \in Above(x) /\ y \notin Above(y)
    <3>1. \A z \in S : z > y => z > x
      OBVIOUS
    <3>2. ~(y > y)
      OBVIOUS
    <3> QED
      BY <3>1, <3>2
  <2>2. <<Above(y), Above(x)>> \in StrictSubsetOrdering(S)
    BY <2>1 DEF StrictSubsetOrdering
  <2> QED
    BY <1>2, <1>3, <2>2
<1> QED
  BY <1>4 DEF Max

LEMMA MinOfFiniteSet ==
  ASSUME NEW S \in SUBSET Int, IsFiniteSet(S), S # {}
  PROVE  Min(S) \in S /\ \A x \in S : Min(S) <= x
<1> DEFINE Below(x) == { y \in S : y < x }
           T == { Below(x) : x \in S }
<1>1. T \subseteq FiniteSubsetsOf(S) /\ T # {}
  <2>1. PICK x \in S : TRUE
    OBVIOUS
  <2>2. Below(x) \in T
    OBVIOUS
  <2>3. T \subseteq SUBSET S
    OBVIOUS
  <2> HIDE DEF T
  <2> QED
    BY <2>2, <2>3, FS_FiniteSubsetsOfFinite
<1>2. PICK A \in T : \A B \in T : ~ <<B, A>> \in StrictSubsetOrdering(S)
  <2> HIDE DEF T
  <2> QED
    BY <1>1, FS_StrictSubsetOrderingWellFounded, WFMin
<1>3. PICK x \in S : A = Below(x)
  BY <1>2
<1>4. \A y \in S : x <= y
  <2> SUFFICES ASSUME NEW y \in S, y < x PROVE FALSE
    OBVIOUS
  <2>1. Below(y) \subseteq Below(x) /\ y \in Below(x) /\ y \notin Below(y)
    <3>1. \A z \in S : z < y => z < x
      OBVIOUS
    <3>2. ~(y < y)
      OBVIOUS
    <3> QED
      BY <3>1, <3>2
  <2>2. <<Below(y), Below(x)>> \in StrictSubsetOrdering(S)
    BY <2>1 DEF StrictSubsetOrdering
  <2> QED
    BY <1>2, <1>3, <2>2
<1> QED
  BY <1>4 DEF Min

-----------------------------------------------------------------------------
(* The decodings of the readers.                                           *)

(* The bytes of a number are bytes, and a number of two bytes is put       *)
(* together again.                                                         *)
LEMMA BytesOfWord ==
  ASSUME NEW n \in Nat
  PROVE  /\ Hi(n) \in Nat /\ Hi(n) < 256 /\ Lo(n) \in Nat /\ Lo(n) < 256
         /\ Word(Hi(n), Lo(n)) \in Nat
         /\ n < 65536 => Word(Hi(n), Lo(n)) = n
         /\ n < 32768 => Hi(n) < 128
         /\ n < 4096 => Hi(n) < 16
         /\ n < 256 => Lo(n) = n
BY DEF Hi, Lo, Word

(* A bit or a nibble above another number is taken apart again. *)
LEMMA SignBit ==
  ASSUME NEW n \in Nat, n < 128
  PROVE  n % 128 = n /\ (n + 128) % 128 = n
OBVIOUS

LEMMA Nibbles ==
  ASSUME NEW low \in Nat, low < 16, NEW high \in Nat, high < 16
  PROVE  WindHigh(low + 16 * high) = low /\ GustHigh(low + 16 * high) = high
BY DEF WindHigh, GustHigh

(* Two's complement *)
LEMMA SignedWord ==
  ASSUME NEW n \in Int, -32768 <= n, n < 32768
  PROVE  n % 65536 \in Nat /\ n % 65536 < 65536 /\ Signed16(n % 65536) = n
BY DEF Signed16

LEMMA MeasuredNumbers ==
  ASSUME NEW t, NEW m, Measurable(t, m)
  PROVE  m.temp \in Int /\ \A q \in Quantity \ {"temp"} : m[q] \in Nat
BY DEF Measurable, Quantity

(* parseDataset: a decimal of tenths becomes hundredths, below zero, too.  *)
LEMMA KombiDecoded ==
  ASSUME NEW t \in {"kombi", "normal"}, NEW m, Measurable(t, m)
  PROVE  /\ Decode(t, m) \in [Quantity -> Int]
         /\ m.temp # Lost => Decode(t, m).temp = m.temp * 10
         /\ Decode(t, m).temp \in Int
         /\ Decode(t, m).humid = IF m.humid = Lost THEN 0 ELSE m.humid * 100
         /\ t = "kombi" => Decode(t, m).wind = IF m.wind = Lost THEN 0 ELSE m.wind * 10
<1>1. m.temp \in Int /\ m.humid \in Nat /\ m.wind \in Nat /\ m.rain \in Nat
  BY DEF Measurable, Quantity
<1>2. ASSUME NEW n \in Int PROVE WithoutComma(Part(n)) = IF n = Lost THEN 0 ELSE n
  <2>1. CASE n = Lost
    BY <2>1 DEF WithoutComma, Part
  <2>2. CASE n # Lost
    <3> DEFINE size == IF n < 0 THEN -n ELSE n
               p == Part(n)
    <3>1. p = <<n < 0, size \div 10, size % 10>>
      BY <2>2 DEF Part
    <3>2. p # <<>> /\ p[1] = (n < 0) /\ p[2] = size \div 10 /\ p[3] = size % 10
      BY <3>1
    <3>3. size \in Nat /\ (size \div 10) * 10 + (size % 10) = size
      <4>1. size \in Nat
        OBVIOUS
      <4>2. ASSUME NEW k \in Nat PROVE (k \div 10) * 10 + (k % 10) = k
        OBVIOUS
      <4> QED
        BY <4>1, <4>2
    <3>4. (IF p[1] THEN -1 ELSE 1) = IF n < 0 THEN -1 ELSE 1
      BY <3>2
    <3>5. WithoutComma(p) = (IF p[1] THEN -1 ELSE 1) * (p[2] * 10 + p[3])
      BY <3>2 DEF WithoutComma
    <3>6. WithoutComma(p) = (IF n < 0 THEN -1 ELSE 1) * size
      BY <3>2, <3>3, <3>4, <3>5
    <3>7. WithoutComma(p) = n
      BY <3>6
    <3> QED
      BY <2>2, <3>7
  <2> QED
    BY <2>1, <2>2
<1>3. Decode(t, m) = ParseDataset(t, m)
  BY DEF Decode
<1>4. /\ WithoutComma(Part(m.temp)) = IF m.temp = Lost THEN 0 ELSE m.temp
      /\ WithoutComma(Part(m.wind)) = IF m.wind = Lost THEN 0 ELSE m.wind
      /\ Whole(m.humid) \in Nat /\ Whole(m.rain) \in Nat
      /\ Whole(m.humid) = IF m.humid = Lost THEN 0 ELSE m.humid
  BY <1>1, <1>2 DEF Whole
<1> DEFINE d == ParseDataset(t, m)
<1>5. d \in [Quantity -> Int]
  <2> DEFINE temp  == WithoutComma(Part(m.temp)) * 10
             humid == Whole(m.humid) * 100
             wind  == WithoutComma(Part(m.wind)) * 10
             rain  == Whole(m.rain)
  <2>1. temp \in Int /\ humid \in Int /\ wind \in Int /\ rain \in Int
    BY <1>1, <1>4 DEF Lost
  <2>2. d = IF t = "kombi"
              THEN [Zeros EXCEPT !.temp = temp, !.humid = humid, !.wind = wind, !.rain = rain]
              ELSE [Zeros EXCEPT !.temp = temp, !.humid = humid]
    BY DEF ParseDataset
  <2>3. Zeros \in [Quantity -> Int] /\ {"temp", "humid", "wind", "rain"} \subseteq Quantity
    BY DEF Zeros, Quantity
  <2> HIDE DEF temp, humid, wind, rain, d
  <2> QED
    BY <2>1, <2>2, <2>3
<1>6. /\ d.temp = WithoutComma(Part(m.temp)) * 10
      /\ d.humid = Whole(m.humid) * 100
      /\ t = "kombi" => d.wind = WithoutComma(Part(m.wind)) * 10
  BY DEF ParseDataset, Zeros, Quantity
<1> QED
  BY <1>1, <1>3, <1>4, <1>5, <1>6 DEF Quantity

(* FreeTecDataReader::read: the sign bit of the temperature, the nibbles   *)
(* of wind and gust in the byte they share.                                *)
LEMMA FreeTecDecoded ==
  ASSUME NEW m, Measurable("freetec", m)
  PROVE  /\ Decode("freetec", m) \in [Quantity -> Int]
         /\ Decode("freetec", m).temp = m.temp * 10
         /\ m.humid # Lost => Decode("freetec", m).humid = m.humid * 100
         /\ Decode("freetec", m).humid \in Nat /\ Decode("freetec", m).humid <= 25500
         /\ Decode("freetec", m).pressure = m.pressure * 10
         /\ \A q \in {"wind", "gust"} :
              /\ m[q] # Lost => Decode("freetec", m)[q] = m[q] * 38
              /\ m[q] = Lost => Decode("freetec", m)[q] = 4095 * 38
         /\ m.dir < 16 => Decode("freetec", m).dir = (m.dir * 45) \div 2
         /\ Decode("freetec", m).dir \in Nat
<1> DEFINE size  == IF m.temp < 0 THEN -m.temp ELSE m.temp
           wind  == IF m.wind = Lost THEN 4095 ELSE m.wind
           gust  == IF m.gust = Lost THEN 4095 ELSE m.gust
           b == FreeTecBlock(m)
           d == FreeTecDataset(b)
<1>1. /\ m.temp \in Int /\ -32767 <= m.temp /\ m.temp <= 32767
      /\ m.humid \in Nat /\ (m.humid # Lost => m.humid < 256)
      /\ m.wind \in Nat /\ (m.wind # Lost => m.wind < 4096)
      /\ m.gust \in Nat /\ (m.gust # Lost => m.gust < 4096)
      /\ m.pressure \in Nat /\ m.pressure < 65536 /\ m.dir \in Nat /\ m.rain \in Nat
  <2>1. m.temp \in Int /\ \A q \in Quantity \ {"temp"} : m[q] \in Nat
    BY MeasuredNumbers
  <2>2. /\ -Lost <= m.temp /\ m.temp <= Lost
        /\ \A q \in {"wind", "gust"} : m[q] < 4096 \/ m[q] = Lost
        /\ m.humid < 256 \/ m.humid = Lost
        /\ m.pressure < 65536
    BY DEF Measurable
  <2>3. /\ m.humid \in Nat /\ m.wind \in Nat /\ m.gust \in Nat
        /\ m.pressure \in Nat /\ m.dir \in Nat /\ m.rain \in Nat
    BY <2>1 DEF Quantity
  <2>4. -32767 <= m.temp /\ m.temp <= 32767
    BY <2>1, <2>2 DEF Lost
  <2> QED
    BY <2>1, <2>2, <2>3, <2>4
<1>2. size \in Nat /\ size < 32768 /\ wind \in Nat /\ wind < 4096 /\ gust \in Nat /\ gust < 4096
  BY <1>1
<1>3. m.temp = (IF m.temp < 0 THEN -1 ELSE 1) * size
  BY <1>1
<1> HIDE DEF size, wind, gust
<1>4. /\ b[4] = Lo(m.humid) /\ b[5] = Lo(size)
      /\ b[6] = Hi(size) + (IF m.temp < 0 THEN 128 ELSE 0)
      /\ b[7] = Lo(m.pressure) /\ b[8] = Hi(m.pressure)
      /\ b[9] = Lo(wind) /\ b[10] = Lo(gust) /\ b[11] = Hi(wind) + 16 * Hi(gust)
      /\ b[12] = Lo(m.dir) /\ b[13] = Lo(m.rain) /\ b[14] = Hi(m.rain)
  BY DEF FreeTecBlock, size, wind, gust
<1>5. /\ d.temp = (IF b[6] >= 128 THEN -1 ELSE 1) * Word(b[6] % 128, b[5]) * 10
      /\ d.humid = b[4] * 100
      /\ d.pressure = Word(b[8], b[7]) * 10
      /\ d.wind = Word(WindHigh(b[11]), b[9]) * 38
      /\ d.gust = Word(GustHigh(b[11]), b[10]) * 38
      /\ d.dir = (b[12] * 45) \div 2
      /\ d.rain = Word(b[14], b[13])
      /\ d.sun = 0
      /\ d = [q \in Quantity |-> d[q]]
  <2> HIDE DEF b
  <2> QED
    BY DEF FreeTecDataset, Quantity
<1>6. Decode("freetec", m) = d
  BY DEF Decode
<1> HIDE DEF b, d
<1>7. d.temp = m.temp * 10
  <2>1. Hi(size) \in Nat /\ Hi(size) < 128 /\ Word(Hi(size), Lo(size)) = size
    BY <1>2, BytesOfWord
  <2>2. Hi(size) % 128 = Hi(size) /\ (Hi(size) + 128) % 128 = Hi(size)
    BY <2>1, SignBit
  <2>3. b[6] = IF m.temp < 0 THEN Hi(size) + 128 ELSE Hi(size)
    BY <1>4, <2>1
  <2>4. b[6] % 128 = Hi(size) /\ (b[6] >= 128 <=> m.temp < 0)
    <3> HIDE DEF size
    <3> QED
      BY <2>1, <2>2, <2>3
  <2>5. Word(b[6] % 128, b[5]) = size
    BY <1>4, <2>1, <2>4
  <2> QED
    BY <1>1, <1>2, <1>3, <1>5, <2>4, <2>5
<1>8. /\ d.humid \in Nat /\ d.humid <= 25500
      /\ m.humid # Lost => d.humid = m.humid * 100
  BY <1>1, <1>4, <1>5, BytesOfWord
<1>9. d.pressure = m.pressure * 10
  BY <1>1, <1>4, <1>5, BytesOfWord
<1>10. d.wind = wind * 38 /\ d.gust = gust * 38
  <2>1. /\ Hi(wind) \in Nat /\ Hi(wind) < 16 /\ Word(Hi(wind), Lo(wind)) = wind
        /\ Hi(gust) \in Nat /\ Hi(gust) < 16 /\ Word(Hi(gust), Lo(gust)) = gust
    BY <1>2, BytesOfWord
  <2>2. WindHigh(b[11]) = Hi(wind) /\ GustHigh(b[11]) = Hi(gust)
    BY <1>4, <2>1, Nibbles
  <2> QED
    BY <1>4, <1>5, <2>1, <2>2
<1>11. d.dir \in Nat /\ (m.dir < 16 => d.dir = (m.dir * 45) \div 2)
  <2>1. Lo(m.dir) \in Nat /\ (m.dir < 16 => Lo(m.dir) = m.dir)
    BY <1>1, BytesOfWord
  <2> QED
    BY <1>4, <1>5, <2>1
<1>12. d.rain \in Nat /\ d.sun = 0
  BY <1>1, <1>4, <1>5, BytesOfWord
<1>13. d \in [Quantity -> Int]
  <2>1. /\ d.temp \in Int /\ d.humid \in Int /\ d.pressure \in Int /\ d.wind \in Int
        /\ d.gust \in Int /\ d.dir \in Int /\ d.rain \in Int /\ d.sun \in Int
    BY <1>1, <1>2, <1>7, <1>8, <1>9, <1>10, <1>11, <1>12
  <2>2. \A q \in Quantity : d[q] \in Int
    BY <2>1 DEF Quantity
  <2> QED
    BY <1>5, <2>2
<1>14. \A q \in {"wind", "gust"} :
         d[q] = IF m[q] = Lost THEN 4095 * 38 ELSE m[q] * 38
  BY <1>10 DEF wind, gust
<1> QED
  BY <1>6, <1>7, <1>8, <1>9, <1>11, <1>13, <1>14

(* Ws980DataReader::read: the temperature in two's complement, what is     *)
(* missing as 0, and the light from Lux (within half of 1 W/m^2).          *)
LEMMA Ws980Decoded ==
  ASSUME NEW m, Measurable("ws980", m)
  PROVE  /\ Decode("ws980", m) \in [Quantity -> Int]
         /\ m.temp # Lost => Decode("ws980", m).temp = m.temp * 10
         /\ Decode("ws980", m).humid = IF m.humid = Lost THEN 0 ELSE m.humid * 100
         /\ Decode("ws980", m).pressure = IF m.pressure = Lost THEN 0 ELSE m.pressure * 10
         /\ Decode("ws980", m).dir = IF m.dir = Lost THEN 0 ELSE m.dir
         /\ \A q \in {"wind", "gust"} :
              Decode("ws980", m)[q] = IF m[q] = Lost THEN 0 ELSE m[q] * 36
         /\ Decode("ws980", m).sun = (20 * m.sun + 1267) \div 2534
<1> DEFINE Or(n, missing) == IF n = Lost THEN missing ELSE n
           temp == m.temp % 65536
           high == m.sun \div 65536
           b == Ws980Response(m)
           d == Ws980Dataset(b)
           At(i) == Word(b[i], b[i + 1])
<1>1. /\ m.temp \in Int /\ -32768 <= m.temp /\ m.temp <= Lost
      /\ m.humid \in Nat /\ (m.humid # Lost => m.humid < 255)
      /\ m.wind \in Nat /\ m.wind < 65535 /\ m.gust \in Nat /\ m.gust < 65535
      /\ m.pressure \in Nat /\ m.pressure < 65536 /\ m.pressure # 4095
      /\ m.dir \in Nat /\ (m.dir # Lost => m.dir < 360)
      /\ m.sun \in Nat /\ high < 65536 /\ m.rain \in Nat
  <2>1. m.temp \in Int /\ \A q \in Quantity \ {"temp"} : m[q] \in Nat
    BY MeasuredNumbers
  <2> QED
    BY <2>1 DEF Measurable, Quantity
<1>2. /\ b[10] = Hi(temp) /\ b[11] = Lo(temp) /\ b[24] = Or(m.humid, 255)
      /\ b[29] = Hi(Or(m.pressure, 4095)) /\ b[30] = Lo(Or(m.pressure, 4095))
      /\ b[32] = Hi(Or(m.dir, 4095)) /\ b[33] = Lo(Or(m.dir, 4095))
      /\ b[35] = Hi(Or(m.wind, 65535)) /\ b[36] = Lo(Or(m.wind, 65535))
      /\ b[38] = Hi(Or(m.gust, 65535)) /\ b[39] = Lo(Or(m.gust, 65535))
      /\ b[66] = Hi(0) /\ b[67] = Lo(0) /\ b[68] = Hi(m.rain) /\ b[69] = Lo(m.rain)
      /\ b[71] = Hi(high) /\ b[72] = Lo(high) /\ b[73] = Hi(m.sun) /\ b[74] = Lo(m.sun)
  BY DEF Ws980Response
<1>3. LET Unless(n, missing, value) == IF n = missing THEN 0 ELSE value
      IN  /\ d.temp     = Unless(Signed16(At(10)), 32767, Signed16(At(10)) * 10)
          /\ d.humid    = Unless(b[24], 255, b[24] * 100)
          /\ d.pressure = Unless(At(29), 4095, At(29) * 10)
          /\ d.dir      = Unless(At(32), 4095, At(32))
          /\ d.wind     = Unless(At(35), 65535, At(35) * 36)
          /\ d.gust     = Unless(At(38), 65535, At(38) * 36)
          /\ d.rain     = At(66) * 65536 + At(68)
          /\ d.sun      = (20 * (At(71) * 65536 + At(73)) + 1267) \div 2534
          /\ d = [q \in Quantity |-> d[q]]
  <2> HIDE DEF b
  <2> QED
    BY DEF Ws980Dataset, Quantity
<1>4. Decode("ws980", m) = d
  BY DEF Decode
<1> HIDE DEF b, d, temp, high
<1>5. temp \in Nat /\ temp < 65536 /\ Signed16(temp) = m.temp
  BY <1>1, SignedWord DEF temp, Lost
<1>6. high \in Nat
  BY <1>1 DEF high
<1>7. Or(m.pressure, 4095) \in Nat /\ Or(m.pressure, 4095) < 65536
      /\ Or(m.dir, 4095) \in Nat /\ Or(m.dir, 4095) < 65536
      /\ Or(m.wind, 65535) \in Nat /\ Or(m.wind, 65535) < 65536
      /\ Or(m.gust, 65535) \in Nat /\ Or(m.gust, 65535) < 65536
  BY <1>1
<1>8. /\ At(10) = temp /\ At(29) = Or(m.pressure, 4095) /\ At(32) = Or(m.dir, 4095)
      /\ At(35) = Or(m.wind, 65535) /\ At(38) = Or(m.gust, 65535) /\ At(71) = high
      /\ At(66) \in Nat /\ At(68) \in Nat
  <2> HIDE DEF Or
  <2> QED
    BY <1>1, <1>2, <1>5, <1>6, <1>7, BytesOfWord
<1>9. At(71) * 65536 + At(73) = m.sun
  <2>1. At(73) = m.sun % 65536
    BY <1>1, <1>2 DEF Hi, Lo, Word
  <2> QED
    BY <1>1, <1>8, <2>1 DEF high
<1>10. d.temp \in Int /\ (m.temp # Lost => d.temp = m.temp * 10)
  BY <1>1, <1>3, <1>5, <1>8 DEF Lost
<1>11. d.humid = IF m.humid = Lost THEN 0 ELSE m.humid * 100
  BY <1>1, <1>2, <1>3
<1>12. /\ d.pressure = IF m.pressure = Lost THEN 0 ELSE m.pressure * 10
       /\ d.dir = IF m.dir = Lost THEN 0 ELSE m.dir
  BY <1>1, <1>3, <1>8
<1>13. /\ d.wind = IF m.wind = Lost THEN 0 ELSE m.wind * 36
       /\ d.gust = IF m.gust = Lost THEN 0 ELSE m.gust * 36
  BY <1>1, <1>3, <1>8
<1>14. d.sun = (20 * m.sun + 1267) \div 2534
  BY <1>3, <1>9
<1>15. d \in [Quantity -> Int]
  <2>1. /\ d.temp \in Int /\ d.humid \in Int /\ d.pressure \in Int /\ d.wind \in Int
        /\ d.gust \in Int /\ d.dir \in Int /\ d.rain \in Int /\ d.sun \in Int
    BY <1>1, <1>3, <1>8, <1>10, <1>11, <1>12, <1>13, <1>14
  <2>2. \A q \in Quantity : d[q] \in Int
    BY <2>1 DEF Quantity
  <2> QED
    BY <1>3, <2>2
<1> QED
  BY <1>4, <1>10, <1>11, <1>12, <1>13, <1>14, <1>15

(* Every reader makes integers of what it reads, and of all but the        *)
(* temperature numbers that are not negative.                              *)
LEMMA Decoded ==
  ASSUME NEW t \in SensorType, NEW m, Measurable(t, m)
  PROVE  /\ Decode(t, m) \in [Quantity -> Int]
         /\ \A q \in {"humid", "wind", "gust", "dir", "sun", "pressure"} :
              Has(t, q) => Decode(t, m)[q] \in Nat
<1>0. \A q \in Quantity \ {"temp"} : m[q] \in Nat
  BY MeasuredNumbers
<1>1. CASE t \in {"kombi", "normal"}
  <2>1. Decode(t, m) \in [Quantity -> Int]
    BY <1>1, KombiDecoded
  <2>2. Decode(t, m).humid \in Nat
    BY <1>0, <1>1, KombiDecoded DEF Quantity
  <2>3. t = "kombi" => Decode(t, m).wind \in Nat
    BY <1>0, <1>1, KombiDecoded DEF Quantity
  <2>4. ~Has(t, "gust") /\ ~Has(t, "dir") /\ ~Has(t, "sun") /\ ~Has(t, "pressure")
    BY <1>1 DEF Has, Sensors
  <2>5. t = "normal" => ~Has(t, "wind")
    BY DEF Has, Sensors
  <2> QED
    BY <1>1, <2>1, <2>2, <2>3, <2>4, <2>5
<1>2. CASE t = "freetec"
  <2>1. m.wind * 38 \in Nat /\ m.gust * 38 \in Nat /\ m.pressure * 10 \in Nat
    BY <1>0 DEF Quantity
  <2>2. ~Has(t, "sun")
    BY <1>2 DEF Has, Sensors
  <2> QED
    BY <1>2, <2>1, <2>2, FreeTecDecoded
<1>3. CASE t = "ws980"
  <2>1. /\ m.humid \in Nat /\ m.pressure \in Nat /\ m.dir \in Nat
        /\ m.wind \in Nat /\ m.gust \in Nat /\ m.sun \in Nat
    BY <1>0 DEF Quantity
  <2>2. (20 * m.sun + 1267) \div 2534 \in Nat
    BY <2>1
  <2> QED
    BY <1>3, <2>1, <2>2, Ws980Decoded
<1>4. CASE t \in {"pool", "kombi_no_rain"}
  <2>1. Decode(t, m) = Zeros
    BY <1>4 DEF Decode, ParseDataset
  <2> QED
    BY <2>1 DEF Zeros, Quantity
<1> QED
  BY <1>1, <1>2, <1>3, <1>4 DEF SensorType

-----------------------------------------------------------------------------
(* Types, and what the rows are made of.                                   *)

(* A dataset that passed the check of its temperature *)
Sound(m) == m \in Samples[type] /\ ~Corrupt(Decode(type, m))

(* A row is the dataset that was decoded from what was measured for it, and*)
(* the daemon is at work on a dataset that is sound.                       *)
RowsDecoded ==
  /\ \A t \in DOMAIN table : Sound(measured[t]) /\ table[t] = Row(Decode(type, measured[t]))
  /\ pc # "read" => Sound(reading)
  /\ pc \in {"dayStats", "current", "reports"} => ts \in DOMAIN table

DataInv == WeatherTypeOK /\ RowsDecoded

LEMMA RainFactor == ASSUME NEW t PROVE RainGaugeFactor(t) \in Nat \ {0}
BY DEF RainGaugeFactor

(* A column of the row of a sound dataset holds one number if the station  *)
(* measures the quantity, and none otherwise.                              *)
LEMMA RowColumns ==
  ASSUME type \in SensorType, NEW m, Measurable(type, m), NEW q \in Quantity
  PROVE  LET c == Row(Decode(type, m))[q]
         IN  /\ ~Has(type, q) => c = {}
             /\ Has(type, q) /\ q # "rain" => c = {Decode(type, m)[q]}
             /\ Has(type, q) /\ q = "rain" => c = {RainGaugeFactor(type)}
             /\ \A v \in c : v \in Int /\ (q # "temp" => v >= 0)
<1>1. Decode(type, m)[q] \in Int
  BY Decoded
<1>2. Has(type, q) /\ q \notin {"temp", "rain"} => Decode(type, m)[q] \in Nat
  BY Decoded DEF Quantity
<1> QED
  BY <1>1, <1>2, RainFactor DEF Row

LEMMA SoundIsMeasurable ==
  ASSUME type \in Types, NEW m, Sound(m)
  PROVE  Measurable(type, m) /\ type \in SensorType
BY CurrentWeatherAssumption, SamplesAssumption
   DEF CurrentWeatherAssumption, SamplesAssumption, Sound

(* The clause of the types that is about the rows follows from what they   *)
(* are made of.                                                            *)
ColumnsOK ==
  \A t \in DOMAIN table : \A q \in Quantity :
    /\ (table[t][q] # {}) <=> Has(type, q)
    /\ \A v \in table[t][q] : q # "temp" => v >= 0

LEMMA ColumnsOfRows == type \in Types /\ RowsDecoded => ColumnsOK
<1> SUFFICES ASSUME type \in Types, RowsDecoded, NEW t \in DOMAIN table, NEW q \in Quantity
             PROVE  /\ (table[t][q] # {}) <=> Has(type, q)
                    /\ \A v \in table[t][q] : q # "temp" => v >= 0
  BY DEF ColumnsOK
<1>1. Sound(measured[t]) /\ table[t] = Row(Decode(type, measured[t]))
  BY DEF RowsDecoded
<1>2. Measurable(type, measured[t]) /\ type \in SensorType
  BY <1>1, SoundIsMeasurable
<1> QED
  BY <1>1, <1>2, RowColumns

(* ORDER BY timestamp DESC LIMIT 1 gets a row, and no row is later. *)
LEMMA LatestRow ==
  ASSUME DOMAIN table \subseteq Time, DOMAIN table # {}
  PROVE  LatestStamp \in DOMAIN table /\ \A t \in DOMAIN table : t <= LatestStamp
<1>1. DOMAIN table \in SUBSET Int /\ MaxTime \in Nat
  BY CurrentWeatherAssumption DEF CurrentWeatherAssumption, Time
<1>2. IsFiniteSet(DOMAIN table)
  <2>1. IsFiniteSet(Time)
    BY <1>1, FS_Interval DEF Time
  <2> QED
    BY <2>1, FS_Subset
<1> QED
  BY <1>1, <1>2, MaxOfFiniteSet DEF LatestStamp

LEMMA DataStep == DataInv /\ [WeatherNext]_vars => DataInv'
<1> SUFFICES ASSUME DataInv, [WeatherNext]_vars PROVE DataInv'
  OBVIOUS
<1> USE DEF DataInv
<1>1. UNCHANGED type
  BY DEF WeatherNext, Present, Tick, SetBack, Read, Insert, InsertRejected, UpdateDay, Upload,
     EndIteration, StatementFails, SelectRow, SelectStats, vars
<1>2. \A m : Sound(m)' <=> Sound(m)
  BY <1>1 DEF Sound
<1>3. \A d : Row(d)' = Row(d)
  BY <1>1 DEF Row
<1>4. RowsDecoded'
  <2>1. CASE Insert
    <3>1. /\ pc = "insert" /\ pc' = "dayStats" /\ ts \notin DOMAIN table
          /\ table' = With(table, ts, Row(Decode(type, reading)))
          /\ measured' = With(measured, ts, reading)
          /\ UNCHANGED <<ts, reading>>
      BY <2>1 DEF Insert
    <3>2. DOMAIN measured = DOMAIN table
      BY DEF WeatherTypeOK
    <3>3. /\ DOMAIN table' = DOMAIN table \union {ts}
          /\ table'[ts] = Row(Decode(type, reading)) /\ measured'[ts] = reading
          /\ \A t \in DOMAIN table : table'[t] = table[t] /\ measured'[t] = measured[t]
      BY <3>1, <3>2 DEF With
    <3> QED
      BY <1>1, <1>2, <1>3, <3>1, <3>3 DEF RowsDecoded
  <2>2. CASE Read
    BY <1>1, <1>2, <1>3, <2>2 DEF Read, RowsDecoded, Sound
  <2>3. CASE UpdateDay \/ Upload
    BY <1>1, <1>2, <1>3, <2>3 DEF UpdateDay, Upload, RowsDecoded
  <2>4. CASE InsertRejected \/ EndIteration \/ StatementFails
    BY <1>1, <1>2, <1>3, <2>4 DEF InsertRejected, EndIteration, StatementFails, BackToRead, RowsDecoded
  <2>5. CASE UNCHANGED daemonVars
    BY <1>1, <1>2, <1>3, <2>5 DEF daemonVars, RowsDecoded
  <2> QED
    BY <2>1, <2>2, <2>3, <2>4, <2>5 DEF WeatherNext, Present, Tick, SetBack, SelectRow, SelectStats, vars
<1>5. ColumnsOK'
  <2>1. (type \in Types)'
    BY <1>1 DEF WeatherTypeOK
  <2> QED
    BY <1>4, <2>1, ColumnsOfRows, PTL
<1>6. WeatherTypeOK'
  <2>0. /\ MaxTime \in Nat /\ MaxBack \in Nat /\ MaxFaults \in Nat /\ 0 \in Time
        /\ wall \in Nat /\ wall <= MaxTime /\ backs \in Nat /\ backs <= MaxBack
        /\ faults \in Nat /\ faults <= MaxFaults
    BY CurrentWeatherAssumption DEF CurrentWeatherAssumption, WeatherTypeOK, Time
  <2> DEFINE Days == { DayOf(t) : t \in DOMAIN table }
  <2>1. CASE Insert
    <3>1. /\ DOMAIN table' = DOMAIN table \union {ts} /\ DOMAIN measured' = DOMAIN table'
          /\ UNCHANGED <<ts, stats, wall, backs, faults, row, torn>> /\ pc' = "dayStats"
      BY <2>1 DEF Insert, With, WeatherTypeOK, clockVars, queryVars
    <3> QED
      BY <1>1, <1>5, <3>1 DEF WeatherTypeOK, ColumnsOK
  <2>2. CASE UpdateDay
    <3>1. /\ DOMAIN stats' = DOMAIN stats \union {DayOf(ts)} /\ pc' = "current"
          /\ UNCHANGED <<table, measured, ts, wall, backs, faults, row, torn>>
      BY <2>2 DEF UpdateDay, With, clockVars, queryVars
    <3>2. ts \in DOMAIN table
      BY <2>2 DEF UpdateDay, RowsDecoded
    <3> QED
      BY <1>1, <1>5, <3>1, <3>2 DEF WeatherTypeOK, ColumnsOK
  <2>3. CASE Tick \/ SetBack
    <3>1. wall' \in Time /\ backs' \in 0 .. MaxBack
      <4>1. CASE Tick
        BY <2>0, <4>1 DEF Tick, Time
      <4>2. CASE SetBack
        <5>1. wall # 0
          BY <4>2, CurrentWeatherAssumption DEF SetBack, CurrentWeatherAssumption
        <5> QED
          BY <2>0, <4>2, <5>1 DEF SetBack, Time
      <4> QED
        BY <2>3, <4>1, <4>2
    <3>2. UNCHANGED <<pc, ts, table, stats, measured, faults, row, torn>>
      BY <2>3 DEF Tick, SetBack, daemonVars, queryVars
    <3> QED
      BY <1>1, <1>5, <3>1, <3>2 DEF WeatherTypeOK, ColumnsOK
  <2>4. CASE Read \/ Upload
    <3>1. /\ ts' \in {ts, wall} /\ pc' \in {"insert", "reports"}
          /\ UNCHANGED <<table, stats, measured, wall, backs, faults, row, torn>>
      BY <2>4 DEF Read, Upload, clockVars, queryVars
    <3> QED
      BY <1>1, <1>5, <3>1 DEF WeatherTypeOK, ColumnsOK
  <2>5. CASE InsertRejected \/ EndIteration \/ StatementFails
    <3>1. /\ ts' = 0 /\ pc' = "read"
          /\ UNCHANGED <<table, stats, measured, wall, backs, row, torn>>
      BY <2>5 DEF InsertRejected, EndIteration, StatementFails, BackToRead, clockVars, queryVars
    <3>2. faults' \in 0 .. MaxFaults
      BY <2>0, <2>5 DEF InsertRejected, EndIteration, StatementFails
    <3> QED
      BY <1>1, <1>5, <2>0, <3>1, <3>2 DEF WeatherTypeOK, ColumnsOK
  <2>6. CASE SelectRow
    <3>1. LatestStamp \in DOMAIN table
      BY <2>6, LatestRow DEF SelectRow, WeatherTypeOK
    <3>2. row' = LatestStamp /\ UNCHANGED <<clockVars, daemonVars, torn>>
      BY <2>6 DEF SelectRow
    <3> QED
      BY <1>1, <1>5, <3>1, <3>2 DEF WeatherTypeOK, ColumnsOK, clockVars, daemonVars
  <2>7. CASE SelectStats \/ Present \/ UNCHANGED vars
    <3>1. /\ torn' \in BOOLEAN /\ row' \in {row, None} /\ UNCHANGED <<clockVars, daemonVars>>
      BY <2>7 DEF SelectStats, Present, vars, queryVars, WeatherTypeOK
    <3> QED
      BY <1>1, <1>5, <3>1 DEF WeatherTypeOK, ColumnsOK, clockVars, daemonVars
  <2> QED
    BY <2>1, <2>2, <2>3, <2>4, <2>5, <2>6, <2>7 DEF WeatherNext
<1> QED
  BY <1>4, <1>6

LEMMA DataInit == WeatherInit => DataInv
<1>1. DOMAIN <<>> = {}
  OBVIOUS
<1>2. 0 \in Time /\ 0 \in 0 .. MaxBack /\ 0 \in 0 .. MaxFaults
  BY CurrentWeatherAssumption DEF CurrentWeatherAssumption, Time
<1> QED
  BY <1>1, <1>2 DEF WeatherInit, DataInv, WeatherTypeOK, RowsDecoded

(* The rows, the statistics and the programs are as their types say: a     *)
(* column of a row is NULL exactly when the station does not measure it,   *)
(* and there are statistics of days with rows only (dataset.h:59).         *)
THEOREM WeatherTypeCorrect == WeatherSpec => []WeatherTypeOK
<1>1. DataInv => WeatherTypeOK
  BY DEF DataInv
<1> QED
  BY <1>1, DataInit, DataStep, PTL DEF WeatherSpec

-----------------------------------------------------------------------------
(* What is uploaded fits together.                                         *)

(* No row is further ahead of the clock than it was set back, nor of a day *)
(* after today; and at work on a dataset, no row is so of the dataset.     *)
ClockInv ==
  /\ \A t \in DOMAIN table : t <= wall + backs /\ DayOf(t) <= DayOf(wall)
  /\ pc # "read" =>
       /\ ts <= wall + backs /\ DayOf(ts) <= DayOf(wall)
       /\ \A t \in DOMAIN table : t <= ts + backs /\ DayOf(t) <= DayOf(ts)

(* After its aggregation, the day of the dataset has the statistics of all *)
(* its rows, and they are in what is uploaded.                             *)
DayAggregated ==
  /\ pc \in {"current", "reports"} =>
       DayOf(ts) \in DOMAIN stats /\ stats[DayOf(ts)] = Aggregate(DayOf(ts))
  /\ pc = "reports" => uploaded = Weather(LatestStamp, DayOf(LatestStamp))

UploadInv == DataInv /\ ClockInv /\ DayAggregated

LEMMA DayOfTime ==
  /\ \A t \in Nat : DayOf(t) \in Nat
  /\ \A t, u \in Nat : t <= u => DayOf(t) <= DayOf(u)
  /\ \A t \in Nat : t % DaySlots # 0 => t > 0 /\ DayOf(t - 1) = DayOf(t)
<1>0. DaySlots \in Nat \ {0}
  BY CurrentWeatherAssumption DEF CurrentWeatherAssumption
<1>1. ASSUME NEW t \in Nat PROVE DayOf(t) \in Nat
  BY <1>0 DEF DayOf
<1>2. ASSUME NEW t \in Nat, NEW u \in Nat, t <= u PROVE DayOf(t) <= DayOf(u)
  BY <1>0, <1>2 DEF DayOf
<1>3. ASSUME NEW t \in Nat, t % DaySlots # 0 PROVE t > 0 /\ DayOf(t - 1) = DayOf(t)
  BY <1>0, <1>3 DEF DayOf
<1> QED
  BY <1>1, <1>2, <1>3

LEMMA TimesAreNumbers ==
  ASSUME WeatherTypeOK
  PROVE  /\ wall \in Nat /\ ts \in Nat /\ backs \in Nat
         /\ \A t \in DOMAIN table : t \in Nat
BY CurrentWeatherAssumption DEF CurrentWeatherAssumption, WeatherTypeOK, Time

LEMMA ClockStep == DataInv /\ ClockInv /\ [WeatherNext]_vars => ClockInv'
<1> SUFFICES ASSUME DataInv, ClockInv, [WeatherNext]_vars PROVE ClockInv'
  OBVIOUS
<1>0. /\ WeatherTypeOK /\ wall \in Nat /\ ts \in Nat /\ backs \in Nat
      /\ \A t \in DOMAIN table : t \in Nat
  BY TimesAreNumbers DEF DataInv
<1>1. CASE Tick
  <2>1. wall' = wall + 1 /\ UNCHANGED <<pc, ts, table, backs>>
    BY <1>1 DEF Tick, daemonVars
  <2>2. DayOf(wall) \in Nat /\ DayOf(wall + 1) \in Nat /\ DayOf(wall) <= DayOf(wall + 1)
    BY <1>0, DayOfTime
  <2>3. DayOf(ts) \in Nat /\ \A t \in DOMAIN table : DayOf(t) \in Nat
    BY <1>0, DayOfTime
  <2> QED
    BY <1>0, <2>1, <2>2, <2>3 DEF ClockInv
<1>2. CASE SetBack
  <2>1. wall % DaySlots # 0 /\ wall' = wall - 1 /\ backs' = backs + 1 /\ UNCHANGED <<pc, ts, table>>
    BY <1>2 DEF SetBack, daemonVars
  <2>2. DayOf(wall - 1) = DayOf(wall)
    BY <1>0, <2>1, DayOfTime
  <2> QED
    BY <1>0, <2>1, <2>2 DEF ClockInv
<1>3. CASE Read
  <2>1. ts' = wall /\ UNCHANGED <<wall, backs, table>>
    BY <1>3 DEF Read, clockVars
  <2>2. DayOf(wall) \in Nat
    BY <1>0, DayOfTime
  <2> QED
    BY <1>0, <2>1, <2>2 DEF ClockInv
<1>4. CASE Insert
  <2>1. pc # "read" /\ DOMAIN table' = DOMAIN table \union {ts} /\ UNCHANGED <<wall, backs, ts>>
    BY <1>4 DEF Insert, With, clockVars
  <2>2. DayOf(ts) \in Nat
    BY <1>0, DayOfTime
  <2> QED
    BY <1>0, <2>1, <2>2 DEF ClockInv
<1>5. CASE UpdateDay \/ Upload
  BY <1>5 DEF UpdateDay, Upload, clockVars, ClockInv
<1>6. CASE InsertRejected \/ EndIteration \/ StatementFails
  BY <1>6 DEF InsertRejected, EndIteration, StatementFails, BackToRead, clockVars, ClockInv
<1>7. CASE SelectRow \/ SelectStats \/ Present \/ UNCHANGED vars
  BY <1>7 DEF SelectRow, SelectStats, Present, vars, daemonVars, clockVars, ClockInv
<1> QED
  BY <1>1, <1>2, <1>3, <1>4, <1>5, <1>6, <1>7 DEF WeatherNext

(* Statistics and rows of other days do not matter to what is published. *)
LEMMA AggregatedStep == DataInv /\ DayAggregated /\ [WeatherNext]_vars => DayAggregated'
<1> SUFFICES ASSUME DataInv, DayAggregated, [WeatherNext]_vars PROVE DayAggregated'
  OBVIOUS
<1>1. CASE UpdateDay
  <2>1. /\ pc' = "current" /\ stats' = With(stats, DayOf(ts), Aggregate(DayOf(ts)))
        /\ UNCHANGED <<ts, table>>
    BY <1>1 DEF UpdateDay
  <2>2. Aggregate(DayOf(ts))' = Aggregate(DayOf(ts))
    BY <2>1 DEF Aggregate, RowsOf
  <2>3. DayOf(ts) \in DOMAIN stats' /\ stats'[DayOf(ts)] = Aggregate(DayOf(ts))
    BY <2>1 DEF With
  <2> QED
    BY <2>1, <2>2, <2>3 DEF DayAggregated
<1>2. CASE Upload
  <2>1. /\ pc = "current" /\ uploaded' = Weather(LatestStamp, DayOf(LatestStamp))
        /\ UNCHANGED <<ts, table, stats>>
    BY <1>2 DEF Upload
  <2>2. Aggregate(DayOf(ts))' = Aggregate(DayOf(ts)) /\ LatestStamp' = LatestStamp
    BY <2>1 DEF Aggregate, RowsOf, LatestStamp
  <2>3. Weather(LatestStamp, DayOf(LatestStamp))' = Weather(LatestStamp, DayOf(LatestStamp))
    BY <2>1, <2>2 DEF Weather
  <2> QED
    BY <2>1, <2>2, <2>3 DEF DayAggregated
<1>3. CASE UNCHANGED <<pc, ts, table, stats, uploaded>>
  <2>1. Aggregate(DayOf(ts))' = Aggregate(DayOf(ts)) /\ LatestStamp' = LatestStamp
    BY <1>3 DEF Aggregate, RowsOf, LatestStamp
  <2>2. Weather(LatestStamp, DayOf(LatestStamp))' = Weather(LatestStamp, DayOf(LatestStamp))
    BY <1>3, <2>1 DEF Weather
  <2> QED
    BY <1>3, <2>1, <2>2 DEF DayAggregated
<1>4. CASE pc' \in {"read", "insert", "dayStats"}
  BY <1>4 DEF DayAggregated
<1> QED
  BY <1>1, <1>2, <1>3, <1>4
     DEF WeatherNext, Present, Tick, SetBack, Read, Insert, InsertRejected, EndIteration,
         StatementFails, BackToRead, SelectRow, SelectStats, vars, daemonVars

LEMMA ValueOfSingleton == ASSUME NEW v PROVE Value({v}) = v
BY DEF Value

(* queryCurrentWeather: the columns of the row and, if there are any, the  *)
(* statistics of the day.                                                  *)
LEMMA WeatherColumns ==
  ASSUME NEW t, NEW d
  PROVE  LET w == Weather(t, d)
         IN  /\ w.stamp = t /\ w.temp = Value(table[t].temp)
             /\ \A q \in Quantity \ {"temp", "rain"} : w.column[q] = table[t][q]
             /\ d \in DOMAIN stats =>
                  /\ w.min = Value(stats[d].min) /\ w.max = Value(stats[d].max)
                  /\ w.maxWind = Value(stats[d].wind) /\ w.maxGust = Value(stats[d].gust)
                  /\ w.column.rain = stats[d].rain
             /\ d \notin DOMAIN stats =>
                  /\ w.min = w.temp /\ w.max = w.temp
                  /\ w.maxWind = Value(table[t].wind) /\ w.column.rain = {}
<1> DEFINE r == table[t]
           C == [q \in Quantity \ {"temp"} |-> IF q = "rain" THEN {} ELSE r[q]]
           w == [NoWeather EXCEPT !.stamp = t, !.temp = Value(r.temp), !.column = C]
<1>1. w.stamp = t /\ w.temp = Value(r.temp) /\ w.column = C
  BY DEF NoWeather
<1>2. CASE d \in DOMAIN stats
  <2>1. Weather(t, d) = [w EXCEPT !.min = Value(stats[d].min), !.max = Value(stats[d].max),
                                  !.maxWind = Value(stats[d].wind), !.maxGust = Value(stats[d].gust),
                                  !.column.rain = stats[d].rain]
    BY <1>2 DEF Weather
  <2> DEFINE s == stats[d]
  <2>2. DOMAIN w = {"stamp", "temp", "min", "max", "maxWind", "maxGust", "column"}
    <3> HIDE DEF C
    <3> QED
      BY DEF NoWeather
  <2>3. "rain" \in DOMAIN C /\ DOMAIN C = Quantity \ {"temp"}
        /\ \A q \in Quantity \ {"temp", "rain"} : C[q] = r[q]
    BY DEF Quantity
  <2> HIDE DEF w, C, s
  <2>4. /\ Weather(t, d).stamp = t /\ Weather(t, d).temp = Value(r.temp)
        /\ Weather(t, d).min = Value(s.min) /\ Weather(t, d).max = Value(s.max)
        /\ Weather(t, d).maxWind = Value(s.wind) /\ Weather(t, d).maxGust = Value(s.gust)
        /\ Weather(t, d).column = [C EXCEPT !["rain"] = s.rain]
    BY <1>1, <2>1, <2>2 DEF s
  <2>5. /\ [C EXCEPT !["rain"] = s.rain]["rain"] = s.rain
        /\ \A q \in Quantity \ {"temp", "rain"} : [C EXCEPT !["rain"] = s.rain][q] = r[q]
    BY <2>3
  <2> QED
    BY <1>2, <2>4, <2>5 DEF s
<1>3. CASE d \notin DOMAIN stats
  <2>1. Weather(t, d) = [w EXCEPT !.min = w.temp, !.max = w.temp,
                                  !.maxWind = Value(r.wind), !.maxGust = Value(r.gust)]
    BY <1>3 DEF Weather
  <2> QED
    BY <1>1, <1>3, <2>1 DEF NoWeather, Quantity
<1> QED
  BY <1>2, <1>3

(* What is uploaded has the statistics of all the rows of the day of its   *)
(* row, and the row is the dataset at hand or, if the clock was set back,  *)
(* one of the same day that is not further ahead than that                 *)
(* (veterod.cc:383-388, dbaccess.cc:352-394).                              *)
THEOREM UploadCoherentHolds == WeatherSpec => []UploadCoherent
<1>1. WeatherInit => UploadInv
  BY DataInit DEF WeatherInit, UploadInv, ClockInv, DayAggregated
<1>2. UploadInv /\ [WeatherNext]_vars => UploadInv'
  BY DataStep, ClockStep, AggregatedStep DEF UploadInv
<1>3. UploadInv => UploadCoherent
  <2> SUFFICES ASSUME UploadInv, pc = "reports" PROVE UploadCoherent
    BY DEF UploadCoherent
  <2> DEFINE L == LatestStamp
             d == DayOf(L)
  <2>0. /\ WeatherTypeOK /\ ts \in Nat /\ backs \in Nat /\ ts \in DOMAIN table
        /\ \A t \in DOMAIN table : t \in Nat /\ t <= ts + backs /\ DayOf(t) <= DayOf(ts)
    BY TimesAreNumbers DEF UploadInv, DataInv, RowsDecoded, ClockInv
  <2>1. L \in DOMAIN table /\ ts <= L
    BY <2>0, LatestRow DEF WeatherTypeOK
  <2>2. d = DayOf(ts)
    BY <2>0, <2>1, DayOfTime
  <2>3. /\ uploaded = Weather(L, d)
        /\ d \in DOMAIN stats /\ stats[d] = Aggregate(d)
    BY <2>2 DEF UploadInv, DayAggregated
  <2>4. /\ uploaded.stamp = L
        /\ uploaded.min = Value(stats[d].min) /\ uploaded.max = Value(stats[d].max)
        /\ uploaded.maxWind = Value(stats[d].wind) /\ uploaded.maxGust = Value(stats[d].gust)
        /\ uploaded.column.rain = stats[d].rain
    BY <2>3, WeatherColumns
  <2>5. uploaded.stamp - ts \in 0 .. backs
    BY <2>0, <2>1, <2>4
  <2>6. \E v : v \in table[L].temp
    <3>1. Has(type, "temp")
      BY CurrentWeatherAssumption
         DEF CurrentWeatherAssumption, UploadInv, DataInv, WeatherTypeOK, Has, Sensors
    <3> QED
      BY <2>0, <2>1, <3>1 DEF WeatherTypeOK, Quantity
  <2>7. UNION { table[t].temp : t \in RowsOf(d) } # {}
    BY <2>1, <2>6 DEF RowsOf
  <2>8. PICK x, y : Aggregate(d).min = {x} /\ Aggregate(d).max = {y}
    BY <2>7 DEF Aggregate
  <2>9. Aggregate(d).min = {uploaded.min} /\ Aggregate(d).max = {uploaded.max}
    <3>1. uploaded.min = Value({x}) /\ uploaded.max = Value({y})
      BY <2>3, <2>4, <2>8
    <3>2. Value({x}) = x /\ Value({y}) = y
      BY ValueOfSingleton
    <3> QED
      BY <2>8, <3>1, <3>2
  <2> QED
    BY <2>3, <2>4, <2>5, <2>9 DEF UploadCoherent
<1> QED
  BY <1>1, <1>2, <1>3, PTL DEF WeatherSpec

-----------------------------------------------------------------------------
(* What another program gets fits together.                                *)

(* A CurrentWeather is a new one or has the columns of its row. *)
CopyOfRow(w) ==
  \/ w = NoWeather
  \/ /\ w.stamp \in DOMAIN table
     /\ w.temp = Value(table[w.stamp].temp)
     /\ \A q \in Quantity \ {"temp", "rain"} : w.column[q] = table[w.stamp][q]

(* The statistics of the day of a row count it. *)
Covered(t) ==
  /\ DayOf(t) \in DOMAIN stats
  /\ LET s == stats[DayOf(t)] IN
       /\ Value(s.min) <= Value(table[t].temp) /\ Value(table[t].temp) <= Value(s.max)
       /\ \A v \in table[t].wind : v <= Value(s.wind)
       /\ \A v \in table[t].gust : v <= Value(s.gust)
       /\ Has(type, "rain") => \E v \in s.rain : v >= RainGaugeFactor(type)

(* Without a failure, all rows are counted but the one that the daemon has *)
(* inserted and not yet aggregated.                                        *)
RowsCovered ==
  faults = 0 => \A t \in DOMAIN table : ~(pc = "dayStats" /\ t = ts) => Covered(t)

PublishInv ==
  /\ DataInv
  /\ CopyOfRow(shown) /\ CopyOfRow(uploaded)
  /\ row # None => row \in DOMAIN table

ShownInv == PublishInv /\ RowsCovered /\ ShownCoherent

(* The values of a column in the rows of a day *)
ValuesOf(q, d) == UNION { table[t][q] : t \in RowsOf(d) }

LEMMA ValuesAreFinite ==
  ASSUME DataInv, NEW q \in Quantity, NEW d
  PROVE  /\ IsFiniteSet(RowsOf(d))
         /\ ValuesOf(q, d) \in SUBSET Int /\ IsFiniteSet(ValuesOf(q, d))
<1> DEFINE S == RowsOf(d)
           U == ValuesOf(q, d)
           f == [t \in S |-> Value(table[t][q])]
<1>1. IsFiniteSet(S)
  <2>1. IsFiniteSet(Time)
    BY CurrentWeatherAssumption, FS_Interval DEF CurrentWeatherAssumption, Time
  <2>2. S \in SUBSET Time
    BY DEF RowsOf, DataInv, WeatherTypeOK
  <2> QED
    BY <2>1, <2>2, FS_Subset
<1>2. ASSUME NEW t \in DOMAIN table
      PROVE  /\ \A v \in table[t][q] : v \in Int
             /\ Has(type, q) => table[t][q] = {Value(table[t][q])}
             /\ ~Has(type, q) => table[t][q] = {}
  <2>1. Sound(measured[t]) /\ table[t] = Row(Decode(type, measured[t]))
    BY DEF DataInv, RowsDecoded
  <2>2. Measurable(type, measured[t]) /\ type \in SensorType
    BY <2>1, SoundIsMeasurable DEF DataInv, WeatherTypeOK
  <2>3. /\ ~Has(type, q) => table[t][q] = {}
        /\ Has(type, q) => \E v : table[t][q] = {v}
        /\ \A v \in table[t][q] : v \in Int
    <3> DEFINE c == Row(Decode(type, measured[t]))[q]
    <3>1. /\ ~Has(type, q) => c = {}
          /\ Has(type, q) /\ q # "rain" => c = {Decode(type, measured[t])[q]}
          /\ Has(type, q) /\ q = "rain" => c = {RainGaugeFactor(type)}
          /\ \A v \in c : v \in Int
      BY <2>2, RowColumns, Zenon
    <3>2. table[t][q] = c
      BY <2>1
    <3> QED
      BY <3>1, <3>2, Zenon
  <2> QED
    BY <2>3, ValueOfSingleton
<1>3. U \in SUBSET Int
  BY <1>2 DEF ValuesOf, RowsOf
<1>4. IsFiniteSet(U)
  <2>1. CASE Has(type, q)
    <3>1. \A t \in S : t \in DOMAIN table
      BY DEF RowsOf
    <3>2. U = { f[t] : t \in S }
      BY <1>2, <2>1, <3>1 DEF ValuesOf
    <3>3. f \in Surjection(S, U)
      BY <3>2 DEF Surjection
    <3> QED
      BY <1>1, <3>3, FS_Surjection
  <2>2. CASE ~Has(type, q)
    <3>1. U = {}
      BY <1>2, <2>2 DEF ValuesOf, RowsOf
    <3> QED
      BY <3>1, FS_EmptySet
  <2> QED
    BY <2>1, <2>2
<1> QED
  BY <1>1, <1>3, <1>4

(* MIN, MAX and SUM over the rows of a day count each of them. *)
LEMMA AggregateCovers ==
  ASSUME DataInv, NEW t \in DOMAIN table
  PROVE  LET s == Aggregate(DayOf(t)) IN
           /\ Value(s.min) <= Value(table[t].temp) /\ Value(table[t].temp) <= Value(s.max)
           /\ \A v \in table[t].wind : v <= Value(s.wind)
           /\ \A v \in table[t].gust : v <= Value(s.gust)
           /\ Has(type, "rain") => \E v \in s.rain : v >= RainGaugeFactor(type)
<1> DEFINE d == DayOf(t)
           s == Aggregate(d)
           All(q) == ValuesOf(q, d)
           n == Cardinality(RowsOf(d))
<1>1. ASSUME NEW q \in Quantity, NEW v \in table[t][q]
      PROVE  v \in All(q) /\ Min(All(q)) <= v /\ v <= Max(All(q))
  <2>1. v \in All(q)
    BY DEF ValuesOf, RowsOf
  <2>2. All(q) \in SUBSET Int /\ IsFiniteSet(All(q)) /\ All(q) # {}
    BY <2>1, ValuesAreFinite
  <2> HIDE DEF All
  <2> QED
    BY <2>1, <2>2, MinOfFiniteSet, MaxOfFiniteSet
<1>2. /\ All("temp") # {} => s.min = {Min(All("temp"))} /\ s.max = {Max(All("temp"))}
      /\ All("wind") # {} => s.wind = {Max(All("wind"))}
      /\ All("gust") # {} => s.gust = {Max(All("gust"))}
      /\ s.rain = { n * v : v \in All("rain") }
  BY DEF Aggregate, ValuesOf
<1>3. Sound(measured[t]) /\ table[t] = Row(Decode(type, measured[t]))
  BY DEF DataInv, RowsDecoded
<1>4. Measurable(type, measured[t]) /\ type \in SensorType
  BY <1>3, SoundIsMeasurable DEF DataInv, WeatherTypeOK
<1> HIDE DEF All, s
<1>5. Value(s.min) <= Value(table[t].temp) /\ Value(table[t].temp) <= Value(s.max)
  <2>1. Has(type, "temp") /\ "temp" \in Quantity
    BY <1>4 DEF Has, Sensors, Quantity
  <2>2. PICK v : table[t].temp = {v}
    BY <1>3, <1>4, <2>1, RowColumns
  <2>3. v \in All("temp") /\ Min(All("temp")) <= v /\ v <= Max(All("temp"))
    BY <1>1, <2>1, <2>2
  <2> QED
    BY <1>2, <2>2, <2>3, ValueOfSingleton
<1>6. ASSUME NEW v \in table[t].wind PROVE v <= Value(s.wind)
  <2>1. v \in All("wind") /\ v <= Max(All("wind"))
    BY <1>1 DEF Quantity
  <2> QED
    BY <1>2, <2>1, ValueOfSingleton
<1>7. ASSUME NEW v \in table[t].gust PROVE v <= Value(s.gust)
  <2>1. v \in All("gust") /\ v <= Max(All("gust"))
    BY <1>1 DEF Quantity
  <2> QED
    BY <1>2, <2>1, ValueOfSingleton
<1>8. ASSUME Has(type, "rain") PROVE \E v \in s.rain : v >= RainGaugeFactor(type)
  <2>1. n \in Nat /\ n >= 1
    <3>1. IsFiniteSet(RowsOf(d))
      BY ValuesAreFinite DEF Quantity
    <3>2. RowsOf(d) # {}
      BY DEF RowsOf
    <3> QED
      BY <3>1, <3>2, FS_CardinalityType, FS_EmptySet
  <2>2. table[t].rain = {RainGaugeFactor(type)}
    BY <1>3, <1>4, <1>8, RowColumns DEF Quantity
  <2>3. RainGaugeFactor(type) \in All("rain")
    BY <1>1, <2>2 DEF Quantity
  <2>4. n * RainGaugeFactor(type) >= RainGaugeFactor(type)
    <3> HIDE DEF n
    <3> QED
      BY <2>1 DEF RainGaugeFactor
  <2> QED
    BY <1>2, <2>3, <2>4
<1> QED
  BY <1>5, <1>6, <1>7, <1>8 DEF s

LEMMA PublishStep == PublishInv /\ [WeatherNext]_vars => PublishInv'
<1> SUFFICES ASSUME PublishInv, [WeatherNext]_vars PROVE PublishInv'
  OBVIOUS
<1>0. DataInv /\ DataInv' /\ DOMAIN table \subseteq Time
  BY DataStep DEF PublishInv, DataInv, WeatherTypeOK
<1>1. \A t \in DOMAIN table : t \in DOMAIN table' /\ table'[t] = table[t]
  BY DEF WeatherNext, Present, Tick, SetBack, Read, Insert, With, InsertRejected, UpdateDay, Upload,
     EndIteration, StatementFails, BackToRead, SelectRow, SelectStats, vars, daemonVars
<1>2. \A w : CopyOfRow(w) => CopyOfRow(w)'
  BY <1>1 DEF CopyOfRow
<1>3. ASSUME NEW t \in DOMAIN table, NEW d PROVE CopyOfRow(Weather(t, d))
  BY <1>3, WeatherColumns DEF CopyOfRow
<1>4. CopyOfRow(NoWeather)
  BY DEF CopyOfRow
<1>5. DOMAIN table # {} => LatestStamp \in DOMAIN table
  BY <1>0, LatestRow
<1>6. CopyOfRow(uploaded')
  <2>1. CASE Upload
    <3>1. uploaded' = Weather(LatestStamp, DayOf(LatestStamp)) /\ DOMAIN table # {}
      BY <1>0, <2>1 DEF Upload, DataInv, RowsDecoded
    <3> QED
      BY <1>3, <1>5, <3>1
  <2>2. CASE uploaded' = uploaded
    BY <2>2 DEF PublishInv
  <2>3. CASE uploaded' = NoWeather
    BY <1>4, <2>3
  <2> QED
    BY <2>1, <2>2, <2>3
       DEF WeatherNext, Present, Tick, SetBack, Read, Insert, InsertRejected, UpdateDay,
           EndIteration, StatementFails, BackToRead, SelectRow, SelectStats, vars, daemonVars
<1>7. CopyOfRow(shown') /\ (row' # None => row' \in DOMAIN table)
  <2>1. CASE SelectStats
    BY <1>3, <2>1 DEF SelectStats, PublishInv
  <2>2. CASE SelectRow
    BY <1>5, <2>2 DEF SelectRow, PublishInv
  <2>3. CASE Present
    BY <1>4, <2>3 DEF Present, PublishInv
  <2>4. CASE UNCHANGED <<row, shown>>
    BY <2>4 DEF PublishInv
  <2> QED
    BY <2>1, <2>2, <2>3, <2>4
       DEF WeatherNext, Tick, SetBack, Read, Insert, InsertRejected, UpdateDay, Upload,
           EndIteration, StatementFails, SelectRow, SelectStats, vars, queryVars
<1>8. CopyOfRow(uploaded)' /\ CopyOfRow(shown)'
  BY <1>1, <1>6, <1>7 DEF CopyOfRow
<1> QED
  BY <1>0, <1>1, <1>7, <1>8 DEF PublishInv

LEMMA PublishInit == WeatherInit => PublishInv
BY DataInit DEF WeatherInit, PublishInv, CopyOfRow

LEMMA CoveredStep == DataInv /\ RowsCovered /\ [WeatherNext]_vars => RowsCovered'
<1> SUFFICES ASSUME DataInv, RowsCovered, [WeatherNext]_vars, faults' = 0,
                    NEW t \in DOMAIN table', ~(pc' = "dayStats" /\ t = ts')
             PROVE  Covered(t)'
  BY DEF RowsCovered
<1>0. UNCHANGED type
  BY DEF WeatherNext, Present, Tick, SetBack, Read, Insert, InsertRejected, UpdateDay, Upload,
     EndIteration, StatementFails, SelectRow, SelectStats, vars
<1>1. ASSUME Covered(t), t \in DOMAIN table, UNCHANGED stats, table'[t] = table[t]
      PROVE  Covered(t)'
  BY <1>0, <1>1 DEF Covered
<1>2. CASE Insert
  <2>1. /\ pc = "insert" /\ pc' = "dayStats" /\ UNCHANGED <<ts, stats, faults>>
        /\ DOMAIN table' = DOMAIN table \union {ts}
        /\ \A u \in DOMAIN table : table'[u] = table[u]
    BY <1>2 DEF Insert, With
  <2>2. t \in DOMAIN table
    BY <2>1
  <2> QED
    BY <1>1, <2>1, <2>2 DEF RowsCovered
<1>3. CASE UpdateDay
  <2>1. /\ pc = "dayStats" /\ stats' = With(stats, DayOf(ts), Aggregate(DayOf(ts)))
        /\ UNCHANGED <<ts, table, faults>>
    BY <1>3 DEF UpdateDay
  <2>2. CASE DayOf(t) = DayOf(ts)
    <3>1. DayOf(t) \in DOMAIN stats' /\ stats'[DayOf(t)] = Aggregate(DayOf(t))
      BY <2>1, <2>2 DEF With
    <3> QED
      BY <1>0, <2>1, <3>1, AggregateCovers DEF Covered
  <2>3. CASE DayOf(t) # DayOf(ts)
    <3>1. Covered(t)
      BY <2>1, <2>3 DEF RowsCovered
    <3>2. DayOf(t) \in DOMAIN stats' /\ stats'[DayOf(t)] = stats[DayOf(t)]
      BY <2>1, <2>3, <3>1 DEF With, Covered
    <3> QED
      BY <1>0, <2>1, <3>1, <3>2 DEF Covered
  <2> QED
    BY <2>2, <2>3
<1>4. CASE StatementFails
  BY <1>4 DEF StatementFails, DataInv, WeatherTypeOK
<1>5. CASE Read \/ InsertRejected \/ Upload \/ EndIteration
  <2>1. pc # "dayStats" /\ UNCHANGED <<table, stats, faults>>
    BY <1>5 DEF Read, InsertRejected, Upload, EndIteration
  <2> QED
    BY <1>1, <2>1 DEF RowsCovered
<1>6. CASE UNCHANGED daemonVars
  BY <1>1, <1>6 DEF daemonVars, RowsCovered
<1> QED
  BY <1>2, <1>3, <1>4, <1>5, <1>6
     DEF WeatherNext, Present, Tick, SetBack, SelectRow, SelectStats, vars

(* A temperature and a wind that another program gets are between the      *)
(* extremes it gets with them, and the rain counts that row, whatever the  *)
(* daemon and the clock did between its two SELECTs, unless the daemon had *)
(* inserted the row and not yet aggregated it (dbaccess.cc:352, 394).      *)
THEOREM ShownCoherentHolds == WeatherSpec => []ShownCoherent
<1>1. WeatherInit => ShownInv
  BY PublishInit DEF WeatherInit, ShownInv, RowsCovered, ShownCoherent, NoWeather
<1>2. ShownInv /\ [WeatherNext]_vars => ShownInv'
  <2> SUFFICES ASSUME ShownInv, [WeatherNext]_vars PROVE ShownCoherent'
    BY PublishStep, CoveredStep DEF ShownInv, PublishInv
  <2>0. UNCHANGED type
    BY DEF WeatherNext, Present, Tick, SetBack, Read, Insert, InsertRejected, UpdateDay, Upload,
       EndIteration, StatementFails, SelectRow, SelectStats, vars
  <2>1. CASE SelectStats
    <3> SUFFICES ASSUME ~torn', faults' = 0 PROVE ShownCoherent'
      BY DEF ShownCoherent
    <3>1. /\ row # None /\ shown' = Weather(row, DayOf(row)) /\ faults = 0
          /\ ~(pc = "dayStats" /\ row = ts)
      BY <2>1 DEF SelectStats, daemonVars
    <3>2. row \in DOMAIN table /\ Covered(row)
      BY <3>1 DEF ShownInv, PublishInv, RowsCovered
    <3>3. /\ shown'.temp = Value(table[row].temp)
          /\ shown'.column["wind"] = table[row].wind /\ shown'.column["gust"] = table[row].gust
          /\ shown'.min = Value(stats[DayOf(row)].min)
          /\ shown'.max = Value(stats[DayOf(row)].max)
          /\ shown'.maxWind = Value(stats[DayOf(row)].wind)
          /\ shown'.maxGust = Value(stats[DayOf(row)].gust)
          /\ shown'.column.rain = stats[DayOf(row)].rain
      BY <3>1, <3>2, WeatherColumns DEF Covered, Quantity
    <3> QED
      BY <2>0, <3>2, <3>3 DEF Covered, ShownCoherent
  <2>2. CASE Present
    BY <2>2 DEF Present, ShownCoherent, NoWeather
  <2>3. CASE UNCHANGED <<shown, torn>> /\ (shown.stamp = None \/ UNCHANGED faults)
    BY <2>0, <2>3 DEF ShownInv, ShownCoherent
  <2> QED
    BY <2>1, <2>2, <2>3
       DEF WeatherNext, Tick, SetBack, Read, Insert, InsertRejected, UpdateDay, Upload,
           EndIteration, StatementFails, SelectRow, vars, queryVars, daemonVars
<1>3. ShownInv => ShownCoherent
  BY DEF ShownInv
<1> QED
  BY <1>1, <1>2, <1>3, PTL DEF WeatherSpec

-----------------------------------------------------------------------------
(* What is published is what was measured.                                 *)

(* The types of station that the readers read a dataset of.  (Of the other *)
(* two parseDataset reads nothing: their dataset is zeros.)                *)
ReadTypes == {"kombi", "normal", "freetec", "ws980"}

(* The decoding of every reader is exact: a quantity the station measures  *)
(* and has not lost becomes the value it measured in the unit of the       *)
(* database.                                                               *)
LEMMA DecodingExact ==
  ASSUME type \in Types, type \in ReadTypes, NEW m, Sound(m)
  PROVE  /\ \A q \in {"temp", "humid", "wind", "gust", "dir", "pressure"} :
              Has(type, q) /\ m[q] # Lost => Decode(type, m)[q] = Physical(m, q)
         /\ m.temp # Lost => m.temp >= -500 /\ m.temp <= 699
         /\ m.dir # Lost /\ Has(type, "dir") => Decode(type, m).dir \in 0 .. 359
<1> DEFINE d == Decode(type, m)
<1>0. Measurable(type, m) /\ ~Corrupt(d)
  BY SoundIsMeasurable DEF Sound
<1>1. m.temp \in Int /\ \A q \in Quantity \ {"temp"} : m[q] \in Nat
  BY <1>0, MeasuredNumbers
<1>2. CASE type \in {"kombi", "normal"}
  <2>1. /\ d.humid = IF m.humid = Lost THEN 0 ELSE m.humid * 100
        /\ type = "kombi" => d.wind = IF m.wind = Lost THEN 0 ELSE m.wind * 10
        /\ m.temp # Lost => d.temp = m.temp * 10
    BY <1>0, <1>2, KombiDecoded
  <2>2. ~Has(type, "gust") /\ ~Has(type, "dir") /\ ~Has(type, "pressure")
        /\ (type = "normal" => ~Has(type, "wind"))
    BY <1>2 DEF Has, Sensors
  <2>3. /\ Physical(m, "temp") = m.temp * 10 /\ Physical(m, "humid") = m.humid * 100
        /\ Physical(m, "wind") = m.wind * 10
    BY <1>2 DEF Physical
  <2>4. m.temp # Lost => m.temp >= -500 /\ m.temp <= 699
    BY <1>0, <1>1, <2>1 DEF Corrupt
  <2> QED
    BY <1>2, <2>1, <2>2, <2>3, <2>4
<1>3. CASE type = "freetec"
  <2>1. /\ d.temp = m.temp * 10 /\ (m.humid # Lost => d.humid = m.humid * 100)
        /\ d.pressure = m.pressure * 10
        /\ \A q \in {"wind", "gust"} : m[q] # Lost => d[q] = m[q] * 38
        /\ m.dir < 16 => d.dir = (m.dir * 45) \div 2
    BY <1>0, <1>3, FreeTecDecoded
  <2>2. m.temp >= -500 /\ m.temp <= 699
    BY <1>0, <1>1, <2>1 DEF Corrupt
  <2>3. m.dir \in Nat /\ m.dir < 16
    <3>1. m.dir < 16 \/ m.temp = Lost
      BY <1>0, <1>3 DEF Measurable
    <3> QED
      BY <1>1, <2>2, <3>1 DEF Lost, Quantity
  <2>4. (m.dir * 45) \div 2 \in 0 .. 359
    BY <2>3
  <2>5. /\ Physical(m, "temp") = m.temp * 10 /\ Physical(m, "humid") = m.humid * 100
        /\ Physical(m, "wind") = m.wind * 38 /\ Physical(m, "gust") = m.gust * 38
        /\ Physical(m, "pressure") = m.pressure * 10 /\ Physical(m, "dir") = (m.dir * 45) \div 2
    BY <1>3 DEF Physical
  <2> QED
    BY <2>1, <2>2, <2>3, <2>4, <2>5
<1>4. CASE type = "ws980"
  <2>1. /\ m.temp # Lost => d.temp = m.temp * 10
        /\ d.humid = IF m.humid = Lost THEN 0 ELSE m.humid * 100
        /\ d.pressure = IF m.pressure = Lost THEN 0 ELSE m.pressure * 10
        /\ d.dir = IF m.dir = Lost THEN 0 ELSE m.dir
        /\ \A q \in {"wind", "gust"} : d[q] = IF m[q] = Lost THEN 0 ELSE m[q] * 36
    BY <1>0, <1>4, Ws980Decoded
  <2>2. m.temp # Lost => m.temp >= -500 /\ m.temp <= 699
    BY <1>0, <1>1, <2>1 DEF Corrupt
  <2>3. m.dir \in Nat /\ (m.dir < 360 \/ m.dir = Lost)
    BY <1>0, <1>1, <1>4 DEF Measurable, Quantity
  <2>4. /\ Physical(m, "temp") = m.temp * 10 /\ Physical(m, "humid") = m.humid * 100
        /\ Physical(m, "wind") = m.wind * 36 /\ Physical(m, "gust") = m.gust * 36
        /\ Physical(m, "pressure") = m.pressure * 10 /\ Physical(m, "dir") = m.dir
    BY <1>4 DEF Physical
  <2> QED
    BY <2>1, <2>2, <2>3, <2>4
<1> QED
  BY <1>2, <1>3, <1>4 DEF ReadTypes

(* What is in a CurrentWeather that is not a new one *)
LEMMA PublishedColumns ==
  ASSUME DataInv, NEW w, CopyOfRow(w), w.stamp # None
  PROVE  LET m == measured[w.stamp] IN
           /\ Sound(m) /\ Measurable(type, m)
           /\ w.temp = Decode(type, m).temp
           /\ \A q \in Quantity \ {"temp", "rain"} :
                w.column[q] = IF Has(type, q) THEN {Decode(type, m)[q]} ELSE {}
<1> DEFINE t == w.stamp
           m == measured[t]
<1>1. /\ t \in DOMAIN table /\ w.temp = Value(table[t].temp)
      /\ \A q \in Quantity \ {"temp", "rain"} : w.column[q] = table[t][q]
  BY DEF CopyOfRow, NoWeather
<1>2. Sound(m) /\ table[t] = Row(Decode(type, m))
  BY <1>1 DEF DataInv, RowsDecoded
<1>3. Measurable(type, m) /\ type \in SensorType
  BY <1>2, SoundIsMeasurable DEF DataInv, WeatherTypeOK
<1>4. Has(type, "temp")
  BY <1>3 DEF Has, Sensors
<1>5. table[t].temp = {Decode(type, m).temp}
  BY <1>2, <1>3, <1>4, RowColumns DEF Quantity
<1>6. \A q \in Quantity \ {"temp", "rain"} :
        table[t][q] = IF Has(type, q) THEN {Decode(type, m)[q]} ELSE {}
  BY <1>2, <1>3, RowColumns
<1> QED
  BY <1>1, <1>2, <1>3, <1>5, <1>6, ValueOfSingleton

(* The direction of an arrow is the opposite one. *)
LEMMA ArrowIsOpposite ==
  ASSUME NEW v \in 0 .. 359
  PROVE  ((180 + v) % 360) - v \in {180, -180}
<1>1. CASE v < 180
  <2>1. (180 + v) % 360 = 180 + v
    BY <1>1
  <2> QED
    BY <2>1
<1>2. CASE v >= 180
  <2>1. (180 + v) % 360 = v - 180
    BY <1>2
  <2> QED
    BY <2>1
<1> QED
  BY <1>1, <1>2

(* The light is within half of 1 W/m^2 of 1267 of 10 kLux. *)
LEMMA LightRounded ==
  ASSUME NEW n \in Nat
  PROVE  1267 * ((20 * n + 1267) \div 2534) - 10 * n \in -634 .. 634
OBVIOUS

LEMMA AllPublished ==
  ASSUME PublishInv, type \in ReadTypes
  PROVE  PublishedAsMeasured
<1>0. type \in Types /\ DataInv
  BY DEF PublishInv, DataInv, WeatherTypeOK
<1>1. ASSUME pc = "dayStats", NEW q \in {"temp", "humid", "wind"}, reading[q] # Lost
      PROVE  Environment(Decode(type, reading))[q] =
               IF Has(type, q) THEN {Physical(reading, q)} ELSE {}
  <2>1. Sound(reading)
    BY <1>0, <1>1 DEF DataInv, RowsDecoded
  <2>2. Has(type, q) => Decode(type, reading)[q] = Physical(reading, q)
    BY <1>0, <1>1, <2>1, DecodingExact
  <2>3. Environment(Decode(type, reading))[q] =
          IF Has(type, q) THEN {Decode(type, reading)[q]} ELSE {}
    BY DEF Environment
  <2> QED
    BY <2>2, <2>3
<1>2. ASSUME NEW w \in {shown, uploaded}, w.stamp # None
      PROVE  LET m == measured[w.stamp]
                 svg == Svg(w)
                 json == Json(w)
                 Expect(q) == IF Has(type, q) THEN {Physical(m, q)} ELSE {}
             IN  /\ m.temp # Lost => m.temp \in -500 .. 699 /\ w.temp = m.temp * 10
                 /\ \A q \in {"wind", "gust", "pressure", "humid"} : m[q] # Lost => svg[q] = Expect(q)
                 /\ \A q \in {"wind", "dir", "pressure"} : m[q] # Lost => json[q] = Expect(q)
                 /\ m.dir # Lost => \A v \in Expect("dir") : \A a \in svg.arrow :
                      (a - v) \in {180, -180}
                 /\ \A v \in svg.sun : 1267 * v - 10 * m.sun \in -634 .. 634
                 /\ (svg.sun = {}) <=> ~Has(type, "sun")
  <2> DEFINE m == measured[w.stamp]
             d == Decode(type, m)
             Expect(q) == IF Has(type, q) THEN {Physical(m, q)} ELSE {}
  <2>1. /\ Sound(m) /\ Measurable(type, m) /\ w.temp = d.temp
        /\ \A q \in Quantity \ {"temp", "rain"} :
             w.column[q] = IF Has(type, q) THEN {d[q]} ELSE {}
    BY <1>0, <1>2, PublishedColumns DEF PublishInv
  <2>2. m.temp \in Int /\ \A q \in Quantity \ {"temp"} : m[q] \in Nat
    BY <2>1, MeasuredNumbers
  <2>3. /\ \A q \in {"temp", "humid", "wind", "gust", "dir", "pressure"} :
             Has(type, q) /\ m[q] # Lost => d[q] = Physical(m, q)
        /\ m.temp # Lost => m.temp >= -500 /\ m.temp <= 699
        /\ m.dir # Lost /\ Has(type, "dir") => d.dir \in 0 .. 359
    <3>1. type \in Types /\ type \in ReadTypes /\ Sound(m)
      BY <1>0, <2>1
    <3> HIDE DEF m
    <3> QED
      BY <3>1, DecodingExact, Zenon
  <2>4. ASSUME NEW q \in {"humid", "wind", "gust", "dir", "pressure"}, m[q] # Lost
        PROVE  w.column[q] = Expect(q)
    <3>1. Has(type, q) => d[q] = Physical(m, q)
      <4>1. q \in {"temp", "humid", "wind", "gust", "dir", "pressure"} /\ m[q] # Lost
        BY <2>4
      <4> HIDE DEF d, m
      <4> QED
        BY <2>3, <4>1, Zenon
    <3>2. w.column[q] = IF Has(type, q) THEN {d[q]} ELSE {}
      BY <2>1 DEF Quantity
    <3> QED
      BY <3>1, <3>2
  <2>5. m.temp # Lost => m.temp >= -500 /\ m.temp <= 699 /\ w.temp = m.temp * 10
    <3>1. Has(type, "temp") /\ Physical(m, "temp") = m.temp * 10
      BY DEF Has, Sensors, Physical, ReadTypes, SensorType
    <3>2. w.temp = d.temp
      BY <2>1
    <3> HIDE DEF d, m
    <3>3. m.temp # Lost => d.temp = Physical(m, "temp")
      BY <2>3, <3>1, Zenon
    <3> QED
      BY <2>3, <3>1, <3>2, <3>3, SMT
  <2>6. m.temp # Lost => m.temp \in -500 .. 699 /\ w.temp = m.temp * 10
    <3> DEFINE x == m.temp
    <3>1. x \in Int /\ (x # Lost => x >= -500 /\ x <= 699 /\ w.temp = x * 10)
      BY <2>2, <2>5
    <3> HIDE DEF x, m
    <3>2. x # Lost => x \in -500 .. 699 /\ w.temp = x * 10
      BY <3>1, SMT
    <3> QED
      BY <3>2 DEF x
  <2>7. ASSUME NEW q \in {"wind", "gust", "pressure", "humid"}, m[q] # Lost
        PROVE  Svg(w)[q] = Expect(q)
    <3>1. Svg(w)[q] = w.column[q]
      BY DEF Svg
    <3> QED
      BY <2>4, <2>7, <3>1
  <2>8. \A q \in {"wind", "dir", "pressure"} : m[q] # Lost => Json(w)[q] = Expect(q)
    BY <2>4 DEF Json
  <2>9. ASSUME m.dir # Lost, NEW v \in Expect("dir"), NEW a \in Svg(w).arrow
        PROVE  (a - v) \in {180, -180}
    <3>1. Svg(w).arrow = { (180 + x) % 360 : x \in w.column["dir"] }
      BY DEF Svg
    <3>2. w.column["dir"] = {v} /\ Has(type, "dir") /\ v = d.dir
      BY <2>1, <2>3, <2>4, <2>9 DEF Quantity
    <3>3. v \in 0 .. 359
      BY <2>3, <2>9, <3>2
    <3>4. a = (180 + v) % 360
      BY <3>1, <3>2
    <3> QED
      BY <3>3, <3>4, ArrowIsOpposite
  <2>10. Svg(w).sun = IF Has(type, "sun") THEN {d.sun} ELSE {}
    BY <2>1 DEF Svg, Quantity
  <2>11. Has(type, "sun") => d.sun = (20 * m.sun + 1267) \div 2534 /\ m.sun \in Nat
    BY <2>1, <2>2, Ws980Decoded DEF Has, Sensors, Quantity
  <2>12. \A v \in Svg(w).sun : 1267 * v - 10 * m.sun \in -634 .. 634
    <3> SUFFICES ASSUME NEW v \in Svg(w).sun PROVE 1267 * v - 10 * m.sun \in -634 .. 634
      OBVIOUS
    <3> DEFINE n == m.sun
    <3>1. v = (20 * n + 1267) \div 2534 /\ n \in Nat
      BY <2>10, <2>11
    <3> HIDE DEF n, m
    <3>2. 1267 * v - 10 * n \in -634 .. 634
      BY <3>1, SMT
    <3> QED
      BY <3>2 DEF n
  <2>13. (Svg(w).sun = {}) <=> ~Has(type, "sun")
    BY <2>10
  <2> QED
    BY <2>6, <2>7, <2>8, <2>9, <2>12, <2>13
<1> QED
  BY <1>1, <1>2 DEF PublishedAsMeasured

(* A quantity is published exactly when the station measures it, as the    *)
(* value it measured, for every reading that its encoding can carry.       *)
THEOREM PublishedAsMeasuredHolds ==
  ASSUME Types \subseteq ReadTypes
  PROVE  WeatherSpec => []PublishedAsMeasured
<1>1. PublishInv => PublishedAsMeasured
  BY AllPublished DEF PublishInv, DataInv, WeatherTypeOK
<1> QED
  BY <1>1, PublishInit, PublishStep, PTL DEF WeatherSpec

-----------------------------------------------------------------------------
(* The strength and the direction of the wind.                             *)

Cube(n) == n * n * n

LEMMA Limits ==
  LET L == BeaufortLimits
  IN  /\ DOMAIN L = 1 .. 12 /\ \A i \in 1 .. 12 : L[i] \in Nat
      /\ L[1] = 0 /\ L[2] = 5 /\ L[3] = 11 /\ L[4] = 19 /\ L[5] = 28 /\ L[6] = 38
      /\ L[7] = 49 /\ L[8] = 61 /\ L[9] = 74 /\ L[10] = 88 /\ L[11] = 102 /\ L[12] = 117
BY DEF BeaufortLimits

LEMMA LimitsRise ==
  \A i, j \in 1 .. 12 : i <= j => BeaufortLimits[i] <= BeaufortLimits[j]
BY Limits

(* The last speed of a strength is reached at half a strength more, the    *)
(* next one is not.                                                        *)
LEMMA LimitsOfFormula ==
  \A k \in 1 .. 11 :
    LET last == BeaufortLimits[k + 1]
    IN  /\ last * last * 80000 <= 301 * 301 * Cube(2 * k + 1)
        /\ (last + 1) * (last + 1) * 80000 > 301 * 301 * Cube(2 * k + 1)
BY Limits DEF Cube

LEMMA SquaresRise ==
  ASSUME NEW a \in Nat, NEW b \in Nat, a <= b
  PROVE  a * a <= b * b
OBVIOUS

(* windSpeedToBft is the number of the first limit that is not exceeded. *)
LEMMA Strength ==
  ASSUME NEW v \in Nat, NEW k \in 0 .. 12,
         k > 0 => BeaufortLimits[k] < Rounded(v),
         k < 12 => Rounded(v) <= BeaufortLimits[k + 1]
  PROVE  Beaufort(v) = k
<1> DEFINE S == { i \in DOMAIN BeaufortLimits : BeaufortLimits[i] < Rounded(v) }
<1>0. Rounded(v) \in Nat
  BY DEF Rounded
<1>1. ASSUME NEW i \in 1 .. 12 PROVE BeaufortLimits[i] < Rounded(v) <=> i <= k
  <2>1. CASE i <= k
    <3>1. BeaufortLimits[i] <= BeaufortLimits[k]
      BY <2>1, LimitsRise
    <3> QED
      BY <1>0, <2>1, <3>1, Limits
  <2>2. CASE i > k
    <3>1. BeaufortLimits[k + 1] <= BeaufortLimits[i]
      BY <2>2, LimitsRise
    <3> QED
      BY <1>0, <2>2, <3>1, Limits
  <2> QED
    BY <2>1, <2>2
<1>2. S = 1 .. k
  BY <1>1, Limits
<1>3. Cardinality(1 .. k) = k
  <2>1. 1 \in Int /\ k \in Int
    OBVIOUS
  <2>2. Cardinality(1 .. k) = IF 1 > k THEN 0 ELSE k - 1 + 1
    BY <2>1, FS_Interval
  <2> QED
    BY <2>2
<1> QED
  BY <1>2, <1>3 DEF Beaufort

(* Every speed has a strength, and from 2 km/h on it is the least one whose*)
(* speed at half a strength more is not exceeded.                          *)
LEMMA StrengthOfFormula ==
  ASSUME NEW v \in Nat, Rounded(v) >= 2
  PROVE  LET kmh == Rounded(v)
             b   == Beaufort(v)
             Reaches(n) == kmh * kmh * 80000 <= 301 * 301 * Cube(2 * n + 1)
         IN  (b = 12 \/ Reaches(b)) /\ ~Reaches(b - 1)
<1> DEFINE kmh == Rounded(v)
           L == BeaufortLimits
<1>0. kmh \in Nat /\ kmh >= 2
  BY DEF Rounded
<1> HIDE DEF kmh
<1>1. \E k \in 1 .. 12 : L[k] < kmh /\ (k < 12 => kmh <= L[k + 1])
  <2>1. \/ 0 < kmh /\ kmh <= 5
        \/ 5 < kmh /\ kmh <= 11
        \/ 11 < kmh /\ kmh <= 19
        \/ 19 < kmh /\ kmh <= 28
        \/ 28 < kmh /\ kmh <= 38
        \/ 38 < kmh /\ kmh <= 49
        \/ 49 < kmh /\ kmh <= 61
        \/ 61 < kmh /\ kmh <= 74
        \/ 74 < kmh /\ kmh <= 88
        \/ 88 < kmh /\ kmh <= 102
        \/ 102 < kmh /\ kmh <= 117
        \/ 117 < kmh
    BY <1>0
  <2>2. /\ L[1] = 0 /\ L[2] = 5 /\ L[3] = 11 /\ L[4] = 19 /\ L[5] = 28 /\ L[6] = 38
        /\ L[7] = 49 /\ L[8] = 61 /\ L[9] = 74 /\ L[10] = 88 /\ L[11] = 102 /\ L[12] = 117
    BY Limits
  <2> HIDE DEF L
  <2>3. ASSUME NEW k \in 1 .. 12, L[k] < kmh, k < 12 => kmh <= L[k + 1]
        PROVE  \E n \in 1 .. 12 : L[n] < kmh /\ (n < 12 => kmh <= L[n + 1])
    BY <2>3
  <2>4. CASE 0 < kmh /\ kmh <= 5
    <3>1. L[1] < kmh /\ kmh <= L[1 + 1]
      BY <2>2, <2>4
    <3> QED
      BY <3>1, <2>3
  <2>5. CASE 5 < kmh /\ kmh <= 11
    <3>1. L[2] < kmh /\ kmh <= L[2 + 1]
      BY <2>2, <2>5
    <3> QED
      BY <3>1, <2>3
  <2>6. CASE 11 < kmh /\ kmh <= 19
    <3>1. L[3] < kmh /\ kmh <= L[3 + 1]
      BY <2>2, <2>6
    <3> QED
      BY <3>1, <2>3
  <2>7. CASE 19 < kmh /\ kmh <= 28
    <3>1. L[4] < kmh /\ kmh <= L[4 + 1]
      BY <2>2, <2>7
    <3> QED
      BY <3>1, <2>3
  <2>8. CASE 28 < kmh /\ kmh <= 38
    <3>1. L[5] < kmh /\ kmh <= L[5 + 1]
      BY <2>2, <2>8
    <3> QED
      BY <3>1, <2>3
  <2>9. CASE 38 < kmh /\ kmh <= 49
    <3>1. L[6] < kmh /\ kmh <= L[6 + 1]
      BY <2>2, <2>9
    <3> QED
      BY <3>1, <2>3
  <2>10. CASE 49 < kmh /\ kmh <= 61
    <3>1. L[7] < kmh /\ kmh <= L[7 + 1]
      BY <2>2, <2>10
    <3> QED
      BY <3>1, <2>3
  <2>11. CASE 61 < kmh /\ kmh <= 74
    <3>1. L[8] < kmh /\ kmh <= L[8 + 1]
      BY <2>2, <2>11
    <3> QED
      BY <3>1, <2>3
  <2>12. CASE 74 < kmh /\ kmh <= 88
    <3>1. L[9] < kmh /\ kmh <= L[9 + 1]
      BY <2>2, <2>12
    <3> QED
      BY <3>1, <2>3
  <2>13. CASE 88 < kmh /\ kmh <= 102
    <3>1. L[10] < kmh /\ kmh <= L[10 + 1]
      BY <2>2, <2>13
    <3> QED
      BY <3>1, <2>3
  <2>14. CASE 102 < kmh /\ kmh <= 117
    <3>1. L[11] < kmh /\ kmh <= L[11 + 1]
      BY <2>2, <2>14
    <3> QED
      BY <3>1, <2>3
  <2>15. CASE 117 < kmh
    <3>1. L[12] < kmh
      BY <2>2, <2>15
    <3> QED
      BY <3>1, <2>3
  <2> QED
    BY <2>1, <2>4, <2>5, <2>6, <2>7, <2>8, <2>9, <2>10, <2>11, <2>12, <2>13, <2>14, <2>15
<1>2. PICK k \in 1 .. 12 : L[k] < kmh /\ (k < 12 => kmh <= L[k + 1])
  BY <1>1
<1>3. Beaufort(v) = k
  BY <1>2, Strength DEF kmh
<1>4. k = 12 \/ kmh * kmh * 80000 <= 301 * 301 * Cube(2 * k + 1)
  <2>1. CASE k < 12
    <3>1. L[k + 1] \in Nat /\ kmh <= L[k + 1]
      BY <1>2, <2>1, Limits
    <3>2. kmh * kmh <= L[k + 1] * L[k + 1]
      BY <1>0, <3>1, SquaresRise
    <3>3. L[k + 1] * L[k + 1] * 80000 <= 301 * 301 * Cube(2 * k + 1)
      BY <2>1, LimitsOfFormula
    <3>4. Cube(2 * k + 1) \in Nat
      BY DEF Cube
    <3> DEFINE x == L[k + 1] * L[k + 1]
               y == kmh * kmh
    <3>5. x \in Nat /\ y \in Nat
      BY <1>0, <3>1
    <3> HIDE DEF x, y
    <3> QED
      BY <3>2, <3>3, <3>4, <3>5 DEF x, y
  <2> QED
    BY <2>1
<1>5. ~(kmh * kmh * 80000 <= 301 * 301 * Cube(2 * (k - 1) + 1))
  <2>1. CASE k = 1
    <3>1. kmh * kmh >= 4
      BY <1>0, SquaresRise
    <3> QED
      BY <1>0, <2>1, <3>1 DEF Cube
  <2>2. CASE k > 1
    <3> DEFINE j == k - 1
    <3>1. j \in 1 .. 11 /\ j + 1 = k
      BY <2>2
    <3>2. L[k] + 1 \in Nat /\ L[k] + 1 <= kmh
      BY <1>0, <1>2, Limits
    <3>3. (L[k] + 1) * (L[k] + 1) <= kmh * kmh
      BY <1>0, <3>2, SquaresRise
    <3>4. (L[k] + 1) * (L[k] + 1) * 80000 > 301 * 301 * Cube(2 * j + 1)
      BY <3>1, LimitsOfFormula
    <3>5. Cube(2 * j + 1) \in Nat
      BY <3>1 DEF Cube
    <3> DEFINE x == (L[k] + 1) * (L[k] + 1)
               y == kmh * kmh
    <3>6. x \in Nat /\ y \in Nat
      BY <1>0, <3>2
    <3> HIDE DEF x, y
    <3> QED
      BY <3>3, <3>4, <3>5, <3>6 DEF x, y
  <2> QED
    BY <2>1, <2>2
<1> QED
  BY <1>3, <1>4, <1>5 DEF kmh

(* The name is of the sixteenth the direction is in or of the one before.  *)
LEMMA SectorOfDirection ==
  ASSUME NEW v \in 0 .. 359
  PROVE  LET nearest == ((4 * v + 45) \div 90) % 16
             off     == (WindIndex(v) - nearest) % 16
         IN  off \in {0, 15}
<1> DEFINE a == v \div 22
           b == (4 * v + 45) \div 90
<1>1. a \in 0 .. 16 /\ b \in 0 .. 16 /\ (a = b \/ a = b - 1)
  OBVIOUS
<1>2. WindIndex(v) = a % 16
  BY DEF WindIndex
<1> HIDE DEF a, b
<1>3. ((a % 16) - (b % 16)) % 16 \in {0, 15}
  <2>1. CASE a = b
    <3>1. (a % 16) - (b % 16) = 0
      BY <1>1, <2>1
    <3> QED
      BY <3>1
  <2>2. CASE a = b - 1 /\ b < 16
    BY <1>1, <2>2
  <2>3. CASE a = 15 /\ b = 16
    BY <2>3
  <2> QED
    BY <1>1, <2>1, <2>2, <2>3
<1> QED
  BY <1>2, <1>3 DEF b

LEMMA SectorOfSixteenth ==
  ASSUME NEW k \in 0 .. 15
  PROVE  LET v == (k * 45) \div 2
             nearest == ((4 * v + 45) \div 90) % 16
         IN  v \in 0 .. 359 /\ (WindIndex(v) - nearest) % 16 = 0
<1> DEFINE v == (k * 45) \div 2
<1>1. v \in 0 .. 359 /\ v \div 22 = k /\ (4 * v + 45) \div 90 = k
  OBVIOUS
<1>2. WindIndex(v) = k % 16
  BY <1>1 DEF WindIndex
<1> QED
  BY <1>1, <1>2

(* The direction in a CurrentWeather is one of the circle, and that of a   *)
(* FreeTec station a sixteenth of it.                                      *)
LEMMA DirectionDecoded ==
  ASSUME NEW m, Sound(m), type \in Types, Has(type, "dir")
  PROVE  LET v == Decode(type, m).dir
         IN  /\ v \in 0 .. 359
             /\ type = "freetec" => \E k \in 0 .. 15 : v = (k * 45) \div 2
<1>0. Measurable(type, m) /\ ~Corrupt(Decode(type, m))
  BY SoundIsMeasurable DEF Sound
<1>1. m.temp \in Int /\ m.dir \in Nat
  BY <1>0, MeasuredNumbers DEF Quantity
<1>2. CASE type = "freetec"
  <2>1. Decode(type, m).temp = m.temp * 10
    BY <1>0, <1>2, FreeTecDecoded
  <2>2. m.temp # Lost
    BY <1>0, <2>1 DEF Corrupt, Lost
  <2>3. m.dir < 16
    BY <1>0, <1>2, <2>2 DEF Measurable
  <2>4. Decode(type, m).dir = (m.dir * 45) \div 2
    BY <1>0, <1>2, <2>3, FreeTecDecoded
  <2>5. m.dir \in 0 .. 15
    BY <1>1, <2>3
  <2> QED
    BY <2>4, <2>5, SectorOfSixteenth
<1>3. CASE type = "ws980"
  <2>1. Decode(type, m).dir = IF m.dir = Lost THEN 0 ELSE m.dir
    BY <1>0, <1>3, Ws980Decoded
  <2>2. m.dir < 360 \/ m.dir = Lost
    BY <1>0, <1>3 DEF Measurable
  <2> QED
    BY <1>1, <1>3, <2>1, <2>2
<1> QED
  BY <1>2, <1>3 DEF Has, Sensors

LEMMA AllNamed == PublishInv => WindNamed
<1> HAVE PublishInv
<1> SUFFICES ASSUME NEW w \in {shown, uploaded}, w.stamp # None
             PROVE  /\ \A v \in w.column.wind \union w.column.gust :
                         LET kmh == Rounded(v)
                             b   == Beaufort(v)
                             Reaches(n) == kmh * kmh * 80000 <= 301 * 301 * Cube(2 * n + 1)
                         IN  kmh \in 2 .. 160 => (b = 12 \/ Reaches(b)) /\ ~Reaches(b - 1)
                    /\ \A v \in w.column.dir :
                         LET nearest == ((4 * v + 45) \div 90) % 16
                             off     == (WindIndex(v) - nearest) % 16
                         IN  off = 0 \/ (off = 15 /\ type # "freetec")
  <2>1. \A w \in {shown, uploaded} : w.stamp = None => w = NoWeather
    <3>1. \A w \in {shown, uploaded} : CopyOfRow(w)
      BY DEF PublishInv
    <3>2. None \notin Time
      BY DEF Time, None
    <3>3. DOMAIN table \subseteq Time
      BY DEF PublishInv, DataInv, WeatherTypeOK
    <3> QED
      BY <3>1, <3>2, <3>3 DEF CopyOfRow
  <2>2. \A q \in {"wind", "gust", "dir"} : NoWeather.column[q] = {}
    BY DEF NoWeather, Quantity
  <2> QED
    BY <2>1, <2>2 DEF WindNamed, Cube
<1>0. type \in Types /\ DataInv /\ CopyOfRow(w)
  BY DEF PublishInv, DataInv, WeatherTypeOK
<1> DEFINE m == measured[w.stamp]
           d == Decode(type, m)
<1>1. /\ Sound(m) /\ Measurable(type, m)
      /\ \A q \in {"wind", "gust", "dir"} : w.column[q] = IF Has(type, q) THEN {d[q]} ELSE {}
  BY <1>0, PublishedColumns DEF Quantity
<1>2. type \in SensorType
  BY <1>0, <1>1, SoundIsMeasurable
<1>3. ASSUME NEW v \in w.column.wind \union w.column.gust, Rounded(v) \in 2 .. 160
      PROVE  LET kmh == Rounded(v)
                 b   == Beaufort(v)
                 Reaches(n) == kmh * kmh * 80000 <= 301 * 301 * Cube(2 * n + 1)
             IN  (b = 12 \/ Reaches(b)) /\ ~Reaches(b - 1)
  <2>1. v \in Nat
    BY <1>1, <1>2, <1>3, Decoded
  <2>2. Rounded(v) >= 2
    BY <1>3
  <2> QED
    BY <2>1, <2>2, StrengthOfFormula
<1>4. ASSUME NEW v \in w.column.dir
      PROVE  LET nearest == ((4 * v + 45) \div 90) % 16
                 off     == (WindIndex(v) - nearest) % 16
             IN  off = 0 \/ (off = 15 /\ type # "freetec")
  <2>1. Has(type, "dir") /\ v = d.dir
    BY <1>1, <1>4
  <2>2. v \in 0 .. 359 /\ (type = "freetec" => \E k \in 0 .. 15 : v = (k * 45) \div 2)
    BY <1>0, <1>1, <2>1, DirectionDecoded
  <2>3. CASE type = "freetec"
    BY <2>2, <2>3, SectorOfSixteenth
  <2>4. CASE type # "freetec"
    BY <2>2, <2>4, SectorOfDirection
  <2> QED
    BY <2>3, <2>4
<1> QED
  BY <1>3, <1>4

(* The strengths published are those of the Beaufort formula, and the      *)
(* direction gets the name of its sixteenth of the circle or, in degrees,  *)
(* of the one before (weather.cc:26-61, dataset.cc:520-529).               *)
THEOREM WindNamedHolds == WeatherSpec => []WindNamed
BY AllNamed, PublishInit, PublishStep, PTL DEF WeatherSpec
-----------------------------------------------------------------------------
(* The numbers of the upload: how many digits they have, and what a reader *)
(* makes of them.                                                          *)

(* Powers of ten and negative numbers, for the provers to calculate with  *)
LEMMA Powers ==
  /\ 10^0 = 1 /\ 10^1 = 10 /\ 10^2 = 100 /\ 10^3 = 1000 /\ 10^4 = 10000 /\ 10^5 = 100000
  /\ 10^6 = 1000000 /\ 10^7 = 10000000 /\ 10^8 = 100000000 /\ 10^9 = 1000000000
  /\ 10^10 = 10000000000
BY SMT

(* A negative literal, negated *)
LEMMA Negated == -(-1) = 1 /\ -(-2) = 2 /\ -(-3) = 3 /\ -(-4) = 4
<1>1. \A e \in Int : -e = 0 - e
  OBVIOUS
<1>2. -1 \in Int /\ -2 \in Int /\ -3 \in Int /\ -4 \in Int
  OBVIOUS
<1>3. 0 - (-1) = 1 /\ 0 - (-2) = 2 /\ 0 - (-3) = 3 /\ 0 - (-4) = 4
  OBVIOUS
<1> QED
  BY <1>1, <1>2, <1>3, Zenon

(* Powers of ten are each ten times the one before, and are divided by it. *)
LEMMA NextPower ==
  /\ \A j \in 0 .. 4 : 10^(j + 1) = 10 * 10^j /\ 10^j \in Nat \ {0}
  /\ \A p \in {2, 3, 5} : 10^p % 10 = 0 /\ 10^p \in Nat /\ 10^p % 100 = 0
<1>1. ASSUME NEW j \in 0 .. 4 PROVE 10^(j + 1) = 10 * 10^j /\ 10^j \in Nat \ {0}
  <2>1. j = 0 \/ j = 1 \/ j = 2 \/ j = 3 \/ j = 4
    BY SMT
  <2>2. /\ 10^(0 + 1) = 10 * 10^0 /\ 10^(1 + 1) = 10 * 10^1 /\ 10^(2 + 1) = 10 * 10^2
        /\ 10^(3 + 1) = 10 * 10^3 /\ 10^(4 + 1) = 10 * 10^4
    <3>1. 0 + 1 = 1 /\ 1 + 1 = 2 /\ 2 + 1 = 3 /\ 3 + 1 = 4 /\ 4 + 1 = 5
      BY SMT
    <3>2. 10^1 = 10 * 10^0 /\ 10^2 = 10 * 10^1 /\ 10^3 = 10 * 10^2 /\ 10^4 = 10 * 10^3
          /\ 10^5 = 10 * 10^4
      BY Powers, SMT
    <3> QED
      BY <3>1, <3>2, Zenon
  <2>3. 10^0 \in Nat \ {0} /\ 10^1 \in Nat \ {0} /\ 10^2 \in Nat \ {0} /\ 10^3 \in Nat \ {0}
        /\ 10^4 \in Nat \ {0}
    BY Powers, SMT
  <2> QED
    BY <2>1, <2>2, <2>3, Zenon
<1>2. ASSUME NEW p \in {2, 3, 5} PROVE 10^p % 10 = 0 /\ 10^p \in Nat /\ 10^p % 100 = 0
  <2>1. 10^2 % 10 = 0 /\ 10^3 % 10 = 0 /\ 10^5 % 10 = 0 /\ 10^2 % 100 = 0 /\ 10^3 % 100 = 0
        /\ 10^5 % 100 = 0 /\ 10^2 \in Nat /\ 10^3 \in Nat /\ 10^5 \in Nat
    BY Powers, SMT
  <2> QED
    BY <2>1, Zenon
<1> QED
  BY <1>1, <1>2

(* The exponent is the place of the first digit. *)
LEMMA ExponentOf ==
  ASSUME NEW n \in Nat, n > 0, NEW d \in Nat, d > 0
  PROVE  /\ 100 * d <= n => Exponent(n, d) = 2
         /\ 10 * d <= n /\ n < 100 * d => Exponent(n, d) = 1
         /\ d <= n /\ n < 10 * d => Exponent(n, d) = 0
         /\ n < d /\ d <= 10 * n => Exponent(n, d) = -1
         /\ 10 * n < d /\ d <= 100 * n => Exponent(n, d) = -2
         /\ 100 * n < d /\ d <= 1000 * n => Exponent(n, d) = -3
         /\ 1000 * n < d /\ d <= 10000 * n => Exponent(n, d) = -4
<1> DEFINE Reaches(e) == IF e >= 0 THEN n \div 10^e >= d
                         ELSE n >= (d + 10^(-e) - 1) \div 10^(-e)
           S == { e \in -4 .. 2 : Reaches(e) }
<1>1. Exponent(n, d) = Max(S)
  BY DEF Exponent
<1>2. /\ Reaches(2) <=> n >= 100 * d
      /\ Reaches(1) <=> n >= 10 * d
      /\ Reaches(0) <=> n >= d
  BY Powers, SMT
<1>3. Reaches(-1) <=> 10 * n >= d
  <2>1. ~(-1 >= 0)
    OBVIOUS
  <2>2. Reaches(-1) <=> n >= (d + 10^1 - 1) \div 10^1
    BY <2>1, Negated, Zenon
  <2> QED
    BY <2>2, Powers, SMT
<1>4. Reaches(-2) <=> 100 * n >= d
  <2>1. ~(-2 >= 0)
    OBVIOUS
  <2>2. Reaches(-2) <=> n >= (d + 10^2 - 1) \div 10^2
    BY <2>1, Negated, Zenon
  <2> QED
    BY <2>2, Powers, SMT
<1>5. Reaches(-3) <=> 1000 * n >= d
  <2>1. ~(-3 >= 0)
    OBVIOUS
  <2>2. Reaches(-3) <=> n >= (d + 10^3 - 1) \div 10^3
    BY <2>1, Negated, Zenon
  <2> QED
    BY <2>2, Powers, SMT
<1>6. Reaches(-4) <=> 10000 * n >= d
  <2>1. ~(-4 >= 0)
    OBVIOUS
  <2>2. Reaches(-4) <=> n >= (d + 10^4 - 1) \div 10^4
    BY <2>1, Negated, Zenon
  <2> QED
    BY <2>2, Powers, SMT
<1> HIDE DEF Reaches
<1>7. ASSUME NEW e \in -4 .. 2, e \in S, \A f \in -4 .. 2 : f > e => f \notin S
      PROVE  Max(S) = e
  <2>1. S \in SUBSET Int /\ IsFiniteSet(S) /\ S # {}
    <3>1. IsFiniteSet(-4 .. 2)
      <4>1. -4 \in Int /\ 2 \in Int
        OBVIOUS
      <4> QED
        BY <4>1, FS_Interval
    <3> QED
      BY <1>7, <3>1, FS_Subset
  <2>2. Max(S) \in S /\ e <= Max(S)
    <3> HIDE DEF S
    <3> QED
      BY <1>7, <2>1, MaxOfFiniteSet
  <2> QED
    BY <1>7, <2>2
<1> QED
  BY <1>1, <1>2, <1>3, <1>4, <1>5, <1>6, <1>7

(* A number without its sign, and its sign *)
Size(n) == IF n < 0 THEN -n ELSE n
Sign(n) == IF n < 0 THEN -1 ELSE 1

(* A number n / d that is written with p digits, the last of them at the   *)
(* k-th place after the point: if rounding makes it one digit more, the    *)
(* last one is left out.                                                   *)
Fine(n, d, p, k) ==
  LET w == Written([n |-> n, d |-> d], p)
      digits == IF d % 10^k = 0 THEN Quotient(Size(n), d \div 10^k) ELSE Scaled(Size(n), d, k)
  IN  Exponent(Size(n), d) = p - 1 - k /\ digits \in Nat =>
        /\ ~w.power
        /\ digits # 10^p => w.last = 0 - k /\ w.digits = digits * Sign(n)
        /\ digits = 10^p => w.last = 1 - k /\ w.digits = (digits \div 10) * Sign(n)

LEMMA WrittenFine ==
  ASSUME NEW n \in Int, NEW d \in Nat \ {0}, NEW p \in Nat, NEW k \in Nat \ {0}
  PROVE  Fine(n, d, p, k)
<1> DEFINE size == IF n < 0 THEN -n ELSE n
           digits == IF d % 10^k = 0 THEN Quotient(size, d \div 10^k) ELSE Scaled(size, d, k)
<1> SUFFICES ASSUME Exponent(size, d) = p - 1 - k, digits \in Nat
             PROVE  LET w == Written([n |-> n, d |-> d], p)
                    IN  /\ ~w.power
                        /\ digits # 10^p => w.last = 0 - k /\ w.digits = digits * Sign(n)
                        /\ digits = 10^p => w.last = 1 - k /\ w.digits = (digits \div 10) * Sign(n)
  BY Zenon DEF Fine, Size
<1> DEFINE x == [n |-> n, d |-> d]
           last == Exponent(size, d) - p + 1
           first == Exponent(size, d)
           w == Written(x, p)
<1>1. last \in Int /\ last < 0 /\ -last = k /\ last + k = 0
  BY SMT
<1>2. 10^(-last) = 10^k
  BY <1>1, Zenon
<1>3. digits = IF last >= 0 THEN Quotient(size, x.d * 10^last)
                ELSE IF x.d % 10^(-last) = 0 THEN Quotient(size, x.d \div 10^(-last))
                ELSE Scaled(size, x.d, -last)
  <2>1. ~(last >= 0)
    BY <1>1, SMT
  <2> HIDE DEF last
  <2> QED
    BY <1>1, <1>2, <2>1, Zenon
<1>4. x.n = n
  OBVIOUS
<1>5. w = [digits |-> (IF digits = 10^p THEN digits \div 10 ELSE digits) * (IF n < 0 THEN -1 ELSE 1),
           last   |-> IF digits = 10^p THEN last + 1 ELSE last,
           power  |-> last + (IF digits = 10^p THEN 1 ELSE 0) > 0]
  BY <1>3, <1>4, Zenon DEF Written, Sign
<1> DEFINE carry == digits = 10^p
           whole == IF carry THEN digits \div 10 ELSE digits
           sign == Sign(n)
           lastly == IF carry THEN last + 1 ELSE last
<1>6. w = [digits |-> whole * sign, last |-> lastly, power |-> last + (IF carry THEN 1 ELSE 0) > 0]
  BY <1>5, Zenon DEF Sign
<1> HIDE DEF last, carry, whole, sign, lastly, w
<1>7. /\ w.digits = whole * sign /\ w.last = lastly
      /\ w.power <=> last + (IF carry THEN 1 ELSE 0) > 0
  BY <1>6, Zenon
<1>8. ~w.power
  BY <1>1, <1>7, SMT
<1>9. carry => w.last = 1 - k /\ w.digits = (digits \div 10) * sign
  BY <1>1, <1>7, SMT DEF lastly, whole
<1>10. ~carry => w.last = 0 - k /\ w.digits = digits * sign
  BY <1>1, <1>7, SMT DEF lastly, whole
<1> QED
  BY <1>8, <1>9, <1>10, Zenon DEF w, carry, sign

(* ... and with the last digit before the point: it is written with an    *)
(* exponent unless that is the last digit of the whole number.             *)
Coarse(n, d, p, last) ==
  LET w == Written([n |-> n, d |-> d], p)
      digits == Quotient(Size(n), d * 10^last)
  IN  Exponent(Size(n), d) = last + p - 1 /\ digits \in Nat =>
        /\ digits # 10^p => w.last = last /\ (w.power <=> last > 0) /\ w.digits = digits * Sign(n)
        /\ digits = 10^p => w.last = last + 1 /\ w.power /\ w.digits = (digits \div 10) * Sign(n)

LEMMA WrittenCoarse ==
  ASSUME NEW n \in Int, NEW d \in Nat \ {0}, NEW p \in Nat, NEW last \in Nat
  PROVE  Coarse(n, d, p, last)
<1> DEFINE size == IF n < 0 THEN -n ELSE n
           digits == Quotient(size, d * 10^last)
<1> SUFFICES ASSUME Exponent(size, d) = last + p - 1, digits \in Nat
             PROVE  LET w == Written([n |-> n, d |-> d], p)
                    IN  /\ digits # 10^p => /\ w.last = last /\ (w.power <=> last > 0)
                                            /\ w.digits = digits * Sign(n)
                        /\ digits = 10^p => /\ w.last = last + 1 /\ w.power
                                            /\ w.digits = (digits \div 10) * Sign(n)
  BY Zenon DEF Coarse, Size
<1> DEFINE x == [n |-> n, d |-> d]
           w == Written(x, p)
<1>1. Exponent(size, d) - p + 1 = last
  BY SMT
<1>2. digits = IF last >= 0 THEN Quotient(size, x.d * 10^last)
                ELSE IF x.d % 10^(-last) = 0 THEN Quotient(size, x.d \div 10^(-last))
                ELSE Scaled(size, x.d, -last)
  <2>1. last >= 0
    BY SMT
  <2> QED
    BY <2>1, Zenon
<1>3. x.n = n
  OBVIOUS
<1>4. w = [digits |-> (IF digits = 10^p THEN digits \div 10 ELSE digits) * (IF n < 0 THEN -1 ELSE 1),
           last   |-> IF digits = 10^p THEN last + 1 ELSE last,
           power  |-> last + (IF digits = 10^p THEN 1 ELSE 0) > 0]
  BY <1>1, <1>2, <1>3, Zenon DEF Written, Sign
<1> DEFINE carry == digits = 10^p
           whole == IF carry THEN digits \div 10 ELSE digits
           sign == Sign(n)
           lastly == IF carry THEN last + 1 ELSE last
<1>5. w = [digits |-> whole * sign, last |-> lastly, power |-> last + (IF carry THEN 1 ELSE 0) > 0]
  BY <1>4, Zenon DEF Sign
<1> HIDE DEF carry, whole, sign, lastly, w
<1>6. /\ w.digits = whole * sign /\ w.last = lastly
      /\ w.power <=> last + (IF carry THEN 1 ELSE 0) > 0
  BY <1>5, Zenon
<1>7. carry => w.last = last + 1 /\ w.digits = (digits \div 10) * sign /\ w.power
  BY <1>6, SMT DEF lastly, whole
<1>8. ~carry => w.last = last /\ w.digits = digits * sign /\ (w.power <=> last > 0)
  BY <1>6, SMT DEF lastly, whole
<1> QED
  BY <1>7, <1>8, Zenon DEF w, carry, sign

(* Reading a number in a unit that is smaller or greater than its last    *)
(* digit                                                                   *)
LEMMA ReadUp ==
  ASSUME NEW w, NEW unit \in Int, NEW e \in Nat, w.last = unit + e
  PROVE  ReadAs(w, unit) = w.digits * 10^e
<1>1. w.last >= unit /\ w.last - unit = e
  BY SMT
<1> QED
  BY <1>1, Zenon DEF ReadAs

LEMMA ReadDown ==
  ASSUME NEW w, NEW unit \in Int, w.last \in Int, NEW e \in Nat \ {0}, unit = w.last + e
  PROVE  ReadAs(w, unit) = w.digits \div 10^e
<1>1. ~(w.last >= unit) /\ unit - w.last = e
  BY SMT
<1> QED
  BY <1>1, Zenon DEF ReadAs

(* What is read of a number does not depend on whether rounding made it one*)
(* digit more: of one with digits after the point, in a unit not greater   *)
(* than the last of them, ...                                              *)
FineUp(n, d, p, k, j, unit) ==
  LET w == Written([n |-> n, d |-> d], p)
      digits == IF d % 10^k = 0 THEN Quotient(Size(n), d \div 10^k) ELSE Scaled(Size(n), d, k)
  IN  Exponent(Size(n), d) = p - 1 - k /\ digits \in Nat /\ unit + k + j = 0 =>
        ~w.power /\ ReadAs(w, unit) = digits * Sign(n) * 10^j

LEMMA SignType == ASSUME NEW n \in Int PROVE Sign(n) \in {-1, 1}
BY DEF Sign

LEMMA ReadFineUp ==
  ASSUME NEW n \in Int, NEW d \in Nat \ {0}, NEW p \in {2, 3, 5}, NEW k \in Nat \ {0},
         NEW j \in 0 .. 3, NEW unit \in Int
  PROVE  FineUp(n, d, p, k, j, unit)
<1> DEFINE w == Written([n |-> n, d |-> d], p)
           digits == IF d % 10^k = 0 THEN Quotient(Size(n), d \div 10^k) ELSE Scaled(Size(n), d, k)
<1> SUFFICES ASSUME Exponent(Size(n), d) = p - 1 - k, digits \in Nat, unit + k + j = 0
             PROVE  ~w.power /\ ReadAs(w, unit) = digits * Sign(n) * 10^j
  BY Zenon DEF FineUp
<1>1. p \in Nat
  OBVIOUS
<1>2. Fine(n, d, p, k)
  BY <1>1, WrittenFine, Zenon
<1>3. /\ ~w.power
      /\ digits # 10^p => w.last = 0 - k /\ w.digits = digits * Sign(n)
      /\ digits = 10^p => w.last = 1 - k /\ w.digits = (digits \div 10) * Sign(n)
  BY <1>2, Zenon DEF Fine
<1>4. /\ 10^(j + 1) = 10 * 10^j /\ 10^j \in Nat
      /\ 10^p % 10 = 0 /\ 10^p \in Nat
  <2>1. j \in 0 .. 4
    OBVIOUS
  <2>2. 10^(j + 1) = 10 * 10^j /\ 10^j \in Nat
    BY <2>1, NextPower, Zenon
  <2>3. 10^p % 10 = 0 /\ 10^p \in Nat
    BY NextPower, Zenon
  <2> QED
    BY <2>2, <2>3, Zenon
<1>5. Sign(n) \in {-1, 1}
  BY SignType
<1> DEFINE low == 10^j
           high == 10^(j + 1)
           top == 10^p
           sign == Sign(n)
<1>6. CASE digits # top
  <2> HIDE DEF w, digits
  <2>1. w.last = unit + j /\ j \in Nat
    BY <1>3, <1>6, SMT
  <2>2. ReadAs(w, unit) = w.digits * 10^j
    BY <2>1, ReadUp
  <2> QED
    BY <1>3, <1>6, <2>2, Zenon
<1>7. CASE digits = top
  <2> HIDE DEF w, digits
  <2>1. w.last = unit + (j + 1) /\ j + 1 \in Nat
    BY <1>3, <1>7, SMT
  <2>2. ReadAs(w, unit) = w.digits * 10^(j + 1)
    BY <2>1, ReadUp, Zenon
  <2>3. ReadAs(w, unit) = (digits \div 10) * sign * high
    BY <1>3, <1>7, <2>2, Zenon
  <2>4. digits * sign * low = (digits \div 10) * sign * high
    <3>1. digits = 10 * (digits \div 10) /\ digits \div 10 \in Nat
      <4>1. digits % 10 = 0 /\ digits \in Nat
        BY <1>4, <1>7, Zenon
      <4> QED
        BY <4>1, SMT
    <3>2. low \in {1, 10, 100, 1000} /\ high = 10 * low
      <4>1. j \in {0, 1, 2, 3}
        BY SMT
      <4>2. 10^0 = 1 /\ 10^1 = 10 /\ 10^2 = 100 /\ 10^3 = 1000
        BY Powers, SMT
      <4>3. 10^j \in {10^0, 10^1, 10^2, 10^3}
        BY <4>1, Zenon
      <4> HIDE DEF high, low
      <4> QED
        BY <1>4, <4>2, <4>3, SMT DEF high, low
    <3> DEFINE ten == digits \div 10
    <3> HIDE DEF sign, low, high, ten
    <3>3. digits = 10 * ten /\ ten \in Nat
      BY <3>1 DEF ten
    <3>4. sign \in {-1, 1}
      BY <1>5 DEF sign
    <3>5. CASE low = 1
      BY <3>2, <3>3, <3>4, <3>5, SMT
    <3>6. CASE low = 10
      BY <3>2, <3>3, <3>4, <3>6, SMT
    <3>7. CASE low = 100
      BY <3>2, <3>3, <3>4, <3>7, SMT
    <3>8. CASE low = 1000
      BY <3>2, <3>3, <3>4, <3>8, SMT
    <3> QED
      BY <3>2, <3>5, <3>6, <3>7, <3>8, SMT DEF ten
  <2> QED
    BY <1>3, <2>3, <2>4, Zenon
<1> QED
  BY <1>6, <1>7, Zenon

(* The same of a number without digits after the point, ... *)
CoarseUp(n, d, p, last, j, unit) ==
  LET w == Written([n |-> n, d |-> d], p)
      digits == Quotient(Size(n), d * 10^last)
  IN  Exponent(Size(n), d) = last + p - 1 /\ digits \in Nat /\ unit + j = last =>
        (w.power <=> last > 0 \/ digits = 10^p) /\ ReadAs(w, unit) = digits * Sign(n) * 10^j

LEMMA ReadCoarse ==
  ASSUME NEW n \in Int, NEW d \in Nat \ {0}, NEW p \in {2, 3, 5}, NEW last \in Nat,
         NEW j \in 0 .. 3, NEW unit \in Int
  PROVE  CoarseUp(n, d, p, last, j, unit)
<1> DEFINE w == Written([n |-> n, d |-> d], p)
           digits == Quotient(Size(n), d * 10^last)
<1> SUFFICES ASSUME Exponent(Size(n), d) = last + p - 1, digits \in Nat, unit + j = last
             PROVE  (w.power <=> last > 0 \/ digits = 10^p) /\ ReadAs(w, unit) = digits * Sign(n) * 10^j
  BY Zenon DEF CoarseUp
<1>1. p \in Nat
  OBVIOUS
<1>2. Coarse(n, d, p, last)
  BY <1>1, WrittenCoarse, Zenon
<1>3. /\ digits # 10^p => w.last = last /\ (w.power <=> last > 0) /\ w.digits = digits * Sign(n)
      /\ digits = 10^p => w.last = last + 1 /\ w.power /\ w.digits = (digits \div 10) * Sign(n)
  BY <1>2, Zenon DEF Coarse
<1>4. /\ 10^(j + 1) = 10 * 10^j /\ 10^j \in Nat
      /\ 10^p % 10 = 0 /\ 10^p \in Nat
  <2>1. j \in 0 .. 4
    OBVIOUS
  <2>2. 10^(j + 1) = 10 * 10^j /\ 10^j \in Nat
    BY <2>1, NextPower, Zenon
  <2>3. 10^p % 10 = 0 /\ 10^p \in Nat
    BY NextPower, Zenon
  <2> QED
    BY <2>2, <2>3, Zenon
<1>5. Sign(n) \in {-1, 1}
  BY SignType
<1> DEFINE low == 10^j
           high == 10^(j + 1)
           top == 10^p
           sign == Sign(n)
<1>6. CASE digits # top
  <2> HIDE DEF w, digits
  <2>1. w.last = unit + j /\ j \in Nat
    BY <1>3, <1>6, SMT
  <2>2. ReadAs(w, unit) = w.digits * 10^j
    BY <2>1, ReadUp
  <2> QED
    BY <1>3, <1>6, <2>2, Zenon
<1>7. CASE digits = top
  <2> HIDE DEF w, digits
  <2>1. w.last = unit + (j + 1) /\ j + 1 \in Nat
    BY <1>3, <1>7, SMT
  <2>2. ReadAs(w, unit) = w.digits * 10^(j + 1)
    BY <2>1, ReadUp, Zenon
  <2>3. ReadAs(w, unit) = (digits \div 10) * sign * high
    BY <1>3, <1>7, <2>2, Zenon
  <2>4. digits * sign * low = (digits \div 10) * sign * high
    <3>1. digits = 10 * (digits \div 10) /\ digits \div 10 \in Nat
      <4>1. digits % 10 = 0 /\ digits \in Nat
        BY <1>4, <1>7, Zenon
      <4> QED
        BY <4>1, SMT
    <3>2. low \in {1, 10, 100, 1000} /\ high = 10 * low
      <4>1. j \in {0, 1, 2, 3}
        BY SMT
      <4>2. 10^0 = 1 /\ 10^1 = 10 /\ 10^2 = 100 /\ 10^3 = 1000
        BY Powers, SMT
      <4>3. 10^j \in {10^0, 10^1, 10^2, 10^3}
        BY <4>1, Zenon
      <4> HIDE DEF high, low
      <4> QED
        BY <1>4, <4>2, <4>3, SMT DEF high, low
    <3> DEFINE ten == digits \div 10
    <3> HIDE DEF sign, low, high, ten
    <3>3. digits = 10 * ten /\ ten \in Nat
      BY <3>1 DEF ten
    <3>4. sign \in {-1, 1}
      BY <1>5 DEF sign
    <3>5. CASE low = 1
      BY <3>2, <3>3, <3>4, <3>5, SMT
    <3>6. CASE low = 10
      BY <3>2, <3>3, <3>4, <3>6, SMT
    <3>7. CASE low = 100
      BY <3>2, <3>3, <3>4, <3>7, SMT
    <3>8. CASE low = 1000
      BY <3>2, <3>3, <3>4, <3>8, SMT
    <3> QED
      BY <3>2, <3>5, <3>6, <3>7, <3>8, SMT DEF ten
  <2> QED
    BY <1>3, <2>3, <2>4, Zenon
<1> QED
  BY <1>6, <1>7, Zenon

(* ... and of one that is read in a greater unit *)
FineDown(n, d, p, k, j, unit) ==
  LET w == Written([n |-> n, d |-> d], p)
      digits == IF d % 10^k = 0 THEN Quotient(Size(n), d \div 10^k) ELSE Scaled(Size(n), d, k)
  IN  Exponent(Size(n), d) = p - 1 - k /\ digits \in Nat /\ unit + k = j =>
        ~w.power /\ ReadAs(w, unit) = (digits * Sign(n)) \div 10^j

LEMMA ReadFineDown ==
  ASSUME NEW n \in Int, NEW d \in Nat \ {0}, NEW p \in {2, 3, 5}, NEW k \in Nat \ {0},
         NEW j \in 1 .. 3, j < 3 \/ p = 5, NEW unit \in Int
  PROVE  FineDown(n, d, p, k, j, unit)
<1> DEFINE w == Written([n |-> n, d |-> d], p)
           digits == IF d % 10^k = 0 THEN Quotient(Size(n), d \div 10^k) ELSE Scaled(Size(n), d, k)
<1> SUFFICES ASSUME Exponent(Size(n), d) = p - 1 - k, digits \in Nat, unit + k = j
             PROVE  ~w.power /\ ReadAs(w, unit) = (digits * Sign(n)) \div 10^j
  BY Zenon DEF FineDown
<1>1. p \in Nat
  OBVIOUS
<1>2. Fine(n, d, p, k)
  BY <1>1, WrittenFine, Zenon
<1>3. /\ ~w.power
      /\ digits # 10^p => w.last = 0 - k /\ w.digits = digits * Sign(n)
      /\ digits = 10^p => w.last = 1 - k /\ w.digits = (digits \div 10) * Sign(n)
  BY <1>2, Zenon DEF Fine
<1>4. CASE digits # 10^p
  <2> HIDE DEF w, digits
  <2>1. w.last \in Int /\ unit = w.last + j /\ j \in Nat \ {0}
    BY <1>3, <1>4, SMT
  <2>2. ReadAs(w, unit) = w.digits \div 10^j
    BY <2>1, ReadDown
  <2> QED
    BY <1>3, <1>4, <2>2, Zenon
<1>5. CASE digits = 10^p
  <2> DEFINE sign == Sign(n)
  <2>0. sign \in {-1, 1}
    BY SignType
  <2>1. digits \in {100, 1000, 100000} /\ (j < 3 \/ digits = 100000)
    <3>1. 10^2 = 100 /\ 10^3 = 1000 /\ 10^5 = 100000
      BY Powers, SMT
    <3>2. digits = 10^2 \/ digits = 10^3 \/ digits = 10^5
      BY <1>5, Zenon
    <3>3. j < 3 \/ digits = 10^5
      BY <1>5, Zenon
    <3> HIDE DEF digits
    <3> QED
      BY <3>1, <3>2, <3>3, SMT
  <2>2. w.digits = (digits \div 10) * sign /\ w.last = 1 - k
    BY <1>3, <1>5, Zenon
  <2>3. 10^0 = 1 /\ 10^1 = 10 /\ 10^2 = 100 /\ 10^3 = 1000
    BY Powers, SMT
  <2> HIDE DEF w, digits, sign
  <2>4. CASE j = 1
    <3>1. w.last = unit + 0
      BY <2>2, <2>4, SMT
    <3>2. ReadAs(w, unit) = w.digits * 10^0
      BY <3>1, ReadUp
    <3>3. w.digits * 10^0 = (digits * sign) \div 10^1
      BY <2>0, <2>1, <2>2, <2>3, SMT
    <3> QED
      BY <1>3, <2>4, <3>2, <3>3, Zenon DEF sign
  <2>5. CASE j = 2
    <3>1. w.last \in Int /\ unit = w.last + 1 /\ 1 \in Nat \ {0}
      BY <2>2, <2>5, SMT
    <3>2. ReadAs(w, unit) = w.digits \div 10^1
      BY <3>1, ReadDown, Zenon
    <3>3. w.digits \div 10^1 = (digits * sign) \div 10^2
      BY <2>0, <2>1, <2>2, <2>3, SMT
    <3> QED
      BY <1>3, <2>5, <3>2, <3>3, Zenon DEF sign
  <2>6. CASE j = 3
    <3>1. w.last \in Int /\ unit = w.last + 2 /\ 2 \in Nat \ {0}
      BY <2>2, <2>6, SMT
    <3>2. ReadAs(w, unit) = w.digits \div 10^2
      BY <3>1, ReadDown, Zenon
    <3>3. w.digits \div 10^2 = (digits * sign) \div 10^3
      BY <2>0, <2>1, <2>2, <2>3, <2>6, SMT
    <3> QED
      BY <1>3, <2>6, <3>2, <3>3, Zenon DEF sign
  <2> QED
    BY <2>4, <2>5, <2>6
<1> QED
  BY <1>4, <1>5, Zenon

-----------------------------------------------------------------------------
(* Each quantity, written in the digits and the unit of the service        *)

(* The temperature, with two digits: below zero, around 0 F where the      *)
(* digits are finer than the tenths, and from 99.5 F                       *)
LEMMA TemperatureRead ==
  ASSUME NEW t \in Int, -500 <= t, t <= 699
  PROVE  TemperaturePrecise(t, Written(celsius2Fahrenheit(t * 10), 2))
<1> DEFINE n == 18 * (t * 10) + 32000
           d == 1000
           w == Written([n |-> n, d |-> d], 2)
           v == ReadAs(w, -1)
           size == Size(n)
           sign == Sign(n)
<1>0. w = Written(celsius2Fahrenheit(t * 10), 2)
  BY SMT DEF celsius2Fahrenheit
<1>1. n \in Int /\ d \in Nat \ {0} /\ size \in Nat /\ sign \in {-1, 1}
  BY SMT DEF Size, Sign
<1>2. /\ size = 0 \/ size >= 20
      /\ n = 180 * t + 32000 /\ n = sign * size /\ (n >= 0 => n = size /\ sign = 1)
  BY SMT DEF Size, Sign
<1>3. size = 0 => Exponent(size, d) = 0
  BY SMT DEF Exponent
<1> HIDE DEF n, d, w, size, sign, v
<1> SUFFICES TemperaturePrecise(t, w)
  BY <1>0, Zenon
<1>4. CASE size >= 100000
  <2> DEFINE g == Quotient(size, d * 10^1)
  <2>1. Exponent(size, d) = 1 + 2 - 1 /\ -1 + 2 = 1
    BY <1>1, <1>2, <1>3, <1>4, ExponentOf, SMT DEF d
  <2>2. g = (size + 5000) \div 10000
    BY <1>1, <1>2, <1>3, Powers, SMT DEF Quotient, d
  <2>3. g \in Nat
    BY <2>2, <1>1, SMT
  <2>4. 1 \in Nat /\ 2 \in 0 .. 3 /\ 2 \in {2, 3, 5} /\ -1 \in Int
    BY SMT
  <2>5. CoarseUp(n, d, 2, 1, 2, -1)
    BY <1>1, <2>4, ReadCoarse, Zenon
  <2>6. (w.power <=> 1 > 0 \/ g = 10^2) /\ v = g * sign * 10^2
    BY <2>1, <2>3, <2>5, Zenon DEF CoarseUp, w, v, size, sign
  <2> HIDE DEF g
  <2> QED
    BY <1>1, <1>2, <1>3, <1>4, <2>2, <2>6, Powers, SMT DEF v, Near, TemperaturePrecise
<1>5. CASE 10000 <= size /\ size < 100000
  <2> DEFINE g == Quotient(size, d * 10^0)
  <2>1. Exponent(size, d) = 0 + 2 - 1 /\ -1 + 1 = 0
    BY <1>1, <1>2, <1>3, <1>5, ExponentOf, SMT DEF d
  <2>2. g = (size + 500) \div 1000
    BY <1>1, <1>2, <1>3, Powers, SMT DEF Quotient, d
  <2>3. g \in Nat
    BY <2>2, <1>1, SMT
  <2>4. 0 \in Nat /\ 1 \in 0 .. 3 /\ 2 \in {2, 3, 5} /\ -1 \in Int
    BY SMT
  <2>5. CoarseUp(n, d, 2, 0, 1, -1)
    BY <1>1, <2>4, ReadCoarse, Zenon
  <2>6. (w.power <=> 0 > 0 \/ g = 10^2) /\ v = g * sign * 10^1
    BY <2>1, <2>3, <2>5, Zenon DEF CoarseUp, w, v, size, sign
  <2> HIDE DEF g
  <2> QED
    BY <1>1, <1>2, <1>3, <1>5, <2>2, <2>6, Powers, SMT DEF v, Near, TemperaturePrecise
<1>6. CASE size = 0 \/ (1000 <= size /\ size < 10000)
  <2> DEFINE g == (IF d % 10^1 = 0 THEN Quotient(size, d \div 10^1) ELSE Scaled(size, d, 1))
  <2>1. Exponent(size, d) = 2 - 1 - 1 /\ -1 + 1 + 0 = 0
    BY <1>1, <1>2, <1>3, <1>6, ExponentOf, SMT DEF d
  <2>2. g = (size + 50) \div 100
    BY <1>1, <1>2, <1>3, Powers, SMT DEF Quotient, d
  <2>3. g \in Nat
    BY <2>2, <1>1, SMT
  <2>4. 1 \in Nat \ {0} /\ 0 \in 0 .. 3 /\ 2 \in {2, 3, 5} /\ -1 \in Int
    BY SMT
  <2>5. FineUp(n, d, 2, 1, 0, -1)
    BY <1>1, <2>4, ReadFineUp, Zenon
  <2>6. ~w.power /\ v = g * sign * 10^0
    BY <2>1, <2>3, <2>5, Zenon DEF FineUp, w, v, size, sign
  <2> HIDE DEF g
  <2> QED
    BY <1>1, <1>2, <1>3, <1>6, <2>2, <2>6, Powers, SMT DEF v, Near, TemperaturePrecise
<1>7. CASE 100 <= size /\ size < 1000
  <2> DEFINE g == (IF d % 10^2 = 0 THEN Quotient(size, d \div 10^2) ELSE Scaled(size, d, 2))
  <2>1. Exponent(size, d) = 2 - 1 - 2 /\ -1 + 2 = 1
    BY <1>1, <1>2, <1>3, <1>7, ExponentOf, SMT DEF d
  <2>2. g = (size + 5) \div 10
    BY <1>1, <1>2, <1>3, Powers, SMT DEF Quotient, d
  <2>3. g \in Nat
    BY <2>2, <1>1, SMT
  <2>4. 2 \in Nat \ {0} /\ 1 \in 1 .. 3 /\ (1 < 3 \/ 2 = 5) /\ 2 \in {2, 3, 5} /\ -1 \in Int
    BY SMT
  <2>5. FineDown(n, d, 2, 2, 1, -1)
    BY <1>1, <2>4, ReadFineDown, Zenon
  <2>6. ~w.power /\ v = (g * sign) \div 10^1
    BY <2>1, <2>3, <2>5, Zenon DEF FineDown, w, v, size, sign
  <2> HIDE DEF g
  <2> QED
    BY <1>1, <1>2, <1>3, <1>7, <2>2, <2>6, Powers, SMT DEF v, Near, TemperaturePrecise
<1>8. CASE 20 <= size /\ size < 100
  <2> DEFINE g == (IF d % 10^3 = 0 THEN Quotient(size, d \div 10^3) ELSE Scaled(size, d, 3))
  <2>1. Exponent(size, d) = 2 - 1 - 3 /\ -1 + 3 = 2
    BY <1>1, <1>2, <1>3, <1>8, ExponentOf, SMT DEF d
  <2>2. g = (size + 0) \div 1
    BY <1>1, <1>2, <1>3, Powers, SMT DEF Quotient, d
  <2>3. g \in Nat
    BY <2>2, <1>1, SMT
  <2>4. 3 \in Nat \ {0} /\ 2 \in 1 .. 3 /\ (2 < 3 \/ 2 = 5) /\ 2 \in {2, 3, 5} /\ -1 \in Int
    BY SMT
  <2>5. FineDown(n, d, 2, 3, 2, -1)
    BY <1>1, <2>4, ReadFineDown, Zenon
  <2>6. ~w.power /\ v = (g * sign) \div 10^2
    BY <2>1, <2>3, <2>5, Zenon DEF FineDown, w, v, size, sign
  <2> HIDE DEF g
  <2> QED
    BY <1>1, <1>2, <1>3, <1>8, <2>2, <2>6, Powers, SMT DEF v, Near, TemperaturePrecise
<1> QED
  BY <1>1, <1>2, <1>4, <1>5, <1>6, <1>7, <1>8, SMT

(* The winds (1/100 km/h) and the pressures (1/10 hPa) there are *)
WindRange(x) == x < 160927
PressureRange(x) == 3000 <= x /\ x <= 11000

(* The humidity, with two digits *)
LEMMA HumidityRead ==
  ASSUME NEW h \in Nat, h <= 100
  PROVE  HumidityPrecise(h, Written(Percent(h * 100), 2))
<1> DEFINE n == h * 100
           d == 100
           w == Written([n |-> n, d |-> d], 2)
           v == ReadAs(w, 0)
           size == Size(n)
           sign == Sign(n)
<1>0. w = Written(Percent(h * 100), 2)
  BY SMT DEF Percent
<1>1. n \in Int /\ d \in Nat \ {0} /\ size \in Nat /\ sign = 1
  BY SMT DEF Size, Sign
<1>2. n = h * 100 /\ size = n
  BY SMT DEF Size
<1>3. size = 0 => Exponent(size, d) = 0
  BY SMT DEF Exponent
<1> HIDE DEF n, d, w, size, sign, v
<1> SUFFICES HumidityPrecise(h, w)
  BY <1>0, Zenon
<1>4. CASE h < 10
  <2> DEFINE g == (IF d % 10^1 = 0 THEN Quotient(size, d \div 10^1) ELSE Scaled(size, d, 1))
  <2>1. Exponent(size, d) = 2 - 1 - 1 /\ 0 + 1 = 1
    BY <1>1, <1>2, <1>3, <1>4, ExponentOf, SMT DEF d
  <2>2. g = (size + 5) \div 10
    BY <1>1, <1>2, <1>3, Powers, SMT DEF Quotient, d
  <2>3. g \in Nat
    BY <2>2, <1>1, SMT
  <2>4. 1 \in Nat \ {0} /\ 1 \in 1 .. 3 /\ (1 < 3 \/ 2 = 5) /\ 2 \in {2, 3, 5} /\ 0 \in Int
    BY SMT
  <2>5. FineDown(n, d, 2, 1, 1, 0)
    BY <1>1, <2>4, ReadFineDown, Zenon
  <2>6. ~w.power /\ v = (g * sign) \div 10^1
    BY <2>1, <2>3, <2>5, Zenon DEF FineDown, w, v, size, sign
  <2> HIDE DEF g
  <2> QED
    BY <1>1, <1>2, <1>3, <1>4, <2>2, <2>6, Powers, SMT DEF v, Near, HumidityPrecise
<1>5. CASE 10 <= h /\ h < 100
  <2> DEFINE g == Quotient(size, d * 10^0)
  <2>1. Exponent(size, d) = 0 + 2 - 1 /\ 0 + 0 = 0
    BY <1>1, <1>2, <1>3, <1>5, ExponentOf, SMT DEF d
  <2>2. g = (size + 50) \div 100
    BY <1>1, <1>2, <1>3, Powers, SMT DEF Quotient, d
  <2>3. g \in Nat
    BY <2>2, <1>1, SMT
  <2>4. 0 \in Nat /\ 0 \in 0 .. 3 /\ 2 \in {2, 3, 5} /\ 0 \in Int
    BY SMT
  <2>5. CoarseUp(n, d, 2, 0, 0, 0)
    BY <1>1, <2>4, ReadCoarse, Zenon
  <2>6. (w.power <=> 0 > 0 \/ g = 10^2) /\ v = g * sign * 10^0
    BY <2>1, <2>3, <2>5, Zenon DEF CoarseUp, w, v, size, sign
  <2> HIDE DEF g
  <2> QED
    BY <1>1, <1>2, <1>3, <1>5, <2>2, <2>6, Powers, SMT DEF v, Near, HumidityPrecise
<1>6. CASE h = 100
  <2> DEFINE g == Quotient(size, d * 10^1)
  <2>1. Exponent(size, d) = 1 + 2 - 1 /\ 0 + 1 = 1
    BY <1>1, <1>2, <1>3, <1>6, ExponentOf, SMT DEF d
  <2>2. g = (size + 500) \div 1000
    BY <1>1, <1>2, <1>3, Powers, SMT DEF Quotient, d
  <2>3. g \in Nat
    BY <2>2, <1>1, SMT
  <2>4. 1 \in Nat /\ 1 \in 0 .. 3 /\ 2 \in {2, 3, 5} /\ 0 \in Int
    BY SMT
  <2>5. CoarseUp(n, d, 2, 1, 1, 0)
    BY <1>1, <2>4, ReadCoarse, Zenon
  <2>6. (w.power <=> 1 > 0 \/ g = 10^2) /\ v = g * sign * 10^1
    BY <2>1, <2>3, <2>5, Zenon DEF CoarseUp, w, v, size, sign
  <2> HIDE DEF g
  <2> QED
    BY <1>1, <1>2, <1>3, <1>6, <2>2, <2>6, Powers, SMT DEF v, Near, HumidityPrecise
<1> QED
  BY <1>1, <1>2, <1>4, <1>5, <1>6, SMT

(* A wind, with two digits, of less than 1000 mph *)
LEMMA WindRead ==
  ASSUME NEW x \in Nat, WindRange(x)
  PROVE  WindPrecise(x, Written(kmh2mph(x), 2))
<1> DEFINE n == 6214 * x
           d == 1000000
           w == Written([n |-> n, d |-> d], 2)
           v == ReadAs(w, -2)
           size == Size(n)
           sign == Sign(n)
<1>0. w = Written(kmh2mph(x), 2)
  BY SMT DEF kmh2mph
<1>1. n \in Int /\ d \in Nat \ {0} /\ size \in Nat /\ sign = 1
  BY SMT DEF Size, Sign
<1>2. n = 6214 * x /\ size = n /\ x < 160927
  BY SMT DEF Size, WindRange
<1>3. size = 0 => Exponent(size, d) = 0
  BY SMT DEF Exponent
<1> HIDE DEF n, d, w, size, sign, v
<1> SUFFICES WindPrecise(x, w)
  BY <1>0, Zenon
<1>4. CASE size >= 100000000
  <2> DEFINE g == Quotient(size, d * 10^1)
  <2>1. Exponent(size, d) = 1 + 2 - 1 /\ -2 + 3 = 1
    BY <1>1, <1>2, <1>3, <1>4, ExponentOf, SMT DEF d
  <2>2. g = (size + 5000000) \div 10000000
    BY <1>1, <1>2, <1>3, Powers, SMT DEF Quotient, d
  <2>3. g \in Nat
    BY <2>2, <1>1, SMT
  <2>4. 1 \in Nat /\ 3 \in 0 .. 3 /\ 2 \in {2, 3, 5} /\ -2 \in Int
    BY SMT
  <2>5. CoarseUp(n, d, 2, 1, 3, -2)
    BY <1>1, <2>4, ReadCoarse, Zenon
  <2>6. (w.power <=> 1 > 0 \/ g = 10^2) /\ v = g * sign * 10^3
    BY <2>1, <2>3, <2>5, Zenon DEF CoarseUp, w, v, size, sign
  <2> HIDE DEF g
  <2> QED
    BY <1>1, <1>2, <1>3, <1>4, <2>2, <2>6, Powers, SMT DEF v, Near, WindPrecise
<1>5. CASE 10000000 <= size /\ size < 100000000
  <2> DEFINE g == Quotient(size, d * 10^0)
  <2>1. Exponent(size, d) = 0 + 2 - 1 /\ -2 + 2 = 0
    BY <1>1, <1>2, <1>3, <1>5, ExponentOf, SMT DEF d
  <2>2. g = (size + 500000) \div 1000000
    BY <1>1, <1>2, <1>3, Powers, SMT DEF Quotient, d
  <2>3. g \in Nat
    BY <2>2, <1>1, SMT
  <2>4. 0 \in Nat /\ 2 \in 0 .. 3 /\ 2 \in {2, 3, 5} /\ -2 \in Int
    BY SMT
  <2>5. CoarseUp(n, d, 2, 0, 2, -2)
    BY <1>1, <2>4, ReadCoarse, Zenon
  <2>6. (w.power <=> 0 > 0 \/ g = 10^2) /\ v = g * sign * 10^2
    BY <2>1, <2>3, <2>5, Zenon DEF CoarseUp, w, v, size, sign
  <2> HIDE DEF g
  <2> QED
    BY <1>1, <1>2, <1>3, <1>5, <2>2, <2>6, Powers, SMT DEF v, Near, WindPrecise
<1>6. CASE size = 0 \/ (1000000 <= size /\ size < 10000000)
  <2> DEFINE g == (IF d % 10^1 = 0 THEN Quotient(size, d \div 10^1) ELSE Scaled(size, d, 1))
  <2>1. Exponent(size, d) = 2 - 1 - 1 /\ -2 + 1 + 1 = 0
    BY <1>1, <1>2, <1>3, <1>6, ExponentOf, SMT DEF d
  <2>2. g = (size + 50000) \div 100000
    BY <1>1, <1>2, <1>3, Powers, SMT DEF Quotient, d
  <2>3. g \in Nat
    BY <2>2, <1>1, SMT
  <2>4. 1 \in Nat \ {0} /\ 1 \in 0 .. 3 /\ 2 \in {2, 3, 5} /\ -2 \in Int
    BY SMT
  <2>5. FineUp(n, d, 2, 1, 1, -2)
    BY <1>1, <2>4, ReadFineUp, Zenon
  <2>6. ~w.power /\ v = g * sign * 10^1
    BY <2>1, <2>3, <2>5, Zenon DEF FineUp, w, v, size, sign
  <2> HIDE DEF g
  <2> QED
    BY <1>1, <1>2, <1>3, <1>6, <2>2, <2>6, Powers, SMT DEF v, Near, WindPrecise
<1>7. CASE 100000 <= size /\ size < 1000000
  <2> DEFINE g == (IF d % 10^2 = 0 THEN Quotient(size, d \div 10^2) ELSE Scaled(size, d, 2))
  <2>1. Exponent(size, d) = 2 - 1 - 2 /\ -2 + 2 + 0 = 0
    BY <1>1, <1>2, <1>3, <1>7, ExponentOf, SMT DEF d
  <2>2. g = (size + 5000) \div 10000
    BY <1>1, <1>2, <1>3, Powers, SMT DEF Quotient, d
  <2>3. g \in Nat
    BY <2>2, <1>1, SMT
  <2>4. 2 \in Nat \ {0} /\ 0 \in 0 .. 3 /\ 2 \in {2, 3, 5} /\ -2 \in Int
    BY SMT
  <2>5. FineUp(n, d, 2, 2, 0, -2)
    BY <1>1, <2>4, ReadFineUp, Zenon
  <2>6. ~w.power /\ v = g * sign * 10^0
    BY <2>1, <2>3, <2>5, Zenon DEF FineUp, w, v, size, sign
  <2> HIDE DEF g
  <2> QED
    BY <1>1, <1>2, <1>3, <1>7, <2>2, <2>6, Powers, SMT DEF v, Near, WindPrecise
<1>8. CASE 10000 <= size /\ size < 100000
  <2> DEFINE g == (IF d % 10^3 = 0 THEN Quotient(size, d \div 10^3) ELSE Scaled(size, d, 3))
  <2>1. Exponent(size, d) = 2 - 1 - 3 /\ -2 + 3 = 1
    BY <1>1, <1>2, <1>3, <1>8, ExponentOf, SMT DEF d
  <2>2. g = (size + 500) \div 1000
    BY <1>1, <1>2, <1>3, Powers, SMT DEF Quotient, d
  <2>3. g \in Nat
    BY <2>2, <1>1, SMT
  <2>4. 3 \in Nat \ {0} /\ 1 \in 1 .. 3 /\ (1 < 3 \/ 2 = 5) /\ 2 \in {2, 3, 5} /\ -2 \in Int
    BY SMT
  <2>5. FineDown(n, d, 2, 3, 1, -2)
    BY <1>1, <2>4, ReadFineDown, Zenon
  <2>6. ~w.power /\ v = (g * sign) \div 10^1
    BY <2>1, <2>3, <2>5, Zenon DEF FineDown, w, v, size, sign
  <2> HIDE DEF g
  <2> QED
    BY <1>1, <1>2, <1>3, <1>8, <2>2, <2>6, Powers, SMT DEF v, Near, WindPrecise
<1>9. CASE 6000 <= size /\ size < 10000
  <2> DEFINE g == (IF d % 10^4 = 0 THEN Quotient(size, d \div 10^4) ELSE Scaled(size, d, 4))
  <2>1. Exponent(size, d) = 2 - 1 - 4 /\ -2 + 4 = 2
    BY <1>1, <1>2, <1>3, <1>9, ExponentOf, SMT DEF d
  <2>2. g = (size + 50) \div 100
    BY <1>1, <1>2, <1>3, Powers, SMT DEF Quotient, d
  <2>3. g \in Nat
    BY <2>2, <1>1, SMT
  <2>4. 4 \in Nat \ {0} /\ 2 \in 1 .. 3 /\ (2 < 3 \/ 2 = 5) /\ 2 \in {2, 3, 5} /\ -2 \in Int
    BY SMT
  <2>5. FineDown(n, d, 2, 4, 2, -2)
    BY <1>1, <2>4, ReadFineDown, Zenon
  <2>6. ~w.power /\ v = (g * sign) \div 10^2
    BY <2>1, <2>3, <2>5, Zenon DEF FineDown, w, v, size, sign
  <2> HIDE DEF g
  <2> QED
    BY <1>1, <1>2, <1>3, <1>9, <2>2, <2>6, Powers, SMT DEF v, Near, WindPrecise
<1> QED
  BY <1>1, <1>2, <1>4, <1>5, <1>6, <1>7, <1>8, <1>9, SMT

(* The pressure, with three digits *)
LEMMA PressureRead ==
  ASSUME NEW x \in Nat, PressureRange(x)
  PROVE  PressurePrecise(x, Written(hPa2inHg(x * 10), 3))
<1> DEFINE n == 2953 * (x * 10)
           d == 10000000
           w == Written([n |-> n, d |-> d], 3)
           v == ReadAs(w, -2)
           size == Size(n)
           sign == Sign(n)
<1>0. w = Written(hPa2inHg(x * 10), 3)
  BY SMT DEF hPa2inHg
<1>1. n \in Int /\ d \in Nat \ {0} /\ size \in Nat /\ sign = 1
  BY SMT DEF Size, Sign
<1>2. n = 2953 * (x * 10) /\ size = n /\ 3000 <= x /\ x <= 11000
  BY SMT DEF Size, PressureRange
<1>3. size = 0 => Exponent(size, d) = 0
  BY SMT DEF Exponent
<1> HIDE DEF n, d, w, size, sign, v
<1> SUFFICES PressurePrecise(x, w)
  BY <1>0, Zenon
<1>4. CASE size >= 100000000
  <2> DEFINE g == (IF d % 10^1 = 0 THEN Quotient(size, d \div 10^1) ELSE Scaled(size, d, 1))
  <2>1. Exponent(size, d) = 3 - 1 - 1 /\ -2 + 1 + 1 = 0
    BY <1>1, <1>2, <1>3, <1>4, ExponentOf, SMT DEF d
  <2>2. g = (size + 500000) \div 1000000
    BY <1>1, <1>2, <1>3, Powers, SMT DEF Quotient, d
  <2>3. g \in Nat
    BY <2>2, <1>1, SMT
  <2>4. 1 \in Nat \ {0} /\ 1 \in 0 .. 3 /\ 3 \in {2, 3, 5} /\ -2 \in Int
    BY SMT
  <2>5. FineUp(n, d, 3, 1, 1, -2)
    BY <1>1, <2>4, ReadFineUp, Zenon
  <2>6. ~w.power /\ v = g * sign * 10^1
    BY <2>1, <2>3, <2>5, Zenon DEF FineUp, w, v, size, sign
  <2> HIDE DEF g
  <2> QED
    BY <1>1, <1>2, <1>3, <1>4, <2>2, <2>6, Powers, SMT DEF v, Near, PressurePrecise
<1>5. CASE size < 100000000
  <2> DEFINE g == (IF d % 10^2 = 0 THEN Quotient(size, d \div 10^2) ELSE Scaled(size, d, 2))
  <2>1. Exponent(size, d) = 3 - 1 - 2 /\ -2 + 2 + 0 = 0
    BY <1>1, <1>2, <1>3, <1>5, ExponentOf, SMT DEF d
  <2>2. g = (size + 50000) \div 100000
    BY <1>1, <1>2, <1>3, Powers, SMT DEF Quotient, d
  <2>3. g \in Nat
    BY <2>2, <1>1, SMT
  <2>4. 2 \in Nat \ {0} /\ 0 \in 0 .. 3 /\ 3 \in {2, 3, 5} /\ -2 \in Int
    BY SMT
  <2>5. FineUp(n, d, 3, 2, 0, -2)
    BY <1>1, <2>4, ReadFineUp, Zenon
  <2>6. ~w.power /\ v = g * sign * 10^0
    BY <2>1, <2>3, <2>5, Zenon DEF FineUp, w, v, size, sign
  <2> HIDE DEF g
  <2> QED
    BY <1>1, <1>2, <1>3, <1>5, <2>2, <2>6, Powers, SMT DEF v, Near, PressurePrecise
<1> QED
  BY <1>1, <1>2, <1>4, <1>5, SMT

(* Hundredths of millimetres in an inch, times a hundred *)
Inch == 25400

(* Inches of hundredths of millimetres, in powers of ten: the two parts    *)
(* are as near as one.                                                     *)
LEMMA ScaledNear ==
  ASSUME NEW r \in Nat, NEW d, d = Inch
  PROVE  /\ \A k \in 3 .. 7 : Scaled(r, d, k) \in Nat
         /\ LET e == 25400 * Scaled(r, d, 3) - 1000 * r IN -12700 <= e /\ e <= 12700
         /\ LET e == 25400 * Scaled(r, d, 4) - 10000 * r IN -12700 <= e /\ e <= 12700
         /\ LET e == 25400 * Scaled(r, d, 5) - 100000 * r IN -12700 <= e /\ e <= 12700
         /\ LET e == 25400 * Scaled(r, d, 6) - 1000000 * r IN -12700 <= e /\ e <= 12700
         /\ LET e == 25400 * Scaled(r, d, 7) - 10000000 * r IN -12700 <= e /\ e <= 12700
<1>3. /\ Scaled(r, d, 3) \in Nat
      /\ LET e == 25400 * Scaled(r, d, 3) - 1000 * r IN -12700 <= e /\ e <= 12700
  <2> DEFINE whole == r * 10^3
             high == whole \div d
             low == (whole % d) * 10^0
  <2>1. Scaled(r, d, 3) = high * 10^0 + Quotient(low, d)
    <3>1. (3 <= 4) /\ 3 - 3 = 0
      BY SMT
    <3> QED
      BY <3>1, Zenon DEF Scaled
  <2>2. whole \in Nat /\ whole = 1000 * r
    BY Powers, SMT
  <2> HIDE DEF whole
  <2>3. /\ high \in Nat /\ whole % d \in Nat /\ d = 25400
        /\ whole = 25400 * high + (whole % d)
    BY <2>2, SMT DEF Inch
  <2>4. low = 1 * (whole % d) /\ low \in Nat
    BY <2>3, Powers, SMT
  <2>5. Quotient(low, d) = (low + 12700) \div 25400
    BY <2>3, <2>4, SMT DEF Quotient
  <2> DEFINE q == (low + 12700) \div 25400
  <2>6. q \in Nat /\ -12700 <= 25400 * q - low /\ 25400 * q - low <= 12700
    BY <2>4, SMT
  <2>7. Scaled(r, d, 3) = 1 * high + q
    BY <2>1, <2>3, <2>5, <2>6, Powers, SMT
  <2> HIDE DEF q, high, low
  <2> QED
    BY <2>2, <2>3, <2>4, <2>6, <2>7, SMT
<1>4. /\ Scaled(r, d, 4) \in Nat
      /\ LET e == 25400 * Scaled(r, d, 4) - 10000 * r IN -12700 <= e /\ e <= 12700
  <2> DEFINE whole == r * 10^4
             high == whole \div d
             low == (whole % d) * 10^0
  <2>1. Scaled(r, d, 4) = high * 10^0 + Quotient(low, d)
    <3>1. (4 <= 4) /\ 4 - 4 = 0
      BY SMT
    <3> QED
      BY <3>1, Zenon DEF Scaled
  <2>2. whole \in Nat /\ whole = 10000 * r
    BY Powers, SMT
  <2> HIDE DEF whole
  <2>3. /\ high \in Nat /\ whole % d \in Nat /\ d = 25400
        /\ whole = 25400 * high + (whole % d)
    BY <2>2, SMT DEF Inch
  <2>4. low = 1 * (whole % d) /\ low \in Nat
    BY <2>3, Powers, SMT
  <2>5. Quotient(low, d) = (low + 12700) \div 25400
    BY <2>3, <2>4, SMT DEF Quotient
  <2> DEFINE q == (low + 12700) \div 25400
  <2>6. q \in Nat /\ -12700 <= 25400 * q - low /\ 25400 * q - low <= 12700
    BY <2>4, SMT
  <2>7. Scaled(r, d, 4) = 1 * high + q
    BY <2>1, <2>3, <2>5, <2>6, Powers, SMT
  <2> HIDE DEF q, high, low
  <2> QED
    BY <2>2, <2>3, <2>4, <2>6, <2>7, SMT
<1>5. /\ Scaled(r, d, 5) \in Nat
      /\ LET e == 25400 * Scaled(r, d, 5) - 100000 * r IN -12700 <= e /\ e <= 12700
  <2> DEFINE whole == r * 10^4
             high == whole \div d
             low == (whole % d) * 10^1
  <2>1. Scaled(r, d, 5) = high * 10^1 + Quotient(low, d)
    <3>1. ~(5 <= 4) /\ 5 - 4 = 1
      BY SMT
    <3> QED
      BY <3>1, Zenon DEF Scaled
  <2>2. whole \in Nat /\ whole = 10000 * r
    BY Powers, SMT
  <2> HIDE DEF whole
  <2>3. /\ high \in Nat /\ whole % d \in Nat /\ d = 25400
        /\ whole = 25400 * high + (whole % d)
    BY <2>2, SMT DEF Inch
  <2>4. low = 10 * (whole % d) /\ low \in Nat
    BY <2>3, Powers, SMT
  <2>5. Quotient(low, d) = (low + 12700) \div 25400
    BY <2>3, <2>4, SMT DEF Quotient
  <2> DEFINE q == (low + 12700) \div 25400
  <2>6. q \in Nat /\ -12700 <= 25400 * q - low /\ 25400 * q - low <= 12700
    BY <2>4, SMT
  <2>7. Scaled(r, d, 5) = 10 * high + q
    BY <2>1, <2>3, <2>5, <2>6, Powers, SMT
  <2> HIDE DEF q, high, low
  <2> QED
    BY <2>2, <2>3, <2>4, <2>6, <2>7, SMT
<1>6. /\ Scaled(r, d, 6) \in Nat
      /\ LET e == 25400 * Scaled(r, d, 6) - 1000000 * r IN -12700 <= e /\ e <= 12700
  <2> DEFINE whole == r * 10^4
             high == whole \div d
             low == (whole % d) * 10^2
  <2>1. Scaled(r, d, 6) = high * 10^2 + Quotient(low, d)
    <3>1. ~(6 <= 4) /\ 6 - 4 = 2
      BY SMT
    <3> QED
      BY <3>1, Zenon DEF Scaled
  <2>2. whole \in Nat /\ whole = 10000 * r
    BY Powers, SMT
  <2> HIDE DEF whole
  <2>3. /\ high \in Nat /\ whole % d \in Nat /\ d = 25400
        /\ whole = 25400 * high + (whole % d)
    BY <2>2, SMT DEF Inch
  <2>4. low = 100 * (whole % d) /\ low \in Nat
    BY <2>3, Powers, SMT
  <2>5. Quotient(low, d) = (low + 12700) \div 25400
    BY <2>3, <2>4, SMT DEF Quotient
  <2> DEFINE q == (low + 12700) \div 25400
  <2>6. q \in Nat /\ -12700 <= 25400 * q - low /\ 25400 * q - low <= 12700
    BY <2>4, SMT
  <2>7. Scaled(r, d, 6) = 100 * high + q
    BY <2>1, <2>3, <2>5, <2>6, Powers, SMT
  <2> HIDE DEF q, high, low
  <2> QED
    BY <2>2, <2>3, <2>4, <2>6, <2>7, SMT
<1>7. /\ Scaled(r, d, 7) \in Nat
      /\ LET e == 25400 * Scaled(r, d, 7) - 10000000 * r IN -12700 <= e /\ e <= 12700
  <2> DEFINE whole == r * 10^4
             high == whole \div d
             low == (whole % d) * 10^3
  <2>1. Scaled(r, d, 7) = high * 10^3 + Quotient(low, d)
    <3>1. ~(7 <= 4) /\ 7 - 4 = 3
      BY SMT
    <3> QED
      BY <3>1, Zenon DEF Scaled
  <2>2. whole \in Nat /\ whole = 10000 * r
    BY Powers, SMT
  <2> HIDE DEF whole
  <2>3. /\ high \in Nat /\ whole % d \in Nat /\ d = 25400
        /\ whole = 25400 * high + (whole % d)
    BY <2>2, SMT DEF Inch
  <2>4. low = 1000 * (whole % d) /\ low \in Nat
    BY <2>3, Powers, SMT
  <2>5. Quotient(low, d) = (low + 12700) \div 25400
    BY <2>3, <2>4, SMT DEF Quotient
  <2> DEFINE q == (low + 12700) \div 25400
  <2>6. q \in Nat /\ -12700 <= 25400 * q - low /\ 25400 * q - low <= 12700
    BY <2>4, SMT
  <2>7. Scaled(r, d, 7) = 1000 * high + q
    BY <2>1, <2>3, <2>5, <2>6, Powers, SMT
  <2> HIDE DEF q, high, low
  <2> QED
    BY <2>2, <2>3, <2>4, <2>6, <2>7, SMT
<1>8. ASSUME NEW k \in 3 .. 7 PROVE Scaled(r, d, k) \in Nat
  <2>1. k = 3 \/ k = 4 \/ k = 5 \/ k = 6 \/ k = 7
    BY SMT
  <2> QED
    BY <1>3, <1>4, <1>5, <1>6, <1>7, <2>1, SMT
<1> QED
  BY <1>3, <1>4, <1>5, <1>6, <1>7, <1>8, SMT

(* The rain, with five digits, of 1 mm or more *)
LEMMA RainRead ==
  ASSUME NEW r \in Nat, r = 0 \/ r >= 100
  PROVE  RainPrecise(r, Written(mm2in(r), 5))
<1> DEFINE n == r
           d == 25400
           w == Written([n |-> n, d |-> d], 5)
           v == ReadAs(w, -4)
           size == Size(n)
           sign == Sign(n)
<1>0. w = Written(mm2in(r), 5)
  BY SMT DEF mm2in
<1>1. n \in Int /\ d \in Nat \ {0} /\ size \in Nat /\ sign = 1
  BY SMT DEF Size, Sign
<1>2. n = r /\ size = n /\ (r = 0 \/ r >= 100)
  BY SMT DEF Size
<1>3. size = 0 => Exponent(size, d) = 0
  BY SMT DEF Exponent
<1> HIDE DEF n, d, w, size, sign, v
<1> SUFFICES RainPrecise(r, w)
  BY <1>0, Zenon
<1>4. CASE size >= 2540000
  <2> DEFINE g == (IF d % 10^2 = 0 THEN Quotient(size, d \div 10^2) ELSE Scaled(size, d, 2))
  <2>1. Exponent(size, d) = 5 - 1 - 2 /\ -4 + 2 + 2 = 0
    BY <1>1, <1>2, <1>3, <1>4, ExponentOf, SMT DEF d
  <2>2. g = (size + 127) \div 254
    BY <1>1, <1>2, <1>3, Powers, SMT DEF Quotient, d
  <2>3. g \in Nat
    BY <2>2, <1>1, SMT
  <2>4. 2 \in Nat \ {0} /\ 2 \in 0 .. 3 /\ 5 \in {2, 3, 5} /\ -4 \in Int
    BY SMT
  <2>5. FineUp(n, d, 5, 2, 2, -4)
    BY <1>1, <2>4, ReadFineUp, Zenon
  <2>6. ~w.power /\ v = g * sign * 10^2
    BY <2>1, <2>3, <2>5, Zenon DEF FineUp, w, v, size, sign
  <2> HIDE DEF g
  <2> QED
    BY <1>1, <1>2, <1>3, <1>4, <2>2, <2>6, Powers, SMT DEF v, Near, RainPrecise
<1>5. CASE 254000 <= size /\ size < 2540000
  <2> DEFINE g == (IF d % 10^3 = 0 THEN Quotient(size, d \div 10^3) ELSE Scaled(size, d, 3))
  <2>1. Exponent(size, d) = 5 - 1 - 3 /\ -4 + 3 + 1 = 0
    BY <1>1, <1>2, <1>3, <1>5, ExponentOf, SMT DEF d
  <2>2. /\ LET e == 25400 * g - 1000 * size IN -12700 <= e /\ e <= 12700
        /\ g = Scaled(size, d, 3) /\ g \in Nat
    <3>1. 3 \in 3 .. 7 /\ size \in Nat /\ d = Inch /\ d % 10^3 # 0
      BY <1>1, Powers, SMT DEF d, Inch
    <3>2. g = Scaled(size, d, 3)
      BY <3>1, Zenon
    <3> HIDE DEF g
    <3> QED
      BY <3>1, <3>2, ScaledNear, SMT
  <2>3. g \in Nat
    BY <2>2
  <2>4. 3 \in Nat \ {0} /\ 1 \in 0 .. 3 /\ 5 \in {2, 3, 5} /\ -4 \in Int
    BY SMT
  <2>5. FineUp(n, d, 5, 3, 1, -4)
    BY <1>1, <2>4, ReadFineUp, Zenon
  <2>6. ~w.power /\ v = g * sign * 10^1
    BY <2>1, <2>3, <2>5, Zenon DEF FineUp, w, v, size, sign
  <2> HIDE DEF g
  <2> QED
    BY <1>1, <1>2, <1>3, <1>5, <2>2, <2>6, Powers, SMT DEF v, Near, RainPrecise
<1>6. CASE size = 0 \/ (25400 <= size /\ size < 254000)
  <2> DEFINE g == (IF d % 10^4 = 0 THEN Quotient(size, d \div 10^4) ELSE Scaled(size, d, 4))
  <2>1. Exponent(size, d) = 5 - 1 - 4 /\ -4 + 4 + 0 = 0
    BY <1>1, <1>2, <1>3, <1>6, ExponentOf, SMT DEF d
  <2>2. /\ LET e == 25400 * g - 10000 * size IN -12700 <= e /\ e <= 12700
        /\ g = Scaled(size, d, 4) /\ g \in Nat
    <3>1. 4 \in 3 .. 7 /\ size \in Nat /\ d = Inch /\ d % 10^4 # 0
      BY <1>1, Powers, SMT DEF d, Inch
    <3>2. g = Scaled(size, d, 4)
      BY <3>1, Zenon
    <3> HIDE DEF g
    <3> QED
      BY <3>1, <3>2, ScaledNear, SMT
  <2>3. g \in Nat
    BY <2>2
  <2>4. 4 \in Nat \ {0} /\ 0 \in 0 .. 3 /\ 5 \in {2, 3, 5} /\ -4 \in Int
    BY SMT
  <2>5. FineUp(n, d, 5, 4, 0, -4)
    BY <1>1, <2>4, ReadFineUp, Zenon
  <2>6. ~w.power /\ v = g * sign * 10^0
    BY <2>1, <2>3, <2>5, Zenon DEF FineUp, w, v, size, sign
  <2> HIDE DEF g
  <2> QED
    BY <1>1, <1>2, <1>3, <1>6, <2>2, <2>6, Powers, SMT DEF v, Near, RainPrecise
<1>7. CASE 2540 <= size /\ size < 25400
  <2> DEFINE g == (IF d % 10^5 = 0 THEN Quotient(size, d \div 10^5) ELSE Scaled(size, d, 5))
  <2>1. Exponent(size, d) = 5 - 1 - 5 /\ -4 + 5 = 1
    BY <1>1, <1>2, <1>3, <1>7, ExponentOf, SMT DEF d
  <2>2. /\ LET e == 25400 * g - 100000 * size IN -12700 <= e /\ e <= 12700
        /\ g = Scaled(size, d, 5) /\ g \in Nat
    <3>1. 5 \in 3 .. 7 /\ size \in Nat /\ d = Inch /\ d % 10^5 # 0
      BY <1>1, Powers, SMT DEF d, Inch
    <3>2. g = Scaled(size, d, 5)
      BY <3>1, Zenon
    <3> HIDE DEF g
    <3> QED
      BY <3>1, <3>2, ScaledNear, SMT
  <2>3. g \in Nat
    BY <2>2
  <2>4. 5 \in Nat \ {0} /\ 1 \in 1 .. 3 /\ (1 < 3 \/ 5 = 5) /\ 5 \in {2, 3, 5} /\ -4 \in Int
    BY SMT
  <2>5. FineDown(n, d, 5, 5, 1, -4)
    BY <1>1, <2>4, ReadFineDown, Zenon
  <2>6. ~w.power /\ v = (g * sign) \div 10^1
    BY <2>1, <2>3, <2>5, Zenon DEF FineDown, w, v, size, sign
  <2> HIDE DEF g
  <2> QED
    BY <1>1, <1>2, <1>3, <1>7, <2>2, <2>6, Powers, SMT DEF v, Near, RainPrecise
<1>8. CASE 254 <= size /\ size < 2540
  <2> DEFINE g == (IF d % 10^6 = 0 THEN Quotient(size, d \div 10^6) ELSE Scaled(size, d, 6))
  <2>1. Exponent(size, d) = 5 - 1 - 6 /\ -4 + 6 = 2
    BY <1>1, <1>2, <1>3, <1>8, ExponentOf, SMT DEF d
  <2>2. /\ LET e == 25400 * g - 1000000 * size IN -12700 <= e /\ e <= 12700
        /\ g = Scaled(size, d, 6) /\ g \in Nat
    <3>1. 6 \in 3 .. 7 /\ size \in Nat /\ d = Inch /\ d % 10^6 # 0
      BY <1>1, Powers, SMT DEF d, Inch
    <3>2. g = Scaled(size, d, 6)
      BY <3>1, Zenon
    <3> HIDE DEF g
    <3> QED
      BY <3>1, <3>2, ScaledNear, SMT
  <2>3. g \in Nat
    BY <2>2
  <2>4. 6 \in Nat \ {0} /\ 2 \in 1 .. 3 /\ (2 < 3 \/ 5 = 5) /\ 5 \in {2, 3, 5} /\ -4 \in Int
    BY SMT
  <2>5. FineDown(n, d, 5, 6, 2, -4)
    BY <1>1, <2>4, ReadFineDown, Zenon
  <2>6. ~w.power /\ v = (g * sign) \div 10^2
    BY <2>1, <2>3, <2>5, Zenon DEF FineDown, w, v, size, sign
  <2> HIDE DEF g
  <2> QED
    BY <1>1, <1>2, <1>3, <1>8, <2>2, <2>6, Powers, SMT DEF v, Near, RainPrecise
<1>9. CASE 26 <= size /\ size < 254
  <2> DEFINE g == (IF d % 10^7 = 0 THEN Quotient(size, d \div 10^7) ELSE Scaled(size, d, 7))
  <2>1. Exponent(size, d) = 5 - 1 - 7 /\ -4 + 7 = 3
    BY <1>1, <1>2, <1>3, <1>9, ExponentOf, SMT DEF d
  <2>2. /\ LET e == 25400 * g - 10000000 * size IN -12700 <= e /\ e <= 12700
        /\ g = Scaled(size, d, 7) /\ g \in Nat
    <3>1. 7 \in 3 .. 7 /\ size \in Nat /\ d = Inch /\ d % 10^7 # 0
      BY <1>1, Powers, SMT DEF d, Inch
    <3>2. g = Scaled(size, d, 7)
      BY <3>1, Zenon
    <3> HIDE DEF g
    <3> QED
      BY <3>1, <3>2, ScaledNear, SMT
  <2>3. g \in Nat
    BY <2>2
  <2>4. 7 \in Nat \ {0} /\ 3 \in 1 .. 3 /\ (3 < 3 \/ 5 = 5) /\ 5 \in {2, 3, 5} /\ -4 \in Int
    BY SMT
  <2>5. FineDown(n, d, 5, 7, 3, -4)
    BY <1>1, <2>4, ReadFineDown, Zenon
  <2>6. ~w.power /\ v = (g * sign) \div 10^3
    BY <2>1, <2>3, <2>5, Zenon DEF FineDown, w, v, size, sign
  <2> HIDE DEF g
  <2> QED
    BY <1>1, <1>2, <1>3, <1>9, <2>2, <2>6, Powers, SMT DEF v, Near, RainPrecise
<1> QED
  BY <1>1, <1>2, <1>4, <1>5, <1>6, <1>7, <1>8, <1>9, SMT

-----------------------------------------------------------------------------
(* The cloud service gets what was measured.                               *)

(* The samples are of weather that there is. *)
PlausibleReadings == \A t \in Types : \A m \in Samples[t] : Plausible(t, m)

(* What is measured of such weather is in the ranges of its numbers. *)
LEMMA PhysicalInRange ==
  ASSUME type \in ReadTypes, NEW m, Plausible(type, m),
         m.temp \in Int, \A q \in Quantity \ {"temp"} : m[q] \in Nat
  PROVE  /\ Physical(m, "temp") = m.temp * 10
         /\ Physical(m, "humid") = m.humid * 100 /\ (m.humid # Lost => m.humid <= 100)
         /\ Physical(m, "pressure") = m.pressure * 10
         /\ m.pressure # Lost => PressureRange(m.pressure)
         /\ \A q \in {"wind", "gust"} : m[q] # Lost =>
              Physical(m, q) \in Nat /\ WindRange(Physical(m, q))
<1> DEFINE unit == CASE type = "freetec" -> 38 [] type = "ws980" -> 36 [] OTHER -> 10
<1>1. ASSUME NEW q \in {"wind", "gust"}, m[q] # Lost
      PROVE  Physical(m, q) \in Nat /\ WindRange(Physical(m, q))
  <2>1. m[q] \in Nat /\ m[q] * unit < 160000
    BY <1>1 DEF Plausible, Quantity
  <2>2. Physical(m, q) = m[q] * unit
    BY DEF Physical
  <2>3. m[q] * unit \in Nat
    BY <2>1
  <2> QED
    BY <2>1, <2>2, <2>3, SMT DEF WindRange
<1>2. /\ Physical(m, "temp") = m.temp * 10 /\ Physical(m, "humid") = m.humid * 100
      /\ Physical(m, "pressure") = m.pressure * 10
  BY DEF Physical
<1>3. m.humid # Lost => m.humid <= 100
  BY DEF Plausible
<1>4. m.pressure # Lost => PressureRange(m.pressure)
  BY SMT DEF Plausible, PressureRange, Quantity
<1> QED
  BY <1>1, <1>2, <1>3, <1>4

(* The rain of a day is that of its rows, and of as many tips of the gauge *)
(* at least.                                                               *)
LEMMA RainOfDay ==
  ASSUME DataInv, NEW t \in DOMAIN table
  PROVE  LET rain == Aggregate(DayOf(t)).rain
             n == Cardinality(RowsOf(DayOf(t)))
         IN  /\ n \in Nat \ {0}
             /\ ~Has(type, "rain") => rain = {}
             /\ Has(type, "rain") => rain = {n * RainGaugeFactor(type)}
<1> DEFINE d == DayOf(t)
           n == Cardinality(RowsOf(d))
<1>1. n \in Nat \ {0}
  <2>1. IsFiniteSet(RowsOf(d)) /\ t \in RowsOf(d)
    BY ValuesAreFinite DEF Quantity, RowsOf
  <2> QED
    BY <2>1, FS_CardinalityType, FS_EmptySet
<1>2. Aggregate(d).rain = { n * v : v \in ValuesOf("rain", d) }
  BY DEF Aggregate, ValuesOf
<1>3. ASSUME NEW u \in DOMAIN table
      PROVE  table[u].rain = IF Has(type, "rain") THEN {RainGaugeFactor(type)} ELSE {}
  <2>1. Sound(measured[u]) /\ table[u] = Row(Decode(type, measured[u]))
    BY DEF DataInv, RowsDecoded
  <2>2. Measurable(type, measured[u]) /\ type \in SensorType
    BY <2>1, SoundIsMeasurable DEF DataInv, WeatherTypeOK
  <2> QED
    BY <2>1, <2>2, RowColumns DEF Quantity
<1>4. ValuesOf("rain", d) = IF Has(type, "rain") THEN {RainGaugeFactor(type)} ELSE {}
  <2>1. t \in RowsOf(d) /\ \A u \in RowsOf(d) : u \in DOMAIN table
    BY DEF RowsOf
  <2> QED
    BY <1>3, <2>1 DEF ValuesOf
<1> QED
  BY <1>1, <1>2, <1>4

(* When the reports are made, the CurrentWeather is that of the row of     *)
(* what was measured, whose decoding is exact.                             *)
LEMMA AllPrecise ==
  ASSUME UploadInv, PublishInv, type \in ReadTypes, PlausibleReadings, pc = "reports"
  PROVE  UploadedPrecisely
<1> DEFINE L == LatestStamp
           m == measured[uploaded.stamp]
           c == Decode(type, m)
           u == Url(uploaded)
<1>1. /\ WeatherTypeOK /\ DataInv /\ type \in Types /\ ts \in DOMAIN table /\ CopyOfRow(uploaded)
      /\ ts \in Nat /\ backs \in Nat
      /\ \A t \in DOMAIN table : t \in Nat /\ t <= ts + backs /\ DayOf(t) <= DayOf(ts)
  BY TimesAreNumbers
     DEF UploadInv, PublishInv, DataInv, WeatherTypeOK, RowsDecoded, ClockInv
<1>2. L \in DOMAIN table /\ ts <= L
  BY <1>1, LatestRow DEF WeatherTypeOK
<1>3. DayOf(L) = DayOf(ts)
  BY <1>1, <1>2, DayOfTime
<1>4. /\ uploaded = Weather(L, DayOf(L))
      /\ DayOf(L) \in DOMAIN stats /\ stats[DayOf(L)] = Aggregate(DayOf(L))
  BY <1>3 DEF UploadInv, DayAggregated
<1>5. uploaded.stamp = L /\ uploaded.column.rain = Aggregate(DayOf(L)).rain
  BY <1>4, WeatherColumns
<1>6. /\ Sound(m) /\ Measurable(type, m) /\ uploaded.temp = c.temp
      /\ \A q \in Quantity \ {"temp", "rain"} :
           uploaded.column[q] = IF Has(type, q) THEN {c[q]} ELSE {}
  <2>1. L # None
    BY <1>1, <1>2 DEF None
  <2> QED
    BY <1>1, <1>5, <2>1, PublishedColumns
<1>7. m.temp \in Int /\ \A q \in Quantity \ {"temp"} : m[q] \in Nat
  BY <1>6, MeasuredNumbers
<1>8. Plausible(type, m)
  BY <1>1, <1>6 DEF PlausibleReadings, Sound
<1>9. ASSUME NEW q \in {"humid", "wind", "gust", "dir", "pressure"}
      PROVE  /\ uploaded.column[q] # {} <=> Has(type, q)
             /\ m[q] # Lost => \A v \in uploaded.column[q] : v = Physical(m, q)
  <2>1. Has(type, q) /\ m[q] # Lost => c[q] = Physical(m, q)
    BY <1>1, <1>6, DecodingExact
  <2>2. uploaded.column[q] = IF Has(type, q) THEN {c[q]} ELSE {}
    BY <1>6 DEF Quantity
  <2> QED
    BY <2>1, <2>2
<1>10. m.temp # Lost => /\ m.temp >= -500 /\ m.temp <= 699 /\ uploaded.temp = m.temp * 10
  <2>1. Has(type, "temp") /\ Physical(m, "temp") = m.temp * 10
    BY DEF Has, Sensors, Physical, ReadTypes, SensorType
  <2> QED
    BY <1>1, <1>6, <2>1, DecodingExact
<1>11. /\ u.tempf = {Written(celsius2Fahrenheit(uploaded.temp), 2)}
       /\ u.humidity = { Written(Percent(v), 2) : v \in uploaded.column.humid }
       /\ u.windspeedmph = { Written(kmh2mph(v), 2) : v \in uploaded.column.wind }
       /\ u.winddir = uploaded.column.dir
       /\ u.windgustmph = { Written(kmh2mph(v), 2) : v \in uploaded.column.gust }
       /\ u.dailyrainin = { Written(mm2in(v), 5) : v \in uploaded.column.rain }
       /\ u.baromin = { Written(hPa2inHg(v), 3) : v \in uploaded.column.pressure }
  BY DEF Url, OtherDigits, RainDigits, PressureDigits, temperatureRealF, humidityReal,
         windSpeedRealMph, windGustRealMph, rainRealIn, pressureRealIn
<1>12. /\ ~Has(type, "rain") => uploaded.column.rain = {}
       /\ Has(type, "rain") => uploaded.column.rain # {}
       /\ \A r \in uploaded.column.rain : r \in Nat /\ r >= 100
  <2>1. PICK n \in Nat \ {0} :
          /\ ~Has(type, "rain") => uploaded.column.rain = {}
          /\ Has(type, "rain") => uploaded.column.rain = {n * RainGaugeFactor(type)}
    BY <1>1, <1>2, <1>5, RainOfDay
  <2>2. n * RainGaugeFactor(type) \in Nat /\ n * RainGaugeFactor(type) >= 100
    <3>1. RainGaugeFactor(type) \in {300, 100, 295}
      BY DEF RainGaugeFactor
    <3> QED
      BY <3>1, SMT
  <2> QED
    BY <2>1, <2>2
<1> HIDE DEF L, m, u, c
<1>13. ASSUME NEW q \in DOMAIN Keys(u) PROVE Keys(u)[q] # {} <=> Has(type, q)
  <2>1. /\ u.humidity # {} <=> Has(type, "humid")
        /\ u.windspeedmph # {} <=> Has(type, "wind")
        /\ u.winddir # {} <=> Has(type, "dir")
        /\ u.windgustmph # {} <=> Has(type, "gust")
        /\ u.dailyrainin # {} <=> Has(type, "rain")
        /\ u.baromin # {} <=> Has(type, "pressure")
    BY <1>9, <1>11, <1>12
  <2> QED
    BY <2>1 DEF Keys
<1>14. m.dir # Lost => \A v \in u.winddir : v = Physical(m, "dir")
  BY <1>9, <1>11
<1>15. ASSUME m.temp # Lost, NEW t \in u.tempf
       PROVE  TemperaturePrecise(m.temp, t)
  BY <1>7, <1>10, <1>11, <1>15, TemperatureRead
<1>16. ASSUME m.humid # Lost, NEW h \in u.humidity
       PROVE  HumidityPrecise(m.humid, h)
  <2>1. h = Written(Percent(m.humid * 100), 2) /\ m.humid <= 100 /\ m.humid \in Nat
    <3>1. PICK v \in uploaded.column.humid : h = Written(Percent(v), 2)
      BY <1>11, <1>16
    <3>2. v = m.humid * 100 /\ m.humid <= 100
      BY <1>7, <1>8, <1>9, <1>16, <3>1, PhysicalInRange
    <3>3. m.humid \in Nat
      BY <1>7 DEF Quantity
    <3> QED
      BY <3>1, <3>2, <3>3
  <2> QED
    BY <2>1, HumidityRead
<1>17. ASSUME NEW q \in {"wind", "gust"}, m[q] # Lost,
              NEW v \in uploaded.column[q], NEW x, x = Written(kmh2mph(v), 2)
       PROVE  WindPrecise(Physical(m, q), x)
  <2>1. v = Physical(m, q)
    BY <1>9, <1>17
  <2>2. Physical(m, q) \in Nat /\ WindRange(Physical(m, q))
    BY <1>7, <1>8, <1>17, PhysicalInRange
  <2> QED
    BY <1>17, <2>1, <2>2, WindRead, Zenon
<1>20. /\ m.wind # Lost => \A x \in u.windspeedmph : WindPrecise(Physical(m, "wind"), x)
       /\ m.gust # Lost => \A x \in u.windgustmph : WindPrecise(Physical(m, "gust"), x)
  BY <1>11, <1>17
<1>18. ASSUME NEW x \in u.dailyrainin, NEW r \in uploaded.column.rain
       PROVE  RainPrecise(r, x)
  <2>1. uploaded.column.rain = {r}
    <3>1. \E s : uploaded.column.rain \subseteq {s}
      BY <1>1, <1>2, <1>5, RainOfDay
    <3> QED
      BY <3>1
  <2>2. x = Written(mm2in(r), 5)
    BY <1>11, <2>1
  <2> QED
    BY <1>12, <2>2, RainRead
<1>19. ASSUME m.pressure # Lost, NEW x \in u.baromin
       PROVE  PressurePrecise(m.pressure, x)
  <2>1. PICK v \in uploaded.column.pressure : x = Written(hPa2inHg(v), 3)
    BY <1>11, <1>19
  <2>2. v = m.pressure * 10 /\ PressureRange(m.pressure)
    BY <1>7, <1>8, <1>9, <1>19, <2>1, PhysicalInRange
  <2>3. m.pressure \in Nat
    BY <1>7 DEF Quantity
  <2> QED
    BY <2>1, <2>2, <2>3, PressureRead, Zenon
<1>21. m.temp # Lost => \A x \in u.tempf : TemperaturePrecise(m.temp, x)
  BY <1>15, Zenon
<1>22. m.humid # Lost => \A x \in u.humidity : HumidityPrecise(m.humid, x)
  BY <1>16, Zenon
<1>23. \A x \in u.dailyrainin : \A r \in uploaded.column.rain : RainPrecise(r, x)
  BY <1>18, Zenon
<1>24. m.pressure # Lost => \A x \in u.baromin : PressurePrecise(m.pressure, x)
  BY <1>19, Zenon
<1>25. \A q \in DOMAIN Keys(u) : Keys(u)[q] # {} <=> Has(type, q)
  BY <1>13, Zenon
<1>26. /\ m.dir # Lost => \A v \in u.winddir : v = Physical(m, "dir")
       /\ m.temp # Lost => \A x \in u.tempf : TemperaturePrecise(m.temp, x)
       /\ m.humid # Lost => \A x \in u.humidity : HumidityPrecise(m.humid, x)
       /\ m.wind # Lost => \A x \in u.windspeedmph : WindPrecise(Physical(m, "wind"), x)
       /\ m.gust # Lost => \A x \in u.windgustmph : WindPrecise(Physical(m, "gust"), x)
       /\ \A x \in u.dailyrainin : \A r \in uploaded.column.rain : RainPrecise(r, x)
       /\ m.pressure # Lost => \A x \in u.baromin : PressurePrecise(m.pressure, x)
  BY <1>14, <1>20, <1>21, <1>22, <1>23, <1>24, Zenon
<1> QED
  BY <1>25, <1>26, Zenon DEF UploadedPrecisely, m, u

(* The service gets the quantities that the station measures, and reads of *)
(* each a number near to what was measured, at every size a quantity can   *)
(* have: below zero, near to a power of ten and above the two digits       *)
(* (clouduploader.cc:48-178, weather.cc:63-113).                           *)
THEOREM UploadedPreciselyHolds ==
  ASSUME Types \subseteq ReadTypes, PlausibleReadings
  PROVE  WeatherSpec => []UploadedPrecisely
<1> DEFINE Inv == UploadInv /\ PublishInv
<1>1. WeatherInit => Inv
  BY DataInit, PublishInit DEF UploadInv, ClockInv, DayAggregated, WeatherInit
<1>2. Inv /\ [WeatherNext]_vars => Inv'
  BY DataStep, ClockStep, AggregatedStep, PublishStep DEF UploadInv
<1>3. Inv => UploadedPrecisely
  <2> SUFFICES ASSUME Inv, pc = "reports" PROVE UploadedPrecisely
    BY DEF UploadedPrecisely
  <2>1. type \in ReadTypes
    BY DEF UploadInv, DataInv, WeatherTypeOK
  <2> QED
    BY <2>1, AllPrecise
<1> QED
  BY <1>1, <1>2, <1>3, PTL DEF WeatherSpec

-----------------------------------------------------------------------------
(* What is shown is legible: how long numbers are.                         *)

(* How many digits a number has *)
LEMMA DigitsAre ==
  ASSUME NEW n \in Nat, NEW k \in 1 .. 10, n < 10^k, k = 1 \/ n >= 10^(k - 1)
  PROVE  Digits(n) = k
<1> DEFINE ten == [j \in 0 .. 10 |-> 10^j]
           Has10(j) == n < 10^j /\ (j = 1 \/ n >= 10^(j - 1))
<1>1. /\ ten[0] = 1 /\ ten[1] = 10 /\ ten[2] = 100 /\ ten[3] = 1000 /\ ten[4] = 10000
      /\ ten[5] = 100000 /\ ten[6] = 1000000 /\ ten[7] = 10000000 /\ ten[8] = 100000000
      /\ ten[9] = 1000000000 /\ ten[10] = 10000000000
  <2>1. \A j \in 0 .. 10 : ten[j] = 10^j
    OBVIOUS
  <2>2. /\ 0 \in 0 .. 10 /\ 1 \in 0 .. 10 /\ 2 \in 0 .. 10 /\ 3 \in 0 .. 10 /\ 4 \in 0 .. 10
        /\ 5 \in 0 .. 10 /\ 6 \in 0 .. 10 /\ 7 \in 0 .. 10 /\ 8 \in 0 .. 10 /\ 9 \in 0 .. 10
        /\ 10 \in 0 .. 10
    BY SMT
  <2> HIDE DEF ten
  <2>3. /\ ten[0] = 10^0 /\ ten[1] = 10^1 /\ ten[2] = 10^2 /\ ten[3] = 10^3 /\ ten[4] = 10^4
        /\ ten[5] = 10^5 /\ ten[6] = 10^6 /\ ten[7] = 10^7 /\ ten[8] = 10^8 /\ ten[9] = 10^9
        /\ ten[10] = 10^10
    BY <2>1, <2>2, Zenon
  <2> QED
    BY <2>3, Powers, SMT
<1>2. ASSUME NEW j \in 1 .. 10 PROVE Has10(j) <=> n < ten[j] /\ (j = 1 \/ n >= ten[j - 1])
  <2>1. j \in 0 .. 10 /\ j - 1 \in 0 .. 10
    OBVIOUS
  <2>2. ten[j] = 10^j /\ ten[j - 1] = 10^(j - 1)
    BY <2>1, Zenon
  <2> QED
    BY <2>2, Zenon
<1> HIDE DEF ten
<1>3. Has10(k)
  OBVIOUS
<1>4. ASSUME NEW j \in 1 .. 10, Has10(j) PROVE j = k
  <2> HIDE DEF Has10
  <2>1. /\ n < ten[j] /\ (j = 1 \/ n >= ten[j - 1])
        /\ n < ten[k] /\ (k = 1 \/ n >= ten[k - 1])
    BY <1>2, <1>3, <1>4
  <2>2. /\ j \in {1, 2, 3, 4, 5, 6, 7, 8, 9, 10}
        /\ k \in {1, 2, 3, 4, 5, 6, 7, 8, 9, 10}
    BY SMT
  <2> QED
    BY <1>1, <2>1, <2>2, SMT
<1>5. Digits(n) = CHOOSE j \in 1 .. 10 : Has10(j)
  BY DEF Digits
<1> QED
  BY <1>3, <1>4, <1>5

(* The numbers of digits that there are                                    *)
LEMMA DigitsUpTo ==
  ASSUME NEW n \in Nat
  PROVE  /\ n < 10 => Digits(n) = 1
         /\ 10 <= n /\ n < 100 => Digits(n) = 2
         /\ 100 <= n /\ n < 1000 => Digits(n) = 3
         /\ 1000 <= n /\ n < 10000 => Digits(n) = 4
         /\ 10000 <= n /\ n < 100000 => Digits(n) = 5
         /\ 10000000 <= n /\ n < 100000000 => Digits(n) = 8
<1>1. ASSUME n < 10 PROVE Digits(n) = 1
  <2>1. 1 \in 1 .. 10 /\ 1 - 1 = 0
    BY SMT
  <2>2. n < 10^1
    BY <1>1, Powers, SMT
  <2> QED
    BY <2>1, <2>2, DigitsAre
<1>2. ASSUME 10 <= n, n < 100 PROVE Digits(n) = 2
  <2>1. 2 \in 1 .. 10 /\ 2 - 1 = 1
    BY SMT
  <2>2. n < 10^2 /\ n >= 10^1
    BY <1>2, Powers, SMT
  <2> QED
    BY <2>1, <2>2, DigitsAre
<1>3. ASSUME 100 <= n, n < 1000 PROVE Digits(n) = 3
  <2>1. 3 \in 1 .. 10 /\ 3 - 1 = 2
    BY SMT
  <2>2. n < 10^3 /\ n >= 10^2
    BY <1>3, Powers, SMT
  <2> QED
    BY <2>1, <2>2, DigitsAre
<1>4. ASSUME 1000 <= n, n < 10000 PROVE Digits(n) = 4
  <2>1. 4 \in 1 .. 10 /\ 4 - 1 = 3
    BY SMT
  <2>2. n < 10^4 /\ n >= 10^3
    BY <1>4, Powers, SMT
  <2> QED
    BY <2>1, <2>2, DigitsAre
<1>5. ASSUME 10000 <= n, n < 100000 PROVE Digits(n) = 5
  <2>1. 5 \in 1 .. 10 /\ 5 - 1 = 4
    BY SMT
  <2>2. n < 10^5 /\ n >= 10^4
    BY <1>5, Powers, SMT
  <2> QED
    BY <2>1, <2>2, DigitsAre
<1>6. ASSUME 10000000 <= n, n < 100000000 PROVE Digits(n) = 8
  <2>1. 8 \in 1 .. 10 /\ 8 - 1 = 7
    BY SMT
  <2>2. n < 10^8 /\ n >= 10^7
    BY <1>6, Powers, SMT
  <2> QED
    BY <2>1, <2>2, DigitsAre
<1> QED
  BY <1>1, <1>2, <1>3, <1>4, <1>5, <1>6, SMT

(* How long the numbers are on the display *)
LEMMA LengthOfTenths ==
  ASSUME NEW x \in Int
  PROVE  /\ -1000 < x /\ x < 10000 => SizeOf(5, 1, x) = 5 /\ SizeOf(6, 1, x) = 6
         /\ 10000 <= x /\ x < 100000 => SizeOf(5, 1, x) = 6
         /\ x = -214748364 => SizeOf(5, 1, x) = 11
<1> DEFINE size == IF x < 0 THEN -x ELSE x
           whole == size \div 10
           sign == IF x < 0 THEN 1 ELSE 0
           n == sign + Digits(whole) + 2
<1>1. whole \in Nat
  BY SMT
<1>2. \A least \in {5, 6} : SizeOf(least, 1, x) = IF n < least THEN least ELSE n
  BY SMT DEF SizeOf
<1> DEFINE k == Digits(whole)
<1>3. /\ whole < 10 => k = 1
      /\ 10 <= whole /\ whole < 100 => k = 2
      /\ 100 <= whole /\ whole < 1000 => k = 3
      /\ 1000 <= whole /\ whole < 10000 => k = 4
      /\ 10000000 <= whole /\ whole < 100000000 => k = 8
  BY <1>1, DigitsUpTo
<1> HIDE DEF k
<1>4. /\ SizeOf(5, 1, x) = IF sign + k + 2 < 5 THEN 5 ELSE sign + k + 2
      /\ SizeOf(6, 1, x) = IF sign + k + 2 < 6 THEN 6 ELSE sign + k + 2
  BY <1>2 DEF k
<1> QED
  BY <1>3, <1>4, SMT

(* ... and without a decimal                                               *)
LEMMA LengthOfWhole ==
  ASSUME NEW x \in Nat
  PROVE  /\ x < 9995 => SizeOf(2, 0, x) \in {2, 3}
         /\ x < 999995 => SizeOf(5, 0, x) = 5
<1> DEFINE whole == (x + 5) \div 10
           k == Digits(whole)
<1>1. whole \in Nat /\ ~(x < 0)
  BY SMT
<1>2. \A least \in {2, 5} : SizeOf(least, 0, x) = IF 0 + k + 0 < least THEN least ELSE 0 + k + 0
  BY <1>1, SMT DEF SizeOf
<1>3. /\ whole < 10 => k = 1
      /\ 10 <= whole /\ whole < 100 => k = 2
      /\ 100 <= whole /\ whole < 1000 => k = 3
      /\ 1000 <= whole /\ whole < 10000 => k = 4
      /\ 10000 <= whole /\ whole < 100000 => k = 5
  BY <1>1, DigitsUpTo
<1> HIDE DEF k
<1> QED
  BY <1>2, <1>3, SMT

(* The lengths of the numbers of a screen: d of the dew point, w and x of  *)
(* the wind and its maximum, r of the rain                                 *)
Lengths(v, d, w, x, r) ==
  /\ SizeOf(6, 1, Tenths(v.temp)) = 6
  /\ SizeOf(5, 1, Tenths(v.min)) = 5 /\ SizeOf(5, 1, Tenths(v.max)) = 5
  /\ SizeOf(2, 0, Tenths(v.humid)) \in {2, 3}
  /\ SizeOf(5, 0, Tenths(v.pressure)) = 5
  /\ SizeOf(5, 1, Tenths(v.dewpoint)) = d /\ d \in {5, 11}
  /\ SizeOf(5, 1, Tenths(v.wind)) = w /\ w \in {5, 6}
  /\ SizeOf(5, 1, Tenths(v.maxWind)) = x /\ x \in {5, 6}
  /\ SizeOf(5, 1, (v.rain + 50) \div 100) = r /\ r \in {5, 6}

(* Where a text begins *)
Begins(t, line, start) == t.line = line /\ t.start = start

(* The texts of a screen, line by line: none reaches the next one, and the *)
(* last ones of the lines say how many columns there have to be.           *)
LEMMA ScreenFits ==
  ASSUME NEW language \in Languages, NEW v,
         NEW d, NEW w, NEW x, NEW r, Lengths(v, d, w, x, r)
  PROVE  LET texts == UpdateDisplay(language, v)
             columns == IF d = 11 THEN 27 ELSE IF w = 6 \/ x = 6 \/ r = 6 THEN 22 ELSE 21
         IN  /\ Apart(texts)
             /\ \A display \in [width : Nat, height : Nat] :
                  Complete(display, texts) <=> display.height >= 63 /\ display.width >= 6 * columns
<1> DEFINE label == LabelSize(language)
           humid == SizeOf(2, 0, Tenths(v.humid))
           texts == UpdateDisplay(language, v)
           columns == IF d = 11 THEN 27 ELSE IF w = 6 \/ x = 6 \/ r = 6 THEN 22 ELSE 21
           Last(t) == t.start + SizeInLatin1(t)
           S == { Label(0, 0, label.temperature),
                  Number(0, 13, 6, 1, 1),
                  Number(1, 2, 9 + 5 + 5, 0, 0),
                  Label(2, 0, label.humid),
                  Number(2, 10, humid, 0, 1),
                  Number(2, 14, d, 1, 1),
                  Label(3, 0, label.wind),
                  Number(3, 11, w, 0, 5),
                  Number(4, 6, 4, 0, 0),
                  Number(4, 11, x, 0, 5),
                  Label(5, 0, label.rain),
                  Number(5, 13, r, 0, 3),
                  Label(6, 0, label.pressure),
                  Number(6, 12, 5, 0, 4) }
<1>1. texts = S
  BY Zenon DEF UpdateDisplay, Lengths
<1>2. /\ label.temperature \in 0 .. 11 /\ label.humid \in 0 .. 7 /\ label.wind \in 0 .. 11
      /\ label.rain \in 0 .. 12 /\ label.pressure \in 0 .. 12
  BY DEF LabelSize, Languages
<1>3. humid \in {2, 3} /\ d \in {5, 11} /\ w \in {5, 6} /\ x \in {5, 6} /\ r \in {5, 6}
  BY DEF Lengths
<1> HIDE DEF label, humid
<1> DEFINE Place(t) ==
             \/ Begins(t, 0, 0) /\ Last(t) <= 11
             \/ Begins(t, 0, 13) /\ Last(t) = 21
             \/ Begins(t, 1, 2) /\ Last(t) = 21
             \/ Begins(t, 2, 0) /\ Last(t) <= 7
             \/ Begins(t, 2, 10) /\ Last(t) <= 14
             \/ Begins(t, 2, 14) /\ Last(t) = 16 + d
             \/ Begins(t, 3, 0) /\ Last(t) <= 11
             \/ Begins(t, 3, 11) /\ Last(t) = 16 + w
             \/ Begins(t, 4, 6) /\ Last(t) = 10
             \/ Begins(t, 4, 11) /\ Last(t) = 16 + x
             \/ Begins(t, 5, 0) /\ Last(t) <= 12
             \/ Begins(t, 5, 13) /\ Last(t) = 16 + r
             \/ Begins(t, 6, 0) /\ Last(t) <= 12
             \/ Begins(t, 6, 12) /\ Last(t) = 21
           Text(t) == /\ t.line \in 0 .. 6 /\ t.start \in 0 .. 14 /\ t.ascii \in Nat
                      /\ t.degrees \in Nat /\ t.font \in {"bold", "normal"}
<1>4. ASSUME NEW t \in S PROVE Text(t) /\ Place(t)
  <2>1. CASE t = Label(0, 0, label.temperature)
    <3>1. Begins(t, 0, 0) /\ Last(t) <= 11 /\ Text(t)
      BY <1>2, <1>3, <2>1 DEF Label, Begins, SizeInLatin1
    <3> QED
      BY <3>1
  <2>2. CASE t = Number(0, 13, 6, 1, 1)
    <3>1. Begins(t, 0, 13) /\ Last(t) = 21 /\ Text(t)
      BY <1>2, <1>3, <2>2 DEF Number, Begins, SizeInLatin1
    <3> QED
      BY <3>1
  <2>3. CASE t = Number(1, 2, 9 + 5 + 5, 0, 0)
    <3>1. Begins(t, 1, 2) /\ Last(t) = 21 /\ Text(t)
      BY <1>2, <1>3, <2>3 DEF Number, Begins, SizeInLatin1
    <3> QED
      BY <3>1
  <2>4. CASE t = Label(2, 0, label.humid)
    <3>1. Begins(t, 2, 0) /\ Last(t) <= 7 /\ Text(t)
      BY <1>2, <1>3, <2>4 DEF Label, Begins, SizeInLatin1
    <3> QED
      BY <3>1
  <2>5. CASE t = Number(2, 10, humid, 0, 1)
    <3>1. Begins(t, 2, 10) /\ Last(t) <= 14 /\ Text(t)
      BY <1>2, <1>3, <2>5 DEF Number, Begins, SizeInLatin1
    <3> QED
      BY <3>1
  <2>6. CASE t = Number(2, 14, d, 1, 1)
    <3>1. Begins(t, 2, 14) /\ Last(t) = 16 + d /\ Text(t)
      BY <1>2, <1>3, <2>6 DEF Number, Begins, SizeInLatin1
    <3> QED
      BY <3>1
  <2>7. CASE t = Label(3, 0, label.wind)
    <3>1. Begins(t, 3, 0) /\ Last(t) <= 11 /\ Text(t)
      BY <1>2, <1>3, <2>7 DEF Label, Begins, SizeInLatin1
    <3> QED
      BY <3>1
  <2>8. CASE t = Number(3, 11, w, 0, 5)
    <3>1. Begins(t, 3, 11) /\ Last(t) = 16 + w /\ Text(t)
      BY <1>2, <1>3, <2>8 DEF Number, Begins, SizeInLatin1
    <3> QED
      BY <3>1
  <2>9. CASE t = Number(4, 6, 4, 0, 0)
    <3>1. Begins(t, 4, 6) /\ Last(t) = 10 /\ Text(t)
      BY <1>2, <1>3, <2>9 DEF Number, Begins, SizeInLatin1
    <3> QED
      BY <3>1
  <2>10. CASE t = Number(4, 11, x, 0, 5)
    <3>1. Begins(t, 4, 11) /\ Last(t) = 16 + x /\ Text(t)
      BY <1>2, <1>3, <2>10 DEF Number, Begins, SizeInLatin1
    <3> QED
      BY <3>1
  <2>11. CASE t = Label(5, 0, label.rain)
    <3>1. Begins(t, 5, 0) /\ Last(t) <= 12 /\ Text(t)
      BY <1>2, <1>3, <2>11 DEF Label, Begins, SizeInLatin1
    <3> QED
      BY <3>1
  <2>12. CASE t = Number(5, 13, r, 0, 3)
    <3>1. Begins(t, 5, 13) /\ Last(t) = 16 + r /\ Text(t)
      BY <1>2, <1>3, <2>12 DEF Number, Begins, SizeInLatin1
    <3> QED
      BY <3>1
  <2>13. CASE t = Label(6, 0, label.pressure)
    <3>1. Begins(t, 6, 0) /\ Last(t) <= 12 /\ Text(t)
      BY <1>2, <1>3, <2>13 DEF Label, Begins, SizeInLatin1
    <3> QED
      BY <3>1
  <2>14. CASE t = Number(6, 12, 5, 0, 4)
    <3>1. Begins(t, 6, 12) /\ Last(t) = 21 /\ Text(t)
      BY <1>2, <1>3, <2>14 DEF Number, Begins, SizeInLatin1
    <3> QED
      BY <3>1
  <2> QED
    BY <2>1, <2>2, <2>3, <2>4, <2>5, <2>6, <2>7, <2>8, <2>9, <2>10, <2>11, <2>12, <2>13, <2>14
<1>5. /\ \E t \in S : t.line = 6
      /\ \E t \in S : Last(t) = 21
      /\ \E t \in S : Last(t) = 16 + d
      /\ \E t \in S : Last(t) = 16 + w
      /\ \E t \in S : Last(t) = 16 + x
      /\ \E t \in S : Last(t) = 16 + r
  <2> DEFINE t == Number(6, 12, 5, 0, 4)
  <2>1. t.line = 6 /\ Last(t) = 21 /\ t \in S
    BY DEF Number, SizeInLatin1
  <2>2. Last(Number(2, 14, d, 1, 1)) = 16 + d /\ Number(2, 14, d, 1, 1) \in S
    BY <1>3 DEF Number, SizeInLatin1
  <2>3. Last(Number(3, 11, w, 0, 5)) = 16 + w /\ Number(3, 11, w, 0, 5) \in S
    BY <1>3 DEF Number, SizeInLatin1
  <2>4. Last(Number(4, 11, x, 0, 5)) = 16 + x /\ Number(4, 11, x, 0, 5) \in S
    BY <1>3 DEF Number, SizeInLatin1
  <2>5. Last(Number(5, 13, r, 0, 3)) = 16 + r /\ Number(5, 13, r, 0, 3) \in S
    BY <1>3 DEF Number, SizeInLatin1
  <2> HIDE DEF S
  <2> QED
    BY <2>1, <2>2, <2>3, <2>4, <2>5, Zenon
<1> HIDE DEF S
<1>6. Apart(S)
  <2> SUFFICES ASSUME NEW t \in S, NEW u \in S, u.line = t.line, u.start > t.start
               PROVE  Last(t) <= u.start
    BY DEF Apart
  <2>1. Text(t) /\ Text(u) /\ Place(t) /\ Place(u)
    BY <1>4
  <2>2. Last(t) \in Nat
    BY <2>1 DEF SizeInLatin1
  <2> HIDE DEF Last
  <2> QED
    BY <1>3, <2>1, <2>2 DEF Begins
<1>7. ASSUME NEW display \in [width : Nat, height : Nat]
      PROVE  Complete(display, S) <=> display.height >= 63 /\ display.width >= 6 * columns
  <2>1. Rows(display) = display.height \div 9 /\ Columns(display) = display.width \div 6
    BY DEF Rows, Columns, FontHeight, FontWidth, GapX, GapY
  <2>2. Rows(display) \in Nat /\ Columns(display) \in Nat
    BY <2>1
  <2>3. display.height >= 63 <=> Rows(display) >= 7
    BY <2>1
  <2>4. display.width >= 6 * columns <=> Columns(display) >= columns
    BY <2>1
  <2>5. ASSUME NEW t \in S
        PROVE  /\ t.line \in 0 .. 6 /\ Last(t) \in Nat /\ Last(t) <= columns
               /\ t.start \in Nat /\ SizeInLatin1(t) = t.ascii + t.degrees
               /\ t.ascii + t.degrees \in Nat
               /\ HD44780(DegreeSign) \in Pictures(t.font)
    <3>1. Text(t) /\ Place(t)
      BY <1>4
    <3>2. HD44780(DegreeSign) \in Pictures(t.font)
      BY <3>1 DEF HD44780, DegreeSign, Pictures, Font6x8, Font6x8Bold
    <3>3. Last(t) \in Nat /\ SizeInLatin1(t) = t.ascii + t.degrees /\ t.ascii + t.degrees \in Nat
      BY <3>1 DEF SizeInLatin1
    <3>4. Last(t) <= columns
      <4> HIDE DEF Last
      <4> QED
        BY <1>3, <3>1, <3>3
    <3> QED
      BY <3>1, <3>2, <3>3, <3>4
  <2>6. ASSUME Rows(display) >= 7, Columns(display) >= columns PROVE Complete(display, S)
    <3> SUFFICES ASSUME NEW t \in S
                 PROVE  /\ ~OutOfRange(display, t)
                        /\ MaxCharIndex(display, t) = t.ascii + t.degrees
                        /\ t.start + MaxCharIndex(display, t) <= Columns(display)
                        /\ HD44780(DegreeSign) \in Pictures(t.font)
      BY DEF Complete
    <3> QED
      BY <2>2, <2>5, <2>6 DEF OutOfRange, MaxCharIndex
  <2>7. ASSUME Complete(display, S) PROVE Rows(display) >= 7 /\ Columns(display) >= columns
    <3>1. \A t \in S : t.line < Rows(display) /\ Last(t) <= Columns(display)
      BY <2>2, <2>5, <2>7 DEF Complete, OutOfRange
    <3> HIDE DEF Last
    <3> QED
      BY <1>3, <1>5, <2>2, <3>1
  <2> QED
    BY <2>3, <2>4, <2>6, <2>7
<1> QED
  BY <1>1, <1>6, <1>7

-----------------------------------------------------------------------------
(* The numbers that are shown are not too long.                            *)

(* A day has less datasets than fall tips of the gauge for ten metres of   *)
(* rain.                                                                   *)
DatasetsOfDay == DaySlots <= 30000

(* What fits on the display, in hundredths and in 1/1000 mm of rain        *)
OfTemp(v) == v \in Int /\ -5000 <= v /\ v < 7000
OfWind(v) == v \in Nat /\ v < 160927
OfRain(v) == v \in Nat /\ v < 9999950
OfHumid(v) == v \in Nat /\ v <= 25500
OfPressure(v) == v \in Nat /\ v <= 327670

(* What stands for a column that is NULL fits.                             *)
LEMMA ZeroFits == OfTemp(0) /\ OfWind(0) /\ OfRain(0) /\ OfHumid(0) /\ OfPressure(0)
BY SMT DEF OfTemp, OfWind, OfRain, OfHumid, OfPressure

(* So does what is decoded of weather that there is.                       *)
LEMMA DecodedFits ==
  ASSUME type \in Types, type \in ReadTypes, PlausibleReadings, NEW m, Sound(m)
  PROVE  LET c == Decode(type, m) IN
           /\ OfTemp(c.temp)
           /\ Has(type, "humid") => OfHumid(c.humid)
           /\ \A q \in {"wind", "gust"} : Has(type, q) => OfWind(c[q])
           /\ Has(type, "pressure") => OfPressure(c.pressure)
<1> DEFINE c == Decode(type, m)
<1>1. Measurable(type, m) /\ Plausible(type, m) /\ ~Corrupt(c)
  BY SoundIsMeasurable DEF Sound, PlausibleReadings
<1>2. m.temp \in Int /\ \A q \in Quantity \ {"temp"} : m[q] \in Nat
  BY <1>1, MeasuredNumbers
<1>3. c \in [Quantity -> Int]
  BY <1>1, SoundIsMeasurable, Decoded
<1>4. OfTemp(c.temp)
  <2>1. c.temp \in Int
    BY <1>3 DEF Quantity
  <2>2. ~(c.temp < -5000) /\ ~(c.temp >= 7000)
    BY <1>1, SMT DEF Corrupt
  <2> HIDE DEF c
  <2> QED
    BY <2>1, <2>2, SMT DEF OfTemp
<1>5. CASE type \in {"kombi", "normal"}
  <2>1. /\ c.humid = IF m.humid = Lost THEN 0 ELSE m.humid * 100
        /\ type = "kombi" => c.wind = IF m.wind = Lost THEN 0 ELSE m.wind * 10
    BY <1>1, <1>5, KombiDecoded
  <2>2. ~Has(type, "gust") /\ ~Has(type, "pressure") /\ (type = "normal" => ~Has(type, "wind"))
    BY <1>5 DEF Has, Sensors
  <2>3. OfHumid(c.humid)
    BY <1>1, <1>2, <2>1, ZeroFits, SMT DEF Plausible, OfHumid, Quantity
  <2>4. type = "kombi" => OfWind(c.wind)
    BY <1>1, <1>2, <2>1, ZeroFits, SMT DEF Plausible, OfWind, Quantity
  <2> QED
    BY <1>4, <1>5, <2>2, <2>3, <2>4
<1>6. CASE type = "freetec"
  <2>1. /\ m.humid # Lost => c.humid = m.humid * 100
        /\ c.humid \in Nat /\ c.humid <= 25500
        /\ c.pressure = m.pressure * 10
        /\ \A q \in {"wind", "gust"} : /\ m[q] # Lost => c[q] = m[q] * 38
                                       /\ m[q] = Lost => c[q] = 4095 * 38
    BY <1>1, <1>6, FreeTecDecoded
  <2>3. OfHumid(c.humid)
    BY <2>1, SMT DEF OfHumid
  <2>4. ASSUME NEW q \in {"wind", "gust"} PROVE OfWind(c[q])
    BY <1>1, <1>2, <1>6, <2>1, ZeroFits, SMT DEF Plausible, OfWind, Quantity
  <2>5. OfPressure(c.pressure)
    BY <1>1, <1>2, <1>6, <2>1, ZeroFits, SMT DEF Plausible, OfPressure, Quantity, Lost
  <2> QED
    BY <1>4, <1>6, <2>3, <2>4, <2>5
<1>7. CASE type = "ws980"
  <2>1. /\ c.humid = IF m.humid = Lost THEN 0 ELSE m.humid * 100
        /\ c.pressure = IF m.pressure = Lost THEN 0 ELSE m.pressure * 10
        /\ \A q \in {"wind", "gust"} : c[q] = IF m[q] = Lost THEN 0 ELSE m[q] * 36
    BY <1>1, <1>7, Ws980Decoded
  <2>3. OfHumid(c.humid)
    BY <1>1, <1>2, <2>1, ZeroFits, SMT DEF Plausible, OfHumid, Quantity
  <2>4. ASSUME NEW q \in {"wind", "gust"} PROVE OfWind(c[q])
    BY <1>1, <1>2, <1>7, <2>1, ZeroFits, SMT DEF Plausible, OfWind, Quantity
  <2>5. OfPressure(c.pressure)
    BY <1>1, <1>2, <1>7, <2>1, ZeroFits, SMT DEF Plausible, OfPressure, Quantity
  <2> QED
    BY <1>4, <1>7, <2>3, <2>4, <2>5
<1> QED
  BY <1>5, <1>6, <1>7 DEF ReadTypes

(* What an accessor makes of a column                                      *)
LEMMA ValueOfColumn ==
  ASSUME NEW c
  PROVE  IF c = {} THEN Value(c) = 0 ELSE Value(c) \in c
BY DEF Value

(* The rows fit.                                                           *)
LEMMA RowFits ==
  ASSUME DataInv, type \in ReadTypes, PlausibleReadings, NEW t \in DOMAIN table
  PROVE  /\ \A v \in table[t].temp : OfTemp(v)
         /\ \A v \in table[t].wind : OfWind(v)
         /\ \A v \in table[t].rain : v = RainGaugeFactor(type)
<1> DEFINE c == Decode(type, measured[t])
<1>1. Sound(measured[t]) /\ table[t] = Row(c) /\ type \in Types
  BY DEF DataInv, RowsDecoded, WeatherTypeOK
<1>2. Measurable(type, measured[t]) /\ type \in SensorType
  BY <1>1, SoundIsMeasurable
<1>3. /\ Has(type, "temp")
      /\ "temp" \in Quantity /\ "wind" \in Quantity /\ "rain" \in Quantity
  BY <1>2 DEF Has, Sensors, Quantity
<1>4. /\ table[t].temp = {c.temp}
      /\ table[t].wind = IF Has(type, "wind") THEN {c.wind} ELSE {}
      /\ \A v \in table[t].rain : v = RainGaugeFactor(type)
  <2>1. /\ Row(c)["temp"] = {c["temp"]}
        /\ Row(c)["wind"] = IF Has(type, "wind") THEN {c["wind"]} ELSE {}
        /\ Row(c)["rain"] = IF Has(type, "rain") THEN {RainGaugeFactor(type)} ELSE {}
    BY <1>2, <1>3, RowColumns
  <2> QED
    BY <1>1, <2>1
<1>5. OfTemp(c.temp) /\ (Has(type, "wind") => OfWind(c.wind))
  BY <1>1, DecodedFits
<1> HIDE DEF c
<1> QED
  BY <1>4, <1>5

(* A day has no more rows than slots. *)
LEMMA RowsOfDay ==
  ASSUME WeatherTypeOK, NEW d
  PROVE  Cardinality(RowsOf(d)) \in Nat /\ Cardinality(RowsOf(d)) <= DaySlots
<1>0. DaySlots \in Nat \ {0}
  BY CurrentWeatherAssumption DEF CurrentWeatherAssumption
<1>1. CASE RowsOf(d) = {}
  BY <1>0, <1>1, FS_EmptySet
<1>2. ASSUME NEW u \in RowsOf(d)
      PROVE  Cardinality(RowsOf(d)) \in Nat /\ Cardinality(RowsOf(d)) <= DaySlots
  <2>1. \A t \in RowsOf(d) : t \in Nat /\ t \div DaySlots = d
    BY TimesAreNumbers DEF RowsOf, DayOf
  <2>2. d \in Nat
    BY <1>0, <1>2, <2>1
  <2> DEFINE a == d * DaySlots
  <2>3. a \in Nat
    BY <1>0, <2>2
  <2>4. ASSUME NEW t \in RowsOf(d) PROVE t \in a .. a + DaySlots - 1
    <3>1. t \in Nat /\ t \div DaySlots = d
      BY <2>1
    <3>2. a <= t /\ t < a + DaySlots
      BY <1>0, <2>2, <3>1
    <3> HIDE DEF a
    <3> QED
      BY <1>0, <2>3, <3>1, <3>2
  <2> HIDE DEF a
  <2>5. /\ IsFiniteSet(a .. a + DaySlots - 1)
        /\ Cardinality(a .. a + DaySlots - 1) = DaySlots
    <3> DEFINE b == a + DaySlots - 1
    <3>1. b \in Int /\ a <= b /\ b - a + 1 = DaySlots
      BY <1>0, <2>3
    <3> HIDE DEF b
    <3>2. IsFiniteSet(a .. b) /\ Cardinality(a .. b) = DaySlots
      BY <2>3, <3>1, FS_Interval
    <3> QED
      BY <3>2 DEF b
  <2>6. RowsOf(d) \in SUBSET (a .. a + DaySlots - 1)
    BY <2>4
  <2> DEFINE I == a .. a + DaySlots - 1
             S == RowsOf(d)
  <2>7. IsFiniteSet(I) /\ Cardinality(I) = DaySlots /\ S \in SUBSET I
    BY <2>5, <2>6
  <2> HIDE DEF I, S
  <2>8. IsFiniteSet(S) /\ Cardinality(S) <= Cardinality(I)
    BY <2>7, FS_Subset, Zenon
  <2>9. Cardinality(S) \in Nat
    BY <2>8, FS_CardinalityType, Zenon
  <2> QED
    BY <2>7, <2>8, <2>9 DEF S
<1> QED
  BY <1>1, <1>2

(* Statistics of a day, and a CurrentWeather, that fit on the display *)
StatsFit(s) ==
  /\ \A v \in s.min \union s.max : OfTemp(v)
  /\ \A v \in s.wind : OfWind(v)
  /\ \A v \in s.rain : OfRain(v)
  /\ \E r : s.rain \subseteq {r}

WeatherFits(w) ==
  /\ OfTemp(w.min) /\ OfTemp(w.max) /\ OfWind(w.maxWind)
  /\ \A v \in w.column.rain : OfRain(v)
  /\ \E r : w.column.rain \subseteq {r}

(* So do the statistics of a day: its extremes are of its rows, and each of*)
(* them has one tip of rain.                                               *)
LEMMA AggregateFits ==
  ASSUME DataInv, type \in ReadTypes, PlausibleReadings, DatasetsOfDay, NEW d
  PROVE  StatsFit(Aggregate(d))
<1> DEFINE s == Aggregate(d)
           All(q) == ValuesOf(q, d)
           n == Cardinality(RowsOf(d))
           f == RainGaugeFactor(type)
<1>1. /\ s.min = IF All("temp") = {} THEN {} ELSE {Min(All("temp"))}
      /\ s.max = IF All("temp") = {} THEN {} ELSE {Max(All("temp"))}
      /\ s.wind = IF All("wind") = {} THEN {} ELSE {Max(All("wind"))}
      /\ s.rain = { n * v : v \in All("rain") }
  BY DEF Aggregate, ValuesOf
<1>2. /\ \A v \in All("temp") : OfTemp(v)
      /\ \A v \in All("wind") : OfWind(v)
      /\ \A v \in All("rain") : v = f
  BY RowFits DEF ValuesOf, RowsOf
<1>3. ASSUME NEW q \in {"temp", "wind"}, All(q) # {}
      PROVE  Min(All(q)) \in All(q) /\ Max(All(q)) \in All(q)
  <2>1. All(q) \in SUBSET Int /\ IsFiniteSet(All(q))
    BY ValuesAreFinite DEF Quantity
  <2> HIDE DEF All
  <2> QED
    BY <1>3, <2>1, MinOfFiniteSet, MaxOfFiniteSet
<1>4. n * f \in Nat /\ OfRain(n * f)
  <2>1. n \in Nat /\ n <= 30000
    BY RowsOfDay, CurrentWeatherAssumption
       DEF DataInv, DatasetsOfDay, CurrentWeatherAssumption
  <2>2. f \in {300, 100, 295}
    BY DEF RainGaugeFactor
  <2> HIDE DEF n, f
  <2> QED
    BY <2>1, <2>2, SMT DEF OfRain
<1> HIDE DEF s, All, n, f
<1>5. \A v \in s.rain : v = n * f
  BY <1>1, <1>2
<1>6. \A v \in s.min \union s.max : OfTemp(v)
  BY <1>1, <1>2, <1>3
<1>7. \A v \in s.wind : OfWind(v)
  BY <1>1, <1>2, <1>3
<1>8. StatsFit(s)
  BY <1>4, <1>5, <1>6, <1>7 DEF StatsFit
<1> QED
  BY <1>8 DEF s

(* ... and what is queried, also of a day without statistics               *)
LEMMA StatsOfWeather ==
  ASSUME DataInv, type \in ReadTypes, PlausibleReadings,
         \A e \in DOMAIN stats : StatsFit(stats[e]), NEW t \in DOMAIN table, NEW d
  PROVE  WeatherFits(Weather(t, d))
<1> DEFINE w == Weather(t, d)
<1>1. /\ \A v \in table[t].temp : OfTemp(v)
      /\ \A v \in table[t].wind : OfWind(v)
  BY RowFits
<1>2. CASE d \in DOMAIN stats
  <2> DEFINE s == stats[d]
  <2>1. /\ w.min = Value(s.min) /\ w.max = Value(s.max) /\ w.maxWind = Value(s.wind)
        /\ w.column.rain = s.rain
    BY <1>2, WeatherColumns
  <2>2. StatsFit(s)
    BY <1>2
  <2> HIDE DEF w, s
  <2>3. OfTemp(Value(s.min)) /\ OfTemp(Value(s.max)) /\ OfWind(Value(s.wind))
    BY <2>2, ValueOfColumn, ZeroFits DEF StatsFit
  <2> QED
    BY <2>1, <2>2, <2>3 DEF w, WeatherFits, StatsFit
<1>3. CASE d \notin DOMAIN stats
  <2>1. /\ w.temp = Value(table[t].temp) /\ w.min = w.temp /\ w.max = w.temp
        /\ w.maxWind = Value(table[t].wind) /\ w.column.rain = {}
    BY <1>3, WeatherColumns
  <2>2. OfTemp(Value(table[t].temp)) /\ OfWind(Value(table[t].wind))
    BY <1>1, ValueOfColumn, ZeroFits
  <2> HIDE DEF w
  <2>3. WeatherFits(w)
    BY <2>1, <2>2 DEF WeatherFits
  <2> QED
    BY <2>3 DEF w
<1> QED
  BY <1>2, <1>3

(* All the statistics fit, and what another program got.                   *)
ScreenInv ==
  /\ PublishInv
  /\ \A d \in DOMAIN stats : StatsFit(stats[d])
  /\ WeatherFits(shown)

(* A new CurrentWeather is zeros.                                          *)
LEMMA NewWeatherFits == WeatherFits(NoWeather)
<1>1. /\ NoWeather.min = 0 /\ NoWeather.max = 0 /\ NoWeather.maxWind = 0
      /\ NoWeather.column.rain = {}
  BY DEF NoWeather, Quantity
<1> QED
  BY <1>1, ZeroFits DEF WeatherFits

(* No step makes anything that does not fit.                               *)
LEMMA ScreenStep ==
  ASSUME Types \subseteq ReadTypes, PlausibleReadings, DatasetsOfDay
  PROVE  ScreenInv /\ [WeatherNext]_vars => ScreenInv'
<1> SUFFICES ASSUME ScreenInv, [WeatherNext]_vars PROVE ScreenInv'
  OBVIOUS
<1>0. DataInv /\ PublishInv /\ type \in ReadTypes
  BY DEF ScreenInv, PublishInv, DataInv, WeatherTypeOK
<1>1. PublishInv'
  BY <1>0, PublishStep
<1>2. (\A d \in DOMAIN stats : StatsFit(stats[d]))'
  <2>1. CASE UpdateDay
    <3>1. stats' = With(stats, DayOf(ts), Aggregate(DayOf(ts)))
      BY <2>1 DEF UpdateDay
    <3>2. StatsFit(Aggregate(DayOf(ts)))
      BY <1>0, AggregateFits
    <3>3. \A d \in DOMAIN stats' : StatsFit(stats'[d])
      BY <3>1, <3>2 DEF With, ScreenInv
    <3> QED
      BY <3>3 DEF StatsFit
  <2>2. CASE UNCHANGED stats
    BY <2>2 DEF ScreenInv, StatsFit
  <2> QED
    BY <2>1, <2>2
       DEF WeatherNext, Present, Tick, SetBack, Read, Insert, InsertRejected, Upload,
           EndIteration, StatementFails, SelectRow, SelectStats, vars, daemonVars
<1>3. WeatherFits(shown)'
  <2>1. CASE SelectStats
    <3>1. row \in DOMAIN table /\ shown' = Weather(row, DayOf(row))
      BY <1>0, <2>1 DEF SelectStats, PublishInv
    <3>2. WeatherFits(Weather(row, DayOf(row)))
      BY <1>0, <3>1, StatsOfWeather DEF ScreenInv
    <3>3. WeatherFits(shown')
      BY <3>1, <3>2
    <3> QED
      BY <3>3 DEF WeatherFits
  <2>2. CASE Present
    <3>1. WeatherFits(shown')
      BY <2>2, NewWeatherFits DEF Present
    <3> QED
      BY <3>1 DEF WeatherFits
  <2>3. CASE UNCHANGED shown
    BY <2>3 DEF ScreenInv, WeatherFits
  <2> QED
    BY <2>1, <2>2, <2>3
       DEF WeatherNext, Tick, SetBack, Read, Insert, InsertRejected, UpdateDay, Upload,
           EndIteration, StatementFails, SelectRow, vars, queryVars
<1> QED
  BY <1>1, <1>2, <1>3 DEF ScreenInv

-----------------------------------------------------------------------------
(* What is shown is legible.                                               *)

(* How long the numbers of the weather are: of a temperature, ...         *)
LEMMA LengthOfTemp ==
  ASSUME NEW x, OfTemp(x)
  PROVE  SizeOf(6, 1, Tenths(x)) = 6 /\ SizeOf(5, 1, Tenths(x)) = 5
<1> DEFINE y == Tenths(x)
<1>1. y \in Int /\ -1000 < y /\ y < 10000
  BY SMT DEF Tenths, OfTemp
<1> HIDE DEF y
<1>2. SizeOf(6, 1, y) = 6 /\ SizeOf(5, 1, y) = 5
  BY <1>1, LengthOfTenths
<1> QED
  BY <1>2 DEF y

(* ... of a wind, which takes one more from 1000 km/h                      *)
LEMMA LengthOfWind ==
  ASSUME NEW x, OfWind(x)
  PROVE  SizeOf(5, 1, Tenths(x)) = IF x >= 99995 THEN 6 ELSE 5
<1> DEFINE y == Tenths(x)
<1>1. /\ y \in Int /\ 0 <= y /\ y < 100000
      /\ y >= 10000 <=> x >= 99995
  BY SMT DEF Tenths, OfWind
<1> HIDE DEF y
<1>2. SizeOf(5, 1, y) = IF y >= 10000 THEN 6 ELSE 5
  BY <1>1, LengthOfTenths, SMT
<1>3. SizeOf(5, 1, y) = IF x >= 99995 THEN 6 ELSE 5
  BY <1>1, <1>2, SMT
<1> QED
  BY <1>3 DEF y

(* ... of the rain, which takes one more from a metre                      *)
LEMMA LengthOfRain ==
  ASSUME NEW x, OfRain(x)
  PROVE  SizeOf(5, 1, (x + 50) \div 100) = IF x >= 999950 THEN 6 ELSE 5
<1> DEFINE y == (x + 50) \div 100
<1>1. /\ y \in Int /\ 0 <= y /\ y < 100000
      /\ y >= 10000 <=> x >= 999950
  BY SMT DEF OfRain
<1> HIDE DEF y
<1>2. SizeOf(5, 1, y) = IF y >= 10000 THEN 6 ELSE 5
  BY <1>1, LengthOfTenths, SMT
<1>3. SizeOf(5, 1, y) = IF x >= 999950 THEN 6 ELSE 5
  BY <1>1, <1>2, SMT
<1> QED
  BY <1>3 DEF y

(* ... of the humidity and the pressure                                    *)
LEMMA LengthOfOthers ==
  /\ \A x : OfHumid(x) => SizeOf(2, 0, Tenths(x)) \in {2, 3}
  /\ \A x : OfPressure(x) => SizeOf(5, 0, Tenths(x)) = 5
<1>1. ASSUME NEW x, OfHumid(x) PROVE SizeOf(2, 0, Tenths(x)) \in {2, 3}
  <2> DEFINE y == Tenths(x)
  <2>1. y \in Nat /\ y < 9995
    BY <1>1, SMT DEF Tenths, OfHumid
  <2> HIDE DEF y
  <2>2. SizeOf(2, 0, y) \in {2, 3}
    BY <2>1, LengthOfWhole
  <2> QED
    BY <2>2 DEF y
<1>2. ASSUME NEW x, OfPressure(x) PROVE SizeOf(5, 0, Tenths(x)) = 5
  <2> DEFINE y == Tenths(x)
  <2>1. y \in Nat /\ y < 999995
    BY <1>2, SMT DEF Tenths, OfPressure
  <2> HIDE DEF y
  <2>2. SizeOf(5, 0, y) = 5
    BY <2>1, LengthOfWhole
  <2> QED
    BY <2>2 DEF y
<1> QED
  BY <1>1, <1>2

(* ... and of the dew point, which takes six more when it is that of a lost*)
(* humidity                                                                *)
LEMMA LengthOfDewpoint ==
  ASSUME NEW w, NEW x \in Dewpoint(w)
  PROVE  /\ SizeOf(5, 1, Tenths(x)) = IF x < -8300 THEN 11 ELSE 5
         /\ x \in Int
<1> DEFINE y == Tenths(x)
<1>1. x = 0 \/ x = -8300 \/ x = -2147483640
  BY SMT DEF Dewpoint
<1>2. /\ y \in Int /\ (~(x < -8300) => -1000 < y /\ y < 10000)
      /\ x < -8300 => y = -214748364
  BY <1>1, SMT DEF Tenths
<1> HIDE DEF y
<1>3. SizeOf(5, 1, y) = IF x < -8300 THEN 11 ELSE 5
  BY <1>2, LengthOfTenths, SMT
<1> QED
  BY <1>1, <1>3, SMT DEF y

(* What is shown fits, and its greatest wind and rain are those that take  *)
(* more columns.                                                           *)
LEMMA ShownFits ==
  ASSUME ScreenInv, Types \subseteq ReadTypes, PlausibleReadings, shown.stamp # None,
         NEW dewpoint
  PROVE  LET v == OnDisplay(shown, dewpoint) IN
           /\ OfTemp(v.temp) /\ OfTemp(v.min) /\ OfTemp(v.max)
           /\ OfHumid(v.humid) /\ OfPressure(v.pressure)
           /\ OfWind(v.wind) /\ OfWind(v.maxWind) /\ OfRain(v.rain)
           /\ v.dewpoint = dewpoint
           /\ (\E wind \in shown.column.wind \union {shown.maxWind} : wind >= 99995)
                <=> v.wind >= 99995 \/ v.maxWind >= 99995
           /\ (\E rain \in shown.column.rain : rain >= 999950) <=> v.rain >= 999950
<1> DEFINE m == measured[shown.stamp]
           c == Decode(type, m)
           v == OnDisplay(shown, dewpoint)
<1>0. DataInv /\ CopyOfRow(shown) /\ WeatherFits(shown) /\ type \in Types /\ type \in ReadTypes
  BY DEF ScreenInv, PublishInv, DataInv, WeatherTypeOK
<1>1. /\ Sound(m) /\ shown.temp = c.temp
      /\ \A q \in Quantity \ {"temp", "rain"} :
           shown.column[q] = IF Has(type, q) THEN {c[q]} ELSE {}
  BY <1>0, PublishedColumns
<1>2. /\ OfTemp(c.temp)
      /\ Has(type, "humid") => OfHumid(c.humid)
      /\ Has(type, "wind") => OfWind(c.wind)
      /\ Has(type, "pressure") => OfPressure(c.pressure)
  BY <1>0, <1>1, DecodedFits
<1>3. /\ v.temp = shown.temp /\ v.min = shown.min /\ v.max = shown.max
      /\ v.maxWind = shown.maxWind /\ v.dewpoint = dewpoint
      /\ v.humid = Value(shown.column.humid) /\ v.wind = Value(shown.column.wind)
      /\ v.rain = Value(shown.column.rain) /\ v.pressure = Value(shown.column.pressure)
  BY DEF OnDisplay
<1>4. Value({}) = 0 /\ \A x : Value({x}) = x
  BY ValueOfSingleton DEF Value
<1>5. /\ shown.column.humid = IF Has(type, "humid") THEN {c.humid} ELSE {}
      /\ shown.column.wind = IF Has(type, "wind") THEN {c.wind} ELSE {}
      /\ shown.column.pressure = IF Has(type, "pressure") THEN {c.pressure} ELSE {}
  BY <1>1 DEF Quantity
<1> HIDE DEF v, c, m
<1>6. OfHumid(v.humid) /\ OfPressure(v.pressure) /\ OfWind(v.wind)
  <2>1. /\ v.humid = IF Has(type, "humid") THEN c.humid ELSE 0
        /\ v.wind = IF Has(type, "wind") THEN c.wind ELSE 0
        /\ v.pressure = IF Has(type, "pressure") THEN c.pressure ELSE 0
    BY <1>3, <1>4, <1>5, Zenon
  <2> QED
    BY <1>2, <2>1, ZeroFits
<1>7. OfTemp(v.temp) /\ OfTemp(v.min) /\ OfTemp(v.max) /\ OfWind(v.maxWind)
  BY <1>0, <1>1, <1>2, <1>3 DEF WeatherFits
<1> DEFINE Fast(x) == x >= 99995
           Wet(x) == x >= 999950
<1>8. (\E wind \in shown.column.wind \union {shown.maxWind} : Fast(wind))
        <=> Fast(v.wind) \/ Fast(v.maxWind)
  <2>1. ~Fast(0)
    BY SMT
  <2> HIDE DEF Fast
  <2>2. CASE Has(type, "wind")
    <3>1. shown.column.wind = {v.wind} /\ v.maxWind = shown.maxWind
      BY <1>3, <1>4, <1>5, <2>2, Zenon
    <3> QED
      BY <3>1, Zenon
  <2>3. CASE ~Has(type, "wind")
    <3>1. shown.column.wind = {} /\ v.wind = 0 /\ v.maxWind = shown.maxWind
      BY <1>3, <1>4, <1>5, <2>3, Zenon
    <3> QED
      BY <2>1, <3>1, Zenon
  <2> QED
    BY <2>2, <2>3
<1>9. /\ OfRain(v.rain)
      /\ (\E rain \in shown.column.rain : Wet(rain)) <=> Wet(v.rain)
  <2>1. PICK r : shown.column.rain \subseteq {r}
    BY <1>0 DEF WeatherFits
  <2>2. \A x \in shown.column.rain : OfRain(x)
    BY <1>0 DEF WeatherFits
  <2>3. ~Wet(0)
    BY SMT
  <2> HIDE DEF Wet
  <2>4. CASE shown.column.rain = {}
    <3>1. v.rain = 0
      BY <1>3, <1>4, <2>4, Zenon
    <3> QED
      BY <2>3, <2>4, <3>1, ZeroFits, Zenon
  <2>5. CASE shown.column.rain = {r}
    <3>1. v.rain = r /\ OfRain(r)
      BY <1>3, <1>4, <2>2, <2>5, Zenon
    <3> QED
      BY <2>5, <3>1, Zenon
  <2> QED
    BY <2>1, <2>4, <2>5
<1> QED
  BY <1>3, <1>6, <1>7, <1>8, <1>9, SMT DEF v, Fast, Wet

(* A display shows all the texts of a weather, none over another, exactly  *)
(* when it has 7 lines and 21 columns, or 22 when a wind or the rain is    *)
(* that great and 27 when the humidity is lost, whatever station and       *)
(* language (vetero_displayd.cc:176-214, serdisplibdisplay.cc:186-228).    *)
THEOREM ScreenLegibleHolds ==
  ASSUME Types \subseteq ReadTypes, PlausibleReadings, DatasetsOfDay
  PROVE  WeatherSpec => []ScreenLegible
<1>1. WeatherInit => ScreenInv
  BY PublishInit, NewWeatherFits DEF WeatherInit, ScreenInv
<1>2. ScreenInv /\ [WeatherNext]_vars => ScreenInv'
  BY ScreenStep
<1>3. ScreenInv => ScreenLegible
  <2> SUFFICES ASSUME ScreenInv, shown.stamp # None,
                      NEW language \in Languages, NEW dewpoint \in Dewpoint(shown)
               PROVE  LET texts == UpdateDisplay(language, OnDisplay(shown, dewpoint))
                          fast  == \E wind \in shown.column.wind \union {shown.maxWind} : wind >= 99995
                          wet   == \E rain \in shown.column.rain : rain >= 999950
                          columns == IF dewpoint < -8300 THEN 27 ELSE IF fast \/ wet THEN 22 ELSE 21
                      IN  /\ Apart(texts)
                          /\ \A display \in Displays :
                               Complete(display, texts)
                                 <=> display.height >= 63 /\ display.width >= 6 * columns
    BY DEF ScreenLegible
  <2> DEFINE v == OnDisplay(shown, dewpoint)
             texts == UpdateDisplay(language, v)
             fast  == \E wind \in shown.column.wind \union {shown.maxWind} : wind >= 99995
             wet   == \E rain \in shown.column.rain : rain >= 999950
             d == IF dewpoint < -8300 THEN 11 ELSE 5
             w == IF v.wind >= 99995 THEN 6 ELSE 5
             x == IF v.maxWind >= 99995 THEN 6 ELSE 5
             r == IF v.rain >= 999950 THEN 6 ELSE 5
             columns == IF d = 11 THEN 27 ELSE IF w = 6 \/ x = 6 \/ r = 6 THEN 22 ELSE 21
  <2>1. /\ OfTemp(v.temp) /\ OfTemp(v.min) /\ OfTemp(v.max)
        /\ OfHumid(v.humid) /\ OfPressure(v.pressure)
        /\ OfWind(v.wind) /\ OfWind(v.maxWind) /\ OfRain(v.rain)
        /\ v.dewpoint = dewpoint
        /\ fast <=> v.wind >= 99995 \/ v.maxWind >= 99995
        /\ wet <=> v.rain >= 999950
    BY ShownFits
  <2>2. SizeOf(5, 1, Tenths(dewpoint)) = d
    BY LengthOfDewpoint
  <2>3. columns = IF dewpoint < -8300 THEN 27 ELSE IF fast \/ wet THEN 22 ELSE 21
    <3> HIDE DEF v, fast, wet
    <3> QED
      BY <2>1
  <2> HIDE DEF v, fast, wet
  <2>4. Lengths(v, d, w, x, r)
    <3>1. /\ SizeOf(6, 1, Tenths(v.temp)) = 6
          /\ SizeOf(5, 1, Tenths(v.min)) = 5 /\ SizeOf(5, 1, Tenths(v.max)) = 5
      BY <2>1, LengthOfTemp
    <3>2. /\ SizeOf(2, 0, Tenths(v.humid)) \in {2, 3}
          /\ SizeOf(5, 0, Tenths(v.pressure)) = 5
      BY <2>1, LengthOfOthers
    <3>3. SizeOf(5, 1, Tenths(v.wind)) = w /\ SizeOf(5, 1, Tenths(v.maxWind)) = x
      BY <2>1, LengthOfWind
    <3>4. SizeOf(5, 1, (v.rain + 50) \div 100) = r
      BY <2>1, LengthOfRain
    <3>5. d \in {5, 11} /\ w \in {5, 6} /\ x \in {5, 6} /\ r \in {5, 6}
      OBVIOUS
    <3> HIDE DEF d, w, x, r
    <3> QED
      BY <2>1, <2>2, <3>1, <3>2, <3>3, <3>4, <3>5 DEF Lengths
  <2> HIDE DEF d, w, x, r
  <2>5. /\ Apart(texts)
        /\ \A display \in [width : Nat, height : Nat] :
             Complete(display, texts) <=> display.height >= 63 /\ display.width >= 6 * columns
    <3> HIDE DEF columns
    <3> QED
      BY <2>4, ScreenFits DEF columns
  <2>6. Displays \subseteq [width : Nat, height : Nat]
    BY CurrentWeatherAssumption DEF CurrentWeatherAssumption
  <2> HIDE DEF columns, texts
  <2>7. /\ Apart(texts)
        /\ \A display \in Displays :
             Complete(display, texts) <=> display.height >= 63 /\ display.width >= 6 * columns
    BY <2>5, <2>6
  <2> QED
    BY <2>3, <2>7 DEF texts, v, fast, wet
<1> QED
  BY <1>1, <1>2, <1>3, PTL DEF WeatherSpec
=============================================================================
