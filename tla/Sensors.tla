------------------------------ MODULE Sensors -------------------------------
(***************************************************************************)
(* The weather stations and the formulas of a dataset: which columns a     *)
(* station measures (SensorType, dataset.h), how the data readers decode   *)
(* what it sends (datareader.cc), the Beaufort scale (weather.cc) and the  *)
(* names of the wind's directions (dataset.cc).  Pure operators.           *)
(*                                                                         *)
(* A measurement maps each quantity to a number in the station's own unit; *)
(* Lost is a quantity the station has no value for.  The encodings are the *)
(* stations' (external); the decodings are the code's.  A floating point   *)
(* product that is truncated to an int can be one hundredth less than here.*)
(***************************************************************************)
EXTENDS Integers, FiniteSets

SensorType == {"kombi", "kombi_no_rain", "pool", "normal", "freetec", "ws980"}

Quantity == {"temp", "humid", "wind", "gust", "dir", "sun", "pressure", "rain"}

(* SensorType::hasTemperature ... hasPressure *)
Sensors ==
  [temp     |-> SensorType,
   humid    |-> SensorType \ {"pool"},
   wind     |-> {"kombi", "kombi_no_rain", "freetec", "ws980"},
   gust     |-> {"freetec", "ws980"},
   dir      |-> {"freetec", "ws980"},
   sun      |-> {"ws980"},
   pressure |-> {"freetec", "ws980"},
   rain     |-> {"kombi", "freetec", "ws980"}]

Has(type, q) == type \in Sensors[q]

Lost == 32767

(* What the encoding of a station can carry.  A FreeTec station that has   *)
(* its outdoor sensor gives the direction as a sixteenth of the circle.    *)
Measurable(type, m) ==
  /\ m \in [Quantity -> Int]
  /\ \A q \in Quantity \ {"temp"} : m[q] >= 0
  /\ type = "freetec" =>
       /\ -Lost <= m.temp /\ m.temp <= Lost
       /\ \A q \in {"wind", "gust"} : m[q] < 4096 \/ m[q] = Lost
       /\ m.humid < 256 \/ m.humid = Lost
       /\ m.pressure < 65536
       /\ m.dir < 16 \/ m.temp = Lost
  /\ type = "ws980" =>
       /\ -32768 <= m.temp /\ m.temp <= Lost
       /\ \A q \in {"wind", "gust"} : m[q] < 65535
       /\ m.humid < 255 \/ m.humid = Lost
       /\ m.pressure < 65536 /\ m.pressure # 4095
       /\ m.dir < 360 \/ m.dir = Lost
       /\ m.sun \div 65536 < 65536

(* What weather there is: a wind below 1600 km/h (the number a FreeTec     *)
(* station has for a wind that it lost is below that), a pressure from 300 *)
(* to 1100 hPa; or the quantity is lost.                                   *)
Plausible(type, m) ==
  /\ m.humid <= 100 \/ m.humid = Lost
  /\ \A q \in {"wind", "gust"} :
       m[q] * (CASE type = "freetec" -> 38 [] type = "ws980" -> 36 [] OTHER -> 10) < 160000
       \/ m[q] = Lost
  /\ (m.pressure >= 3000 /\ m.pressure <= 11000) \/ m.pressure = Lost

-----------------------------------------------------------------------------
(* A number as bytes, the high one first, and back *)
Hi(n) == (n \div 256) % 256
Lo(n) == n % 256
Word(hi, lo) == hi * 256 + lo
Signed16(n) == IF n >= 32768 THEN n - 65536 ELSE n

(* USB-WDE1: parts of a line.  A decimal is a sign, a whole and a tenth,   *)
(* separated by a comma; a sensor out of reach leaves its part empty.      *)
Part(n) == IF n = Lost THEN <<>>
           ELSE LET size == IF n < 0 THEN -n ELSE n IN <<n < 0, size \div 10, size % 10>>

(* from_str<int> of the part without the comma; libbw makes 0 of nothing. *)
WithoutComma(part) ==
  IF part = <<>> THEN 0
  ELSE (IF part[1] THEN -1 ELSE 1) * (part[2] * 10 + part[3])

Whole(n) == IF n = Lost THEN 0 ELSE n

Zeros == [q \in Quantity |-> 0]

(* UsbWde1DataReader::parseDataset: the parts of the sensor that is        *)
(* configured; of the other types none is read.                            *)
ParseDataset(type, m) ==
  CASE type = "kombi" ->
         [Zeros EXCEPT !.temp = WithoutComma(Part(m.temp)) * 10, !.humid = Whole(m.humid) * 100,
                       !.wind = WithoutComma(Part(m.wind)) * 10, !.rain = Whole(m.rain)]
    [] type = "normal" ->
         [Zeros EXCEPT !.temp = WithoutComma(Part(m.temp)) * 10, !.humid = Whole(m.humid) * 100]
    [] OTHER -> Zeros

(* The block of the FreeTec station: the sign of the temperature is a bit  *)
(* of its own, wind and gust share a byte for their high nibbles.          *)
FreeTecBlock(m) ==
  LET size == IF m.temp < 0 THEN -m.temp ELSE m.temp
      wind == IF m.wind = Lost THEN 4095 ELSE m.wind
      gust == IF m.gust = Lost THEN 4095 ELSE m.gust
      bytes == <<Lo(m.humid), Lo(size), Hi(size) + (IF m.temp < 0 THEN 128 ELSE 0),
                 Lo(m.pressure), Hi(m.pressure), Lo(wind), Lo(gust),
                 Hi(wind) + 16 * Hi(gust), Lo(m.dir),
                 Lo(m.rain), Hi(m.rain)>>
  IN  [i \in 4 .. 14 |-> bytes[i - 3]]

(* Mutant of WindHigh: the nibble of the gust is taken. *)
GustNibble(extra) == extra \div 16

(* The high bits of wind and gust in the byte they share *)
WindHigh(extra) == extra % 16
GustHigh(extra) == extra \div 16

(* FreeTecDataReader::read, for a station at sea level *)
FreeTecDataset(block) ==
  [temp     |-> (IF block[6] >= 128 THEN -1 ELSE 1) * Word(block[6] % 128, block[5]) * 10,
   humid    |-> block[4] * 100,
   pressure |-> Word(block[8], block[7]) * 10,
   wind     |-> Word(WindHigh(block[11]), block[9]) * 38,
   gust     |-> Word(GustHigh(block[11]), block[10]) * 38,
   dir      |-> (block[12] * 45) \div 2,
   rain     |-> Word(block[14], block[13]),
   sun      |-> 0]

(* The response of the WS980: words with the high byte first, negative     *)
(* temperatures in two's complement, all bits set for what is missing.     *)
Ws980Response(m) ==
  LET Or(n, missing) == IF n = Lost THEN missing ELSE n
      words == {10, 29, 32, 35, 38, 66, 68, 71, 73}
      Sent(i) == CASE i = 10 -> m.temp % 65536      [] i = 29 -> Or(m.pressure, 4095)
                   [] i = 32 -> Or(m.dir, 4095)     [] i = 35 -> Or(m.wind, 65535)
                   [] i = 38 -> Or(m.gust, 65535)   [] i = 68 -> m.rain
                   [] i = 71 -> m.sun \div 65536    [] i = 73 -> m.sun
                   [] OTHER  -> 0
  IN  [i \in 0 .. 79 |-> IF i = 24 THEN Or(m.humid, 255)
                         ELSE IF i \in words THEN Hi(Sent(i))
                         ELSE IF i - 1 \in words THEN Lo(Sent(i - 1)) ELSE 0]

(* Ws980DataReader::read: what is missing keeps the 0 of a new Dataset. *)
Ws980Dataset(response) ==
  LET At(i) == Word(response[i], response[i + 1])
      Unless(n, missing, value) == IF n = missing THEN 0 ELSE value
  IN  [temp     |-> Unless(Signed16(At(10)), 32767, Signed16(At(10)) * 10),
       humid    |-> Unless(response[24], 255, response[24] * 100),
       pressure |-> Unless(At(29), 4095, At(29) * 10),
       dir      |-> Unless(At(32), 4095, At(32)),
       wind     |-> Unless(At(35), 65535, At(35) * 36),
       gust     |-> Unless(At(38), 65535, At(38) * 36),
       rain     |-> At(66) * 65536 + At(68),
       sun      |-> (20 * (At(71) * 65536 + At(73)) + 1267) \div 2534]

(* DataReader::create and the read of the reader it makes *)
Decode(type, m) ==
  CASE type = "freetec" -> FreeTecDataset(FreeTecBlock(m))
    [] type = "ws980"   -> Ws980Dataset(Ws980Response(m))
    [] OTHER            -> ParseDataset(type, m)

(* A temperature outside of -50 .. 70 degrees: the dataset is corrupt. *)
Corrupt(dataset) == dataset.temp < -5000 \/ dataset.temp >= 7000

(* Dataset::rainGaugeFactor, in 1/1000 mm *)
RainGaugeFactor(type) ==
  CASE type = "freetec" -> 300 [] type = "ws980" -> 100 [] OTHER -> 295

-----------------------------------------------------------------------------
(* Mutant of BeaufortLimits: 74 is mistyped. *)
LimitsMistyped == <<0, 5, 11, 19, 28, 38, 49, 61, 84, 88, 102, 117>>

(* weather::windSpeedToBft: the last km/h of each strength *)
BeaufortLimits == <<0, 5, 11, 19, 28, 38, 49, 61, 74, 88, 102, 117>>

(* round(hundredths / 100.0) *)
Rounded(hundredths) == (hundredths + 50) \div 100
Beaufort(hundredths) ==
  Cardinality({ i \in DOMAIN BeaufortLimits : BeaufortLimits[i] < Rounded(hundredths) })

WindDirs == <<"N", "NNE", "NE", "ENE", "E", "ESE", "SE", "SSE",
              "S", "SSW", "SW", "WSW", "W", "WNW", "NW", "NNW">>

(* CurrentWeather::windDirectionStr: the sectors are 22 degrees wide. *)
WindIndex(degrees) == (degrees \div 22) % 16
WindDirectionStr(degrees) == WindDirs[WindIndex(degrees) + 1]
=============================================================================
