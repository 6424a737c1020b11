-------------------------- MODULE MCCurrentWeather --------------------------
EXTENDS CurrentWeather, TLC

(* In the units of the stations: a frost with a strong wind and fog, a calm*)
(* and hot day, a reading of a station that has lost its sensors, a corrupt*)
(* one.                                                                    *)
(* The FreeTec station has also lost the wind of a reading.                *)
(* The WS980 measures the wind's direction in degrees, the FreeTec station *)
(* in sixteenths, and a reading it has lost the temperature of is corrupt. *)
MCSamples ==
  LET cold == [temp |-> -25, humid |-> 100, wind |-> 306, gust |-> 520, dir |-> 3,
               sun |-> 50000, pressure |-> 10132, rain |-> 1]
      warm == [temp |-> 391, humid |-> 45, wind |-> 0, gust |-> 206, dir |-> 12,
               sun |-> 1000, pressure |-> 9987, rain |-> 300]
      lost == [q \in Quantity |-> IF q \in {"rain", "sun"} THEN 0 ELSE Lost]
      hot  == [warm EXCEPT !.temp = 812]
  IN  ("kombi"   :> {cold, lost, hot}) @@ ("normal" :> {cold, warm, hot}) @@
      ("freetec" :> {cold, [warm EXCEPT !.wind = Lost], lost, hot}) @@
      ("ws980"   :> {[cold EXCEPT !.dir = 43], [warm EXCEPT !.dir = 354], lost, hot})

(* Displays of 21x7 and of 40x7 characters, one that lacks a pixel for the *)
(* last line, one that lacks a pixel for the last column, and a narrow one.*)
MCDisplays ==
  { [width |-> 128, height |-> 64], [width |-> 240, height |-> 63],
    [width |-> 128, height |-> 62], [width |-> 125, height |-> 64],
    [width |-> 60, height |-> 96] }

(* The readings are of weather that there is. *)
ASSUME PlausibleSamples == \A t \in Types : \A m \in Samples[t] : Plausible(t, m)
=============================================================================
