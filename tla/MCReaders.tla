------------------------------ MODULE MCReaders ------------------------------
(* One configuration for each kind of reader; the numbers of the normal    *)
(* sensors are the boundaries, and one that is not a number of a sensor.   *)
EXTENDS Readers

MCKeys ==
  { "sensor_type" :> "kombi", "sensor_type" :> "freetec", "sensor_type" :> "ws980",
    "sensor_type" :> "unknown" }
  \cup { "sensor_type" :> "normal" @@ "sensor_number" :> n : n \in {-1, 0, 1, 8} }
=============================================================================
