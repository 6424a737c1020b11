---------------------------- MODULE ReadersProofs ----------------------------
(***************************************************************************)
(* Proofs about the data readers: for any pace, any timeout, any number of *)
(* addresses and report generators, and whatever the station and the clock *)
(* do.                                                                     *)
(***************************************************************************)
EXTENDS Readers, TLAPS

(* The transfer that the reader is in belongs to its type. *)
OfType ==
  /\ pc = "block" => Type = "freetec"
  /\ pc = "line" => ~Polled
  /\ pc \in {"resolve", "connect", "write", "select", "receive"} => Type = "ws980"
  /\ pc \in {"sleep", "check", "use", "line", "block", "select"} => ~opening
  /\ opening => since = Pace
  /\ pc \in {"open", "receive"} => opening

(* There is a peer exactly while there is a socket. *)
Socket ==
  /\ pc \in {"write", "select", "receive"} <=> peer # "none"
  /\ sockets = IF peer # "none" THEN 1 ELSE 0

(* m_nextRead is five minutes after the last good read, less what the      *)
(* clock was set ahead.                                                    *)
Due ==
  /\ Polled => since = Pace \/ wait + since + ahead >= Pace
  /\ ahead <= shifted

(* A read without a sensor returns nothing; the others what was parsed. *)
Parsed == pc = "use" /\ ~Polled => dataset = ParsedParts(settings)

Numbered == Type = "normal" => settings.sensor_number \in Nat \ {0}

ReadersInv ==
  /\ ReadersTypeOK /\ OfType /\ Socket /\ Due /\ Parsed /\ Numbered /\ SurvivesStation

-----------------------------------------------------------------------------
LEMMA Bounds ==
  /\ 0 \in -MaxShift .. Pace + MaxShift /\ 0 \in 0 .. Pace + MaxShift
  /\ 0 \in 0 .. Pace /\ Pace \in 0 .. Pace /\ 0 \in 0 .. MaxShift
  /\ 0 \in 0 .. Timeout /\ 0 \in 0 .. MaxAddresses /\ 0 \in 0 .. MaxChildren
BY ReaderAssumption

LEMMA SensorNumbered ==
  ASSUME NEW keys \in Keys, Settings(keys, {}).sensor_type = "normal"
  PROVE  Settings(keys, {}).sensor_number \in Nat \ {0}
<1>1. Key(keys, "sensor_number", -1) \in Int
  BY ReaderAssumption
<1>2. Settings(keys, {}).sensor_number
        = SensorNumber(Settings(keys, {}).sensor_type, Key(keys, "sensor_number", -1))
  BY DEF Settings
<1> QED
  BY <1>1, <1>2 DEF SensorNumber

LEMMA ReadersInit == Init => ReadersInv
<1> SUFFICES ASSUME Init PROVE ReadersInv
  OBVIOUS
<1>1. Numbered
  BY SensorNumbered DEF Init, Numbered, Type
<1>2. ReadersTypeOK
  BY Bounds DEF Init, ReadersTypeOK, Station, Transfer
<1>3. OfType /\ Socket /\ Due /\ Parsed /\ SurvivesStation
  BY DEF Init, OfType, Socket, Due, Parsed, SurvivesStation, Polled
<1> QED
  BY <1>1, <1>2, <1>3 DEF ReadersInv

(* The three ends of a transfer preserve the invariant. *)
LEMMA ThrowInv ==
  ASSUME ReadersInv, NEW error, Throw(error),
         error \in ApplicationErrors \/ Type = "freetec"
  PROVE  ReadersInv'
<1> USE DEF Throw, ReadersInv, clockVars, worldVars, Type, Polled
<1>1. ReadersTypeOK'
  BY ReaderAssumption DEF ReadersTypeOK, NoSocket, Socket, Transfer
<1>2. OfType' /\ Due' /\ Parsed' /\ Numbered'
  BY DEF OfType, Due, Parsed, Numbered
<1>3. Socket'
  BY DEF Socket, NoSocket
<1>4. SurvivesStation'
  BY DEF SurvivesStation
<1> QED
  BY <1>1, <1>2, <1>3, <1>4

LEMMA OpenedInv ==
  ASSUME ReadersInv, opening, Opened
  PROVE  ReadersInv'
<1> USE DEF Opened, ReadersInv, clockVars, worldVars, Type, Polled
<1>1. ReadersTypeOK'
  <2>1. wait' \in -MaxShift .. Pace + MaxShift /\ addresses' \in 0 .. MaxAddresses
        /\ elapsed' \in 0 .. Timeout
    BY Bounds DEF NoSocket
  <2>2. sockets' \in Nat /\ peer' = "none"
    BY DEF ReadersTypeOK, NoSocket, Socket
  <2> QED
    BY <2>1, <2>2 DEF ReadersTypeOK
<1>2. OfType' /\ Parsed' /\ Due' /\ Numbered' /\ SurvivesStation'
  BY DEF OfType, Due, Parsed, Numbered, SurvivesStation
<1>3. Socket'
  BY DEF Socket, NoSocket
<1> QED
  BY <1>1, <1>2, <1>3

LEMMA GoodInv ==
  ASSUME ReadersInv, NEW d, Good(d), ~opening,
         ~Polled => d = ParsedParts(settings)
  PROVE  ReadersInv'
<1> USE DEF Good, ReadersInv, clockVars, worldVars, Type, Polled
<1>1. ReadersTypeOK'
  BY ReaderAssumption DEF ReadersTypeOK, NoSocket, Socket, Transfer, AtLeast
<1>2. OfType' /\ Parsed' /\ Numbered' /\ SurvivesStation'
  BY DEF OfType, Parsed, Numbered, SurvivesStation
<1>3. Socket'
  BY DEF Socket, NoSocket
<1>4. Due'
  BY ReaderAssumption DEF Due, ReadersTypeOK, AtLeast
<1> QED
  BY <1>1, <1>2, <1>3, <1>4

(* openConnection and the pause *)
LEMMA PauseInv ==
  ASSUME ReadersInv,
         OpenDevice \/ OpenFails \/ OpenSocket \/ Begin \/ Sleep \/ Wake \/ Use
  PROVE  ReadersInv'
<1>1. CASE OpenDevice
  <2>1. opening
    BY <1>1 DEF OpenDevice, ReadersInv, OfType
  <2> QED
    BY <1>1, <2>1, OpenedInv DEF OpenDevice
<1>2. CASE OpenFails
  BY <1>2, ThrowInv DEF OpenFails, ApplicationErrors
<1> SUFFICES ASSUME OpenSocket \/ Begin \/ Sleep \/ Wake \/ Use
             PROVE  ReadersInv'
  BY <1>1, <1>2
<1> USE DEF OpenSocket, Begin, Sleep, Wake, Use, Goto, First, ReadersInv, clockVars, socketVars,
            worldVars, Type, Polled
<1>3. ReadersTypeOK'
  <2>1. pc' \in Transfer \cup {"check", "sleep"}
    BY DEF Transfer
  <2>2. nap' \in 0 .. Pace + MaxShift /\ during' \in 0 .. Pace
    BY ReaderAssumption, Bounds DEF ReadersTypeOK
  <2>3. children' \in 0 .. MaxChildren
    BY ReaderAssumption DEF ReadersTypeOK, AtMost
  <2> QED
    BY <2>1, <2>2, <2>3 DEF ReadersTypeOK
<1>4. OfType' /\ Parsed' /\ Numbered' /\ SurvivesStation'
  BY DEF OfType, Parsed, Numbered, SurvivesStation
<1>5. Socket' /\ Due'
  BY DEF Socket, Due
<1> QED
  BY <1>3, <1>4, <1>5

(* The serial line and the USB device *)
LEMMA DeviceInv ==
  ASSUME ReadersInv, ReadLine \/ ReadBlocks
  PROVE  ReadersInv'
<1>1. CASE ReadLine
  <2>1. ~opening
    BY <1>1 DEF ReadLine, ReadersInv, OfType
  <2> QED
    BY <1>1, <2>1, ThrowInv, GoodInv DEF ReadLine, ApplicationErrors
<1>2. CASE ReadBlocks
  <2>1. ~opening /\ Type = "freetec"
    BY <1>2 DEF ReadBlocks, ReadersInv, OfType
  <2>2. Polled
    BY <2>1 DEF Polled
  <2> QED
    BY <1>2, <2>1, <2>2, ThrowInv, GoodInv DEF ReadBlocks
<1> QED
  BY <1>1, <1>2

(* connect *)
LEMMA ConnectInv ==
  ASSUME ReadersInv,
         Resolve \/ ResolveFails \/ ConnectAddress \/ AddressRefuses \/ NoAddressLeft
  PROVE  ReadersInv'
<1>1. CASE ResolveFails
  <2>1. CASE Throw("NetworkAddressError")
    BY <2>1, ThrowInv DEF ApplicationErrors
  <2>2. CASE ~Throw("NetworkAddressError")
    <3> USE DEF ResolveFails, ReadersInv, clockVars, worldVars, Type, Polled
    <3>1. ReadersTypeOK'
      BY <1>1, <2>2, Bounds DEF ReadersTypeOK, NoSocket, Socket
    <3>2. OfType' /\ Parsed' /\ Numbered' /\ SurvivesStation' /\ Socket' /\ Due'
      BY <1>1, <2>2 DEF OfType, Parsed, Numbered, SurvivesStation, Socket, NoSocket, Due
    <3> QED
      BY <3>1, <3>2
  <2> QED
    BY <2>1, <2>2
<1>2. CASE NoAddressLeft
  BY <1>2, ThrowInv DEF NoAddressLeft, ApplicationErrors
<1> SUFFICES ASSUME Resolve \/ ConnectAddress \/ AddressRefuses
             PROVE  ReadersInv'
  BY <1>1, <1>2
<1> USE DEF Resolve, ConnectAddress, AddressRefuses, Goto, ReadersInv, clockVars, worldVars, Type, Polled
<1>3. ReadersTypeOK'
  <2>1. pc' \in Transfer /\ sockets' \in Nat /\ peer' \in {"none", "live", "dead"}
    BY DEF ReadersTypeOK, Transfer
  <2>2. addresses' \in 0 .. MaxAddresses /\ elapsed' = elapsed
    BY ReaderAssumption DEF ReadersTypeOK
  <2> QED
    BY <2>1, <2>2 DEF ReadersTypeOK
<1>4. OfType' /\ Parsed' /\ Numbered' /\ SurvivesStation'
  BY DEF OfType, Parsed, Numbered, SurvivesStation
<1>5. Socket' /\ Due'
  BY DEF Socket, Due
<1> QED
  BY <1>3, <1>4, <1>5

(* The request and the response *)
LEMMA ExchangeInv ==
  ASSUME ReadersInv,
         Write \/ WriteFails \/ Version \/ Response \/ Reset \/ ReadTimeout
  PROVE  ReadersInv'
<1>0. /\ pc = "select" => ~opening /\ Polled
      /\ pc = "receive" => opening
  BY DEF ReadersInv, OfType, Polled
<1>1. CASE WriteFails \/ ReadTimeout
  BY <1>1, ThrowInv DEF WriteFails, ReadTimeout, ApplicationErrors
<1>2. CASE Version
  BY <1>0, <1>2, OpenedInv DEF Version
<1>3. CASE Response
  BY <1>0, <1>3, ThrowInv, GoodInv DEF Response, ApplicationErrors
<1>4. CASE Reset
  BY <1>4, ThrowInv, OpenedInv DEF Reset, ApplicationErrors
<1>5. CASE Write
  <2> USE DEF Write, Goto, ReadersInv, clockVars, socketVars, worldVars, Type, Polled
  <2>1. ReadersTypeOK'
    BY <1>5 DEF ReadersTypeOK, Transfer
  <2>2. OfType' /\ Parsed' /\ Numbered' /\ SurvivesStation' /\ Socket' /\ Due'
    BY <1>5 DEF OfType, Parsed, Numbered, SurvivesStation, Socket, Due
  <2> QED
    BY <2>1, <2>2
<1> QED
  BY <1>1, <1>2, <1>3, <1>4, <1>5

(* What happens beside the reader *)
LEMMA WorldInv ==
  ASSUME ReadersInv, ChildEnds \/ Tick \/ SetClock \/ StationChanges \/ Unplug
  PROVE  ReadersInv'
<1> USE DEF ReadersInv, clockVars, socketVars, worldVars, Type, Polled
<1>1. CASE ChildEnds
  <2>1. ReadersTypeOK'
    <3>1. children' \in 0 .. MaxChildren
      BY <1>1, ReaderAssumption DEF ChildEnds, ReadersTypeOK
    <3>2. /\ addresses' \in 0 .. MaxAddresses /\ sockets' \in Nat
          /\ peer' \in {"none", "live", "dead"} /\ elapsed' \in 0 .. Timeout
      BY <1>1, Bounds DEF ChildEnds, ReadersTypeOK, NoSocket, Socket
    <3> QED
      BY <1>1, <3>1, <3>2 DEF ChildEnds, ReadersTypeOK, Transfer
  <2>2. OfType' /\ Parsed' /\ Numbered' /\ SurvivesStation' /\ Due'
    BY <1>1 DEF ChildEnds, OfType, Parsed, Numbered, SurvivesStation, Due
  <2>3. Socket'
    BY <1>1 DEF ChildEnds, Socket, NoSocket
  <2> QED
    BY <2>1, <2>2, <2>3
<1>2. CASE Tick
  <2>1. ReadersTypeOK'
    BY <1>2, ReaderAssumption DEF Tick, ReadersTypeOK, AtLeast, AtMost
  <2>2. OfType' /\ Parsed' /\ Numbered' /\ SurvivesStation' /\ Socket'
    BY <1>2, ReaderAssumption DEF Tick, OfType, Parsed, Numbered, SurvivesStation, Socket, AtMost
  <2>3. Due'
    BY <1>2, ReaderAssumption DEF Tick, Due, ReadersTypeOK, AtLeast, AtMost
  <2> QED
    BY <2>1, <2>2, <2>3
<1>3. CASE SetClock
  <2>1. ReadersTypeOK'
    BY <1>3, ReaderAssumption DEF SetClock, ReadersTypeOK, Due, AtLeast, AtMost
  <2>2. OfType' /\ Parsed' /\ Numbered' /\ SurvivesStation' /\ Socket'
    BY <1>3 DEF SetClock, OfType, Parsed, Numbered, SurvivesStation, Socket
  <2>3. Due'
    BY <1>3, ReaderAssumption DEF SetClock, Due, ReadersTypeOK, AtLeast, AtMost
  <2> QED
    BY <2>1, <2>2, <2>3
<1>4. CASE StationChanges
  <2>1. ReadersTypeOK'
    BY <1>4 DEF StationChanges, ReadersTypeOK
  <2>2. OfType' /\ Parsed' /\ Numbered' /\ SurvivesStation' /\ Socket' /\ Due'
    BY <1>4 DEF StationChanges, OfType, Parsed, Numbered, SurvivesStation, Socket, Due
  <2> QED
    BY <2>1, <2>2
<1>5. CASE Unplug
  <2>1. ReadersTypeOK'
    BY <1>5 DEF Unplug, ReadersTypeOK
  <2>2. OfType' /\ Parsed' /\ Numbered' /\ SurvivesStation' /\ Socket' /\ Due'
    BY <1>5 DEF Unplug, OfType, Parsed, Numbered, SurvivesStation, Socket, Due
  <2> QED
    BY <2>1, <2>2
<1> QED
  BY <1>1, <1>2, <1>3, <1>4, <1>5

LEMMA ReadersStep == ReadersInv /\ [Next]_vars => ReadersInv'
<1> SUFFICES ASSUME ReadersInv, [Next]_vars PROVE ReadersInv'
  OBVIOUS
<1>1. CASE Next
  BY <1>1, PauseInv, DeviceInv, ConnectInv, ExchangeInv, WorldInv DEF Next, Veterod
<1>2. CASE UNCHANGED vars
  <2> USE DEF vars, clockVars, socketVars, worldVars, Type, Polled
  <2>1. ReadersTypeOK'
    BY <1>2 DEF ReadersInv, ReadersTypeOK
  <2>2. OfType' /\ Parsed' /\ Numbered' /\ SurvivesStation' /\ Socket' /\ Due'
    BY <1>2 DEF ReadersInv, OfType, Parsed, Numbered, SurvivesStation, Socket, Due
  <2> QED
    BY <2>1, <2>2 DEF ReadersInv
<1> QED
  BY <1>1, <1>2

LEMMA ReadersInvariant == Spec => []ReadersInv
BY ReadersInit, ReadersStep, PTL DEF Spec

-----------------------------------------------------------------------------
(* The reader keeps its types and its bounds for any number of addresses   *)
(* and report generators.                                                  *)
THEOREM ReadersTypeCorrect == Spec => []ReadersTypeOK
BY ReadersInvariant, PTL DEF ReadersInv

(* No descriptor is left by a connection, however it ended                 *)
(* (datasocket.cc:65), for any number of addresses.                        *)
THEOREM NoSocketLeftHolds == Spec => []NoSocketLeft
<1>1. ReadersInv => NoSocketLeft
  BY DEF ReadersInv, Socket, NoSocketLeft
<1> QED
  BY <1>1, ReadersInvariant, PTL

(* Only a start, the USB library or the free of addresses that were not    *)
(* found can end veterod (veterod.cc:430, datasocket.cc:54).               *)
THEOREM SurvivesStationHolds == Spec => []SurvivesStation
BY ReadersInvariant, PTL DEF ReadersInv

(* Temperature and humidity are those of the sensor that is configured,    *)
(* for every number (datareader.cc:143).                                   *)
THEOREM OwnSensorHolds == Spec => []OwnSensor
<1>1. ReadersInv => OwnSensor
  <2> SUFFICES ASSUME ReadersInv, pc = "use" PROVE OwnSensor
    BY DEF OwnSensor
  <2>1. CASE Type = "kombi"
    BY <2>1 DEF ReadersInv, Parsed, Polled, Type, ParsedParts, LogView, OwnSensor
  <2>2. CASE Type = "normal"
    BY <2>2 DEF ReadersInv, Parsed, Numbered, Polled, Type, ParsedParts, LogView, OwnSensor
  <2> QED
    BY <2>1, <2>2 DEF OwnSensor
<1> QED
  BY <1>1, ReadersInvariant, PTL

(* Whatever cuts the pause short and however many reads fail, a station    *)
(* is not asked before its time (datareader.cc:236, 374), for any pace and *)
(* any setting of the clock.                                               *)
THEOREM PacedHolds == Spec => Paced
<1>1. ReadersInv /\ [Next]_vars
        => [Polled /\ pc \in {"check", "sleep"} /\ pc' \in Transfer => since + ahead >= Pace]_vars
  <2> SUFFICES ASSUME ReadersInv, Next, Polled, pc \in {"check", "sleep"}, pc' \in Transfer
               PROVE  since + ahead >= Pace
    OBVIOUS
  <2>1. Begin
    BY DEF Next, Veterod, OpenDevice, OpenFails, OpenSocket, Sleep, Wake, ReadLine, ReadBlocks,
           Resolve, ResolveFails, ConnectAddress, AddressRefuses, NoAddressLeft, Write, WriteFails,
           Version, Response, Reset, ReadTimeout, Use, ChildEnds, Tick, SetClock, StationChanges,
           Unplug, Transfer, Goto
  <2>2. wait <= 0
    BY <2>1 DEF Begin
  <2>3. since = Pace \/ wait + since + ahead >= Pace
    BY DEF ReadersInv, Due
  <2>4. wait \in Int /\ since \in Int /\ ahead \in Nat
    BY ReaderAssumption DEF ReadersInv, ReadersTypeOK
  <2> QED
    BY <2>2, <2>3, <2>4, ReaderAssumption
<1> QED
  BY <1>1, ReadersInvariant, PTL DEF Spec, Paced
=============================================================================
