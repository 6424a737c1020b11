------------------------------- MODULE Readers -------------------------------
(***************************************************************************)
(* The data readers (src/src/veterod/datareader.cc) and the socket of the  *)
(* WS980 (src/src/common/datasocket.cc), as veterod's loop calls them:     *)
(* openConnection once, then read, again and again.                        *)
(*                                                                         *)
(* The USB-WDE1 sends a line when it has one, and read blocks for it.  The *)
(* FreeTec and the WS980 are asked: read sleeps until m_nextRead, five     *)
(* minutes after the start of the last read that went well.  A report      *)
(* generator that ends sends SIGCHLD, which cuts sleep and select short    *)
(* (the handler is installed with signal(), so that read and connect are   *)
(* restarted).  An ApplicationError is logged by the loop, which reads     *)
(* again at once; any other exception ends veterod, and so does each one   *)
(* before the loop.                                                        *)
(*                                                                         *)
(* Time is counted in ticks, relative to now.  The clock may be set; that  *)
(* no step of a transfer looks at it makes it enough to set it while the   *)
(* reader is not in one.                                                   *)
(***************************************************************************)
EXTENDS Configuration

CONSTANTS Keys,         \* the configurations: what their files set
          Pace,         \* ticks from one read to the next (5*60 seconds)
          Timeout,      \* ticks that select waits (5000 ms)
          MaxShift,     \* bound: ticks that the clock is set by, all in all
          MaxAddresses, \* bound: addresses of the station's host
          MaxChildren   \* bound: report generators at a time

ASSUME ReaderAssumption ==
  /\ Pace \in Nat \ {0} /\ Timeout \in Nat \ {0}
  /\ MaxShift \in Nat /\ MaxAddresses \in Nat \ {0} /\ MaxChildren \in Nat
  /\ \A keys \in Keys : Key(keys, "sensor_number", -1) \in Int

VARIABLES settings,   \* the configuration veterod has read
          pc,         \* where the reader is
          opening,    \* it is in openConnection
          wait,       \* m_nextRead - now
          nap,        \* ticks until sleep returns by itself
          since,      \* history: ticks since the last good read began
          ahead,      \* history: ticks the clock was set ahead since then
          during,     \* ticks since the read began
          dataset,    \* what the last read returned
          addresses,  \* of the host, left to be tried
          sockets,    \* descriptors of sockets that are open
          peer,       \* the station at the other end: "none", "live" or "dead"
          elapsed,    \* ticks spent in select
          children,   \* report generators that run
          station,    \* what the weather station does
          lost,       \* the serial or USB device is gone, its descriptor is not
          shifted,    \* ticks the clock was set by so far
          crashed     \* history: freeaddrinfo of a wild pointer was the end

clockVars == <<wait, since, ahead, shifted>>
socketVars == <<addresses, sockets, peer, elapsed>>
worldVars == <<station, lost, children>>
vars == <<settings, pc, opening, clockVars, nap, during, dataset, socketVars, worldVars, crashed>>

(* "silent" is a station that is reached and says nothing or that has lost *)
(* its power, "off" one that cannot be reached or found.                   *)
Station  == {"up", "garbled", "silent", "off"}
Transfer == {"line", "block", "resolve", "connect", "write", "select", "receive"}
Nothing  == "nothing"

Type   == settings.sensor_type
Polled == Type \in {"freetec", "ws980"}

AtLeast(low, n) == IF n < low THEN low ELSE n
AtMost(high, n) == IF n > high THEN high ELSE n

-----------------------------------------------------------------------------
(* The parts of a line of the USB-WDE1: those of eight sensors, and those  *)
(* of the combination sensor (external).                                   *)
LogView(i) ==
  IF i \in 3 .. 10 THEN <<"temperature", i - 2>>
  ELSE IF i \in 11 .. 18 THEN <<"humidity", i - 10>>
  ELSE IF i = 19 THEN <<"temperature", "kombi">>
  ELSE IF i = 20 THEN <<"humidity", "kombi">>
  ELSE Nothing

(* Mutant of ParsedParts: the humidity of the first sensor. *)
HumidityOfFirst(s) ==
  IF s.sensor_type = "normal"
  THEN <<LogView(3 + s.sensor_number - 1), LogView(11)>> ELSE <<LogView(19), LogView(20)>>

(* parseDataset: the parts that temperature and humidity are taken from *)
ParsedParts(s) ==
  IF s.sensor_type = "kombi" THEN <<LogView(19), LogView(20)>>
  ELSE IF s.sensor_type = "normal"
  THEN <<LogView(3 + s.sensor_number - 1), LogView(11 + s.sensor_number - 1)>>
  ELSE <<Nothing, Nothing>>

-----------------------------------------------------------------------------
ReadersTypeOK ==
  /\ settings \in { Settings(keys, {}) : keys \in Keys }
  /\ pc \in Transfer \cup {"open", "check", "sleep", "use", "ended"}
  /\ opening \in BOOLEAN /\ lost \in BOOLEAN /\ crashed \in BOOLEAN
  /\ wait \in -MaxShift .. Pace + MaxShift /\ nap \in 0 .. Pace + MaxShift
  /\ since \in 0 .. Pace /\ during \in 0 .. Pace
  /\ ahead \in 0 .. MaxShift /\ shifted \in 0 .. MaxShift
  /\ addresses \in 0 .. MaxAddresses /\ sockets \in Nat
  /\ peer \in {"none", "live", "dead"} /\ elapsed \in 0 .. Timeout
  /\ children \in 0 .. MaxChildren /\ station \in Station

Init ==
  /\ settings \in { Settings(keys, {}) : keys \in Keys }
  /\ pc = "open" /\ opening = TRUE
  /\ wait = 0 /\ nap = 0 /\ since = Pace /\ ahead = 0 /\ during = 0 /\ shifted = 0
  /\ dataset = Nothing
  /\ addresses = 0 /\ sockets = 0 /\ peer = "none" /\ elapsed = 0
  /\ children = 0 /\ station \in Station /\ lost = FALSE /\ crashed = FALSE

-----------------------------------------------------------------------------
(* How a step of the reader ends                                           *)

Goto(label) ==
  /\ pc' = label
  /\ UNCHANGED <<settings, opening, clockVars, nap, during, dataset, worldVars, crashed>>

(* ~DataSocket *)
NoSocket ==
  /\ addresses' = 0
  /\ sockets' = IF peer = "none" THEN sockets ELSE sockets - 1
  /\ peer' = "none" /\ elapsed' = 0

(* Mutant of ApplicationErrors: the two of sockets are errors of their own.*)
NoSocketErrors == {"ApplicationError"}

(* What the loop of veterod catches *)
ApplicationErrors == {"ApplicationError", "SystemError", "NetworkAddressError"}

Throw(error) ==
  /\ pc' = IF opening \/ error \notin ApplicationErrors THEN "ended" ELSE "check"
  /\ NoSocket
  /\ UNCHANGED <<settings, opening, clockVars, nap, during, dataset, worldVars, crashed>>

(* openConnection returns; m_nextRead = time(nullptr). *)
Opened ==
  /\ pc' = "check" /\ opening' = FALSE
  /\ wait' = 0
  /\ NoSocket
  /\ UNCHANGED <<settings, since, ahead, shifted, nap, during, dataset, worldVars, crashed>>

(* Mutant of Good: the next read is due as it was. *)
NoNextRead(d) ==
  /\ pc' = "use"
  /\ dataset' = d
  /\ since' = during /\ ahead' = 0
  /\ NoSocket
  /\ UNCHANGED <<settings, opening, wait, shifted, nap, during, worldVars, crashed>>

(* read returns d; m_nextRead = now + 5*60, now being from its beginning. *)
Good(d) ==
  /\ pc' = "use"
  /\ dataset' = d
  /\ wait' = IF Polled THEN AtLeast(-MaxShift, Pace - during) ELSE wait
  /\ since' = during /\ ahead' = 0
  /\ NoSocket
  /\ UNCHANGED <<settings, opening, shifted, nap, during, worldVars, crashed>>

-----------------------------------------------------------------------------
(* openConnection: the serial port, the USB device or a first connection   *)

OpenDevice ==
  /\ pc = "open" /\ Type # "ws980"
  /\ station # "off"
  /\ Opened

OpenFails == pc = "open" /\ Type # "ws980" /\ station = "off" /\ Throw("ApplicationError")

OpenSocket == pc = "open" /\ Type = "ws980" /\ Goto("resolve") /\ UNCHANGED socketVars

-----------------------------------------------------------------------------
(* read: the pause *)

First == IF Type = "freetec" THEN "block" ELSE IF Type = "ws980" THEN "resolve" ELSE "line"

Begin ==
  /\ pc = "check" /\ (Polled => wait <= 0)
  /\ pc' = First
  /\ during' = 0
  /\ UNCHANGED <<settings, opening, clockVars, nap, dataset, socketVars, worldVars, crashed>>

Sleep ==
  /\ pc = "check" /\ Polled /\ wait > 0
  /\ pc' = "sleep"
  /\ nap' = wait
  /\ UNCHANGED <<settings, opening, clockVars, during, dataset, socketVars, worldVars, crashed>>

Wake == pc = "sleep" /\ nap = 0 /\ Goto("check") /\ UNCHANGED socketVars

-----------------------------------------------------------------------------
(* UsbWde1DataReader::read *)

ReadLine ==
  /\ pc = "line"
  /\ \/ station = "up" /\ ~lost /\ Good(ParsedParts(settings))
     \/ station = "garbled" /\ ~lost /\ Throw("ApplicationError")
     \/ lost /\ Throw("ApplicationError")

-----------------------------------------------------------------------------
(* FreeTecDataReader::read: two blocks.  A transfer that fails or gets no  *)
(* answer in time is a usb::Error, which is no ApplicationError.           *)

ReadBlocks ==
  /\ pc = "block"
  /\ \/ station = "up" /\ ~lost /\ Good(Nothing)
     \/ station = "garbled" /\ ~lost /\ Throw("ApplicationError")
     \/ (lost \/ station \in {"silent", "off"}) /\ Throw("usb::Error")

-----------------------------------------------------------------------------
(* DataSocket::connect, which both methods of the Ws980DataReader begin    *)
(* with                                                                    *)

Resolve ==
  /\ pc = "resolve" /\ station # "off"
  /\ addresses' \in 1 .. MaxAddresses
  /\ Goto("connect")
  /\ UNCHANGED <<sockets, peer, elapsed>>

(* res0 was not set: freeaddrinfo may find a null pointer there by chance. *)
ResolveFails ==
  /\ pc = "resolve" /\ station = "off"
  /\ \/ Throw("NetworkAddressError")
     \/ /\ pc' = "ended" /\ crashed' = TRUE
        /\ NoSocket
        /\ UNCHANGED <<settings, opening, clockVars, nap, during, dataset, worldVars>>

ConnectAddress ==
  /\ pc = "connect" /\ addresses > 0 /\ station \in {"up", "garbled"}
  /\ sockets' = sockets + 1
  /\ peer' = "live"
  /\ Goto("write")
  /\ UNCHANGED <<addresses, elapsed>>

(* Mutant of AddressRefuses: the socket is not closed. *)
RefusedStaysOpen ==
  /\ pc = "connect" /\ addresses > 0
  /\ addresses > 1 \/ station \in {"silent", "off"}
  /\ addresses' = addresses - 1
  /\ sockets' = sockets + 1
  /\ Goto("connect")
  /\ UNCHANGED <<peer, elapsed>>

(* Some of the addresses do not work; of a station that is up the last one *)
(* does.                                                                   *)
AddressRefuses ==
  /\ pc = "connect" /\ addresses > 0
  /\ addresses > 1 \/ station \in {"silent", "off"}
  /\ addresses' = addresses - 1
  /\ Goto("connect")
  /\ UNCHANGED <<sockets, peer, elapsed>>

NoAddressLeft == pc = "connect" /\ addresses = 0 /\ Throw("SystemError")

-----------------------------------------------------------------------------
(* The request and the response.  openConnection reads without a timeout   *)
(* and takes what comes, read waits in select.                             *)

Write ==
  /\ pc = "write"
  /\ Goto(IF opening THEN "receive" ELSE "select")
  /\ UNCHANGED socketVars

WriteFails == pc = "write" /\ station = "off" /\ Throw("SystemError")

Answers == peer = "live" /\ station \in {"up", "garbled"}

Version == pc = "receive" /\ Answers /\ Opened

(* 82 bytes are a response, whatever they say: there is no checksum. *)
Response ==
  /\ pc = "select" /\ Answers
  /\ \/ Good(Nothing)
     \/ station = "garbled" /\ Throw("ApplicationError")

(* The station resets the connection, or closes it: read returns -1 or 0,  *)
(* and openConnection takes the 0 for an answer.                           *)
Reset ==
  /\ pc \in {"receive", "select"} /\ peer = "dead" /\ station = "off"
  /\ \/ Throw("SystemError")
     \/ IF opening THEN Opened ELSE Throw("ApplicationError")

(* Mutant of ReadTimeout: select waits as long as it takes. *)
NoReadTimeout == FALSE /\ UNCHANGED vars

ReadTimeout == pc = "select" /\ elapsed = Timeout /\ Throw("ApplicationError")

-----------------------------------------------------------------------------
(* The loop of veterod: the dataset is stored and a report generator       *)
(* started, or it is corrupt and skipped.                                  *)
Use ==
  /\ pc = "use"
  /\ pc' = "check"
  /\ children' \in { children, AtMost(MaxChildren, children + 1) }
  /\ UNCHANGED <<settings, opening, clockVars, nap, during, dataset, socketVars,
                 station, lost, crashed>>

(* Mutant of ChildEnds: the pause is not looked at again. *)
CutShortReads ==
  /\ children > 0
  /\ children' = children - 1
  /\ pc' = CASE pc = "sleep" -> First [] pc = "select" -> "check" [] OTHER -> pc
  /\ during' = IF pc = "sleep" THEN 0 ELSE during
  /\ IF pc = "select" THEN NoSocket ELSE UNCHANGED socketVars
  /\ UNCHANGED <<settings, opening, clockVars, nap, dataset, station, lost, crashed>>

(* SIGCHLD: sleep returns early and the loop around it looks at the clock  *)
(* again, select fails with EINTR and that is a SystemError.               *)
ChildEnds ==
  /\ children > 0
  /\ children' = children - 1
  /\ pc' = IF pc \in {"sleep", "select"} THEN "check" ELSE pc
  /\ IF pc = "select" THEN NoSocket ELSE UNCHANGED socketVars
  /\ UNCHANGED <<settings, opening, clockVars, nap, during, dataset, station, lost, crashed>>

-----------------------------------------------------------------------------
(* The world *)

(* A station that is up answers before the timeout. *)
Tick ==
  /\ pc = "select" /\ Answers => elapsed + 1 < Timeout
  /\ wait' = AtLeast(-MaxShift, wait - 1)
  /\ nap' = AtLeast(0, nap - 1)
  /\ since' = AtMost(Pace, since + 1) /\ during' = AtMost(Pace, during + 1)
  /\ elapsed' = IF pc = "select" THEN AtMost(Timeout, elapsed + 1) ELSE elapsed
  /\ UNCHANGED <<settings, pc, opening, ahead, shifted, dataset, addresses, sockets, peer,
                 worldVars, crashed>>

(* Somebody, or NTP, sets the clock. *)
SetClock ==
  /\ pc \in {"check", "sleep", "use"} /\ Polled
  /\ \E by \in 1 .. MaxShift - shifted :
       /\ shifted' = shifted + by
       /\ \/ wait' = AtLeast(-MaxShift, wait - by) /\ ahead' = ahead + by
          \/ wait' = AtMost(Pace + MaxShift, wait + by) /\ ahead' = ahead
  /\ UNCHANGED <<settings, pc, opening, since, nap, during, dataset, socketVars, worldVars, crashed>>

(* A station that has gone does not end its connections, and does not know *)
(* them when it comes back.                                                *)
StationChanges ==
  /\ station' \in Station \ {station}
  /\ peer' = IF peer = "live" /\ station' \in {"silent", "off"} THEN "dead" ELSE peer
  /\ UNCHANGED <<settings, pc, opening, clockVars, nap, during, dataset, addresses, sockets,
                 elapsed, children, lost, crashed>>

Unplug ==
  /\ Type # "ws980" /\ ~opening /\ ~lost
  /\ lost' = TRUE
  /\ UNCHANGED <<settings, pc, opening, clockVars, nap, during, dataset, socketVars,
                 children, station, crashed>>

-----------------------------------------------------------------------------
Veterod ==
  \/ OpenDevice \/ OpenFails \/ OpenSocket
  \/ Begin \/ Sleep \/ Wake
  \/ ReadLine \/ ReadBlocks
  \/ Resolve \/ ResolveFails \/ ConnectAddress \/ AddressRefuses \/ NoAddressLeft
  \/ Write \/ WriteFails \/ Version \/ Response \/ Reset \/ ReadTimeout
  \/ Use

Next == Veterod \/ ChildEnds \/ Tick \/ SetClock \/ StationChanges \/ Unplug

Spec == Init /\ [][Next]_vars

(* veterod goes on when it is not waiting, a station that is up answers,   *)
(* and time passes.                                                        *)
FairSpec == Spec /\ WF_vars(Veterod) /\ WF_vars(Tick)

-----------------------------------------------------------------------------
(* From one good read of a station that is asked to the beginning of the   *)
(* next one five minutes pass, less what the clock was set ahead: whatever *)
(* cuts the pause short, and however many reads fail (datareader.cc:236,   *)
(* 374).                                                                   *)
Paced ==
  [][Polled /\ pc \in {"check", "sleep"} /\ pc' \in Transfer => since + ahead >= Pace]_vars

(* No way out of a connection that failed or was made leaves a descriptor  *)
(* open: else veterod would run out of them after months of tries          *)
(* (datasocket.cc:65).                                                     *)
NoSocketLeft == sockets = IF pc \in {"write", "select", "receive"} THEN 1 ELSE 0

(* After the start, nothing that a serial or network station does ends     *)
(* veterod, but for the free of the addresses that were not found          *)
(* (veterod.cc:430, datasocket.cc:54).                                     *)
SurvivesStation == pc = "ended" => opening \/ crashed \/ Type = "freetec"

(* Temperature and humidity come from the same sensor, from the one that   *)
(* is configured or else from the first one (datareader.cc:143).           *)
OwnSensor ==
  LET s == settings.sensor_number IN
    pc = "use" =>
      /\ Type = "kombi" => dataset = <<<<"temperature", "kombi">>, <<"humidity", "kombi">>>>
      /\ Type = "normal" /\ s <= 8 => dataset = <<<<"temperature", s>>, <<"humidity", s>>>>

(* The start waits for a station that has gone since it was asked.         *)
OpenHangs == pc = "receive" /\ peer = "dead"

(* A station that is up for good is read again and again, once the start   *)
(* is over, whatever it did before; but veterod has no second look for a   *)
(* device that was unplugged (datareader.cc:389, 444).                     *)
StationServed ==
  <>[](station = "up") =>
     []<>(pc = "use") \/ <>[](pc = "ended" \/ lost \/ OpenHangs)
=============================================================================
