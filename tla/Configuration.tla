---------------------------- MODULE Configuration ----------------------------
(***************************************************************************)
(* common::Configuration, which each of the programs reads once when it    *)
(* starts: where a file is looked for, what is kept of it, and what holds  *)
(* for the keys it does not set (src/src/common/configuration.cc).  Pure   *)
(* operators over a file system that maps a path to Absent, to Garbled or  *)
(* to a record of the keys the file sets (what libconfuse has parsed).     *)
(***************************************************************************)
EXTENDS Integers, FiniteSets, TLC, Sensors

Absent  == [file |-> "absent"]
Garbled == [file |-> "garbled"]
NoPath  == "none"

(* INSTALL_PREFIX/etc/veterorc, /etc/veterorc, ~/.veterorc *)
SearchPath == <<"prefix", "etc", "home">>
Paths == {"given", "prefix", "etc", "home"}

(* Mutant of FileRead: the file that was asked for is searched, too. *)
FileReadBySearch(preferred, files) ==
  LET readable == { i \in DOMAIN SearchPath : files[SearchPath[i]] # Absent }
  IN  IF readable = {} THEN preferred
      ELSE SearchPath[CHOOSE i \in readable : \A j \in readable : i <= j]

(* The preferred file, or the first one that access() finds readable *)
FileRead(preferred, files) ==
  LET readable == { i \in DOMAIN SearchPath : files[SearchPath[i]] # Absent }
  IN  IF preferred # NoPath THEN preferred
      ELSE IF readable = {} THEN NoPath
      ELSE SearchPath[CHOOSE i \in readable : \A j \in readable : i <= j]

(* configurationRead(): there is a file and it could be parsed. *)
ConfigurationRead(preferred, files) ==
  LET file == FileRead(preferred, files)
  IN  file # NoPath /\ files[file] \notin {Absent, Garbled}

-----------------------------------------------------------------------------
Empty == "empty"   \* the empty string

(* The members as they are initialised *)
Defaults ==
  [serial_baud |-> 9600, sensor_type |-> "kombi", sensor_number |-> -1, sensor_ip |-> Empty,
   database_path |-> "vetero.db", report_directory |-> Empty, display |-> FALSE]

Key(keys, key, otherwise) == IF key \in DOMAIN keys THEN keys[key] ELSE otherwise

(* SensorType::fromString, and "kombi" for a name it does not know *)
TypeOf(name) == IF name \in SensorType THEN name ELSE "kombi"

(* Mutant of SensorNumber: the number is not put right. *)
NumberAsWritten(type, number) == number

(* Of the normal sensors the first, unless a positive number is given *)
SensorNumber(type, number) == IF type = "normal" /\ number <= 0 THEN 1 ELSE number

(* What Configuration::read makes of the keys; writable are the            *)
(* directories that reports can be written to.  display stands for a       *)
(* display_name and a display_connection that are not empty.               *)
Settings(keys, writable) ==
  LET type == TypeOf(Key(keys, "sensor_type", Defaults.sensor_type))
      baud == Key(keys, "serial_baud", -1)
      directory == Key(keys, "report_directory", Empty)
  IN  [serial_baud      |-> IF baud > 0 THEN baud ELSE Defaults.serial_baud,
       sensor_type      |-> type,
       sensor_number    |-> SensorNumber(type, Key(keys, "sensor_number", -1)),
       sensor_ip        |-> Key(keys, "sensor_ip", Defaults.sensor_ip),
       database_path    |-> Key(keys, "database_path", Defaults.database_path),
       report_directory |-> IF directory \in writable THEN directory ELSE Empty,
       display          |-> Key(keys, "display", FALSE)]

(* The settings a program runs on: one that was given a file ends when it  *)
(* cannot be read, any other goes on with the defaults.                    *)
Fatal(preferred, files) == preferred # NoPath /\ ~ConfigurationRead(preferred, files)
InForce(preferred, files, writable) ==
  IF ConfigurationRead(preferred, files)
  THEN Settings(files[FileRead(preferred, files)], writable)
  ELSE Defaults
=============================================================================
