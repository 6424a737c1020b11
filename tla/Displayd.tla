------------------------------ MODULE Displayd ------------------------------
(***************************************************************************)
(* The display daemon vetero-displayd (src/src/vetero-displayd) and what   *)
(* veterod does with it: startDisplay, notifyDisplay, the exit handler     *)
(* quit_display_daemon, and the opening of the database they share.        *)
(*                                                                         *)
(* The daemons talk by signals.  SIGUSR1 says that there is new data: it   *)
(* ends the display's sigtimedwait, runs an empty handler anywhere else,   *)
(* and before the handlers are installed it kills the process, as SIGTERM  *)
(* does then.  SIGTERM sets s_quit; both end the wait.                     *)
(*                                                                         *)
(* Data is the number of the latest stored dataset; 0 is an empty table,   *)
(* and the zeros a default constructed CurrentWeather is shown as.         *)
(***************************************************************************)
EXTENDS Integers

CONSTANTS MaxData,     \* bound: datasets stored
          MaxDbErrors  \* bound: queries of the display that fail

ASSUME DisplaydAssumption == MaxData \in Nat \ {0} /\ MaxDbErrors \in Nat

VARIABLES vpc,       \* veterod: "start", "forked", "open", "init", "read", "notify", "down"
          db,        \* the database file: "missing", "empty", "partial", "tables"
          data,      \* the latest dataset stored
          dpid,      \* s_displayPid # 0
          dpc,       \* vetero-displayd, see DisplayPC
          newData,   \* its local variable new_data
          quit,      \* its s_quit
          weather,   \* its local variable weather
          shown,     \* what is on the display
          woken,     \* history: data when SIGUSR1 last ended the wait
          dbErrors   \* history: failed queries

veterodVars == <<vpc, db, data, dpid>>
displayVars == <<newData, quit, weather, shown, woken, dbErrors>>
vars == <<veterodVars, dpc, displayVars>>

(* "boot" is before installSignalhandlers, "openDb" and "openDisplay" the  *)
(* rest of main, "loop" the test of s_quit; "zombie" has ended and not been*)
(* waited for, "none" is no process.                                       *)
DisplayPC == {"none", "boot", "openDb", "openDisplay", "loop", "query", "render",
              "beforeWait", "wait", "zombie"}
HandlersInstalled == dpc \in DisplayPC \ {"none", "boot", "zombie"}

TypeOK ==
  /\ vpc \in {"start", "forked", "open", "init", "read", "notify", "down"}
  /\ db \in {"missing", "empty", "partial", "tables"}
  /\ data \in 0 .. MaxData /\ weather \in 0 .. MaxData /\ shown \in 0 .. MaxData
  /\ dpid \in BOOLEAN /\ newData \in BOOLEAN /\ quit \in BOOLEAN
  /\ dpc \in DisplayPC
  /\ woken \in 0 .. MaxData /\ dbErrors \in 0 .. MaxDbErrors

(* An installation of its own or one with data. *)
Init ==
  /\ vpc = "start"
  /\ \/ db = "missing" /\ data = 0
     \/ db = "tables" /\ data \in 0 .. 1
  /\ dpid = FALSE
  /\ dpc = "none"
  /\ newData = TRUE /\ quit = FALSE /\ weather = 0 /\ shown = 0
  /\ woken = 0 /\ dbErrors = 0

-----------------------------------------------------------------------------
(* veterod *)

(* startDisplay forks; s_displayPid is assigned when start_background      *)
(* returns.                                                                *)
Fork ==
  /\ vpc = "start"
  /\ vpc' = "forked"
  /\ dpc' = "boot"
  /\ UNCHANGED <<db, data, dpid, displayVars>>

AssignPid ==
  /\ vpc = "forked"
  /\ dpid' = TRUE
  /\ vpc' = "open"
  /\ UNCHANGED <<db, data, dpc, displayVars>>

(* Sqlite3Database::open: a file that is missing is created, unless it is  *)
(* opened read-only.                                                       *)
Opened(file) == IF file = "missing" THEN "empty" ELSE file

(* Mutants of OpenDatabase: access() comes after the open has created the  *)
(* file ... *)
AccessAfterOpen ==
  /\ vpc = "open"
  /\ vpc' = "read"
  /\ db' = Opened(db)
  /\ UNCHANGED <<data, dpid, dpc, displayVars>>

(* ... and only the first statement creates the file. *)
OpenLazily ==
  /\ vpc = "open"
  /\ vpc' = IF db = "missing" THEN "init" ELSE "read"
  /\ UNCHANGED <<db, data, dpid, dpc, displayVars>>

(* openDatabase: access() decides whether initTables is needed, the open   *)
(* creates the file.                                                       *)
OpenDatabase ==
  /\ vpc = "open"
  /\ vpc' = IF db = "missing" THEN "init" ELSE "read"
  /\ db' = Opened(db)
  /\ UNCHANGED <<data, dpid, dpc, displayVars>>

(* initTables: a statement for each table, without a transaction; here     *)
(* there are two. *)
InitTables ==
  /\ vpc = "init"
  /\ IF db = "partial" THEN db' = "tables" /\ vpc' = "read"
                       ELSE db' = "partial" /\ UNCHANGED vpc
  /\ UNCHANGED <<data, dpid, dpc, displayVars>>

(* insertDataset and updateDayStatistics; when a table is missing they     *)
(* fail, and the loop begins anew. *)
Store ==
  /\ vpc = "read"
  /\ db = "tables" /\ data < MaxData
  /\ data' = data + 1
  /\ vpc' = "notify"
  /\ UNCHANGED <<db, dpid, dpc, displayVars>>

(* A signal kills a display without handlers, and ends the wait of another.*)
Signalled == IF dpc = "boot" THEN "zombie" ELSE IF dpc = "wait" THEN "loop" ELSE dpc

(* Mutant of SigUsr1: new_data keeps what the last timeout made of it. *)
SigUsr1KeepsNewData ==
  /\ dpc' = Signalled
  /\ woken' = IF dpc = "wait" THEN data ELSE woken
  /\ UNCHANGED newData

(* What SIGUSR1 does to a running vetero-displayd *)
SigUsr1 ==
  /\ dpc' = Signalled
  /\ newData' = (newData \/ dpc = "wait")
  /\ woken' = IF dpc = "wait" THEN data ELSE woken

(* Mutant of NotifyDisplay: s_displayPid is not reset. *)
NotifyKeepsPid ==
  /\ vpc = "notify"
  /\ vpc' = "read"
  /\ \/ /\ dpid /\ dpc = "zombie"
        /\ dpc' = "none"
        /\ UNCHANGED <<newData, woken>>
     \/ /\ dpid /\ dpc # "zombie"
        /\ SigUsr1
  /\ UNCHANGED <<db, data, dpid, quit, weather, shown, dbErrors>>

(* Mutant of NotifyDisplay: SIGTERM is sent. *)
NotifyQuits ==
  /\ vpc = "notify"
  /\ vpc' = "read"
  /\ dpid /\ dpc = "wait"
  /\ dpc' = "loop" /\ newData' = TRUE /\ quit' = TRUE
  /\ UNCHANGED <<db, data, dpid, weather, shown, woken, dbErrors>>

(* notifyDisplay: waitpid(WNOHANG) first, then kill(SIGUSR1). *)
NotifyDisplay ==
  /\ vpc = "notify"
  /\ vpc' = "read"
  /\ \/ /\ ~dpid
        /\ UNCHANGED <<dpid, dpc, newData, woken>>
     \/ /\ dpid /\ dpc = "zombie"
        /\ dpid' = FALSE /\ dpc' = "none"
        /\ UNCHANGED <<newData, woken>>
     \/ /\ dpid /\ dpc # "zombie"
        /\ SigUsr1
        /\ UNCHANGED dpid
  /\ UNCHANGED <<db, data, quit, weather, shown, dbErrors>>

(* What SIGTERM does to vetero-displayd *)
SigTerm ==
  /\ quit' = (quit \/ HandlersInstalled)
  /\ dpc' = Signalled
  /\ newData' = (newData \/ dpc = "wait")

(* Mutant of Quit: the handler is only run for a signal, not when main     *)
(* returns. *)
QuitWithoutHandler ==
  /\ vpc # "down"
  /\ vpc' = "down"
  /\ UNCHANGED <<quit, dpc, newData>>
  /\ UNCHANGED <<db, data, dpid, weather, shown, woken, dbErrors>>

(* SIGTERM or SIGINT for veterod, or an error that ends main: the exit     *)
(* handler quit_display_daemon sends SIGTERM to the display; init waits    *)
(* for it then. *)
Quit ==
  /\ vpc # "down"
  /\ vpc' = "down"
  /\ IF dpid THEN SigTerm ELSE UNCHANGED <<quit, dpc, newData>>
  /\ UNCHANGED <<db, data, dpid, weather, shown, woken, dbErrors>>

-----------------------------------------------------------------------------
(* vetero-displayd *)

InstallHandlers ==
  /\ dpc = "boot"
  /\ dpc' = "openDb"
  /\ UNCHANGED <<veterodVars, displayVars>>

(* Read-only: a missing file cannot be opened, and main ends the program.  *)
OpenReadonly ==
  /\ dpc = "openDb"
  /\ dpc' = IF db = "missing" THEN "zombie" ELSE "openDisplay"
  /\ UNCHANGED <<veterodVars, displayVars>>

(* The display cannot be opened, or execvp did not find the program. *)
StartFails ==
  /\ dpc \in {"boot", "openDisplay"}
  /\ dpc' = "zombie"
  /\ UNCHANGED <<veterodVars, displayVars>>

OpenDisplay ==
  /\ dpc = "openDisplay"
  /\ dpc' = "loop"
  /\ UNCHANGED <<veterodVars, displayVars>>

(* while (!s_quit) { if (new_data) ... *)
TestQuit ==
  /\ dpc = "loop"
  /\ dpc' = IF quit THEN "zombie" ELSE IF newData THEN "query" ELSE "beforeWait"
  /\ UNCHANGED <<veterodVars, displayVars>>

(* Mutant of Query: the row before the latest is taken. *)
QueryPrevious ==
  /\ dpc = "query"
  /\ db = "tables"
  /\ weather' = data - 1
  /\ dpc' = "render"
  /\ UNCHANGED <<veterodVars, newData, quit, shown, woken, dbErrors>>

(* queryCurrentWeather; without tables it throws a DatabaseError. *)
Query ==
  /\ dpc = "query"
  /\ db = "tables"
  /\ weather' = data
  /\ dpc' = "render"
  /\ UNCHANGED <<veterodVars, newData, quit, shown, woken, dbErrors>>

(* The error is logged and the empty CurrentWeather is shown. *)
QueryFails ==
  /\ dpc = "query"
  /\ db # "tables" \/ dbErrors < MaxDbErrors
  /\ dbErrors' = IF db = "tables" THEN dbErrors + 1 ELSE dbErrors
  /\ weather' = 0
  /\ dpc' = "render"
  /\ UNCHANGED <<veterodVars, newData, quit, shown, woken>>

UpdateDisplay ==
  /\ dpc = "render"
  /\ shown' = weather
  /\ dpc' = "beforeWait"
  /\ UNCHANGED <<veterodVars, newData, quit, weather, woken, dbErrors>>

(* sigtimedwait is entered ... *)
EnterWait ==
  /\ dpc = "beforeWait"
  /\ dpc' = "wait"
  /\ UNCHANGED <<veterodVars, displayVars>>

(* Mutant of Timeout: the wait has no timeout. *)
NoTimeout == FALSE /\ UNCHANGED vars

(* ... and left after 2 s with EAGAIN, when no signal ended it. *)
Timeout ==
  /\ dpc = "wait"
  /\ newData' = FALSE
  /\ dpc' = "loop"
  /\ UNCHANGED <<veterodVars, quit, weather, shown, woken, dbErrors>>

Veterod == Fork \/ AssignPid \/ OpenDatabase \/ InitTables \/ Store \/ NotifyDisplay
Display ==
  \/ InstallHandlers \/ OpenReadonly \/ OpenDisplay \/ TestQuit \/ Query \/ QueryFails
  \/ UpdateDisplay \/ EnterWait \/ Timeout

Next == Veterod \/ Quit \/ Display \/ StartFails

Spec == Init /\ [][Next]_vars

(* Both programs keep running; nobody has to stop veterod or to deliver    *)
(* data.                                                                   *)
FairSpec == Spec /\ WF_vars(Display) /\ WF_vars(NotifyDisplay)

-----------------------------------------------------------------------------
(* The process veterod would signal is its display daemon: it has not been *)
(* waited for, so its number cannot belong to another process              *)
(* (veterod.cc:251-266, 51-59).                                            *)
PidIsDisplay == (dpid /\ vpc # "down") => dpc # "none"

(* A display that was told to quit does, also when SIGTERM comes between   *)
(* the test of s_quit and the wait: the timeout brings it back to the test *)
(* (vetero_displayd.cc:220-241).                                           *)
QuitEndsDisplay == quit ~> dpc \in {"zombie", "none"}

(* A display that SIGUSR1 reaches while it waits shows what was stored     *)
(* then or later, or it fails to (vetero_displayd.cc:241-252).             *)
WokenDisplayShows ==
  \A n \in 1 .. MaxData :
    woken = n ~> (shown >= n \/ shown = 0 \/ dpc \in {"zombie", "none"})

(* "Notifies the display daemon about new data." (veterod.h:130): what it  *)
(* was notified about is displayed.                                        *)
NotificationShown ==
  \A n \in 1 .. MaxData :
    (vpc = "notify" /\ dpid /\ dpc \in {"loop", "query", "render", "beforeWait", "wait"}
       /\ data = n)
      ~> (shown >= n \/ dbErrors > 0 \/ dpc \in {"zombie", "none"} \/ vpc = "down")
=============================================================================
