------------------------------- MODULE Session -------------------------------
(***************************************************************************)
(* veterod from one start to the next, beside the display daemon: main and *)
(* exec up to the loop (src/src/veterod), the configuration both programs  *)
(* read for themselves, what a start that was cut short leaves behind, and *)
(* the ways in which veterod ends.                                         *)
(*                                                                         *)
(* Displayd has the signals between a veterod that has reached startDisplay*)
(* and its display.  Here veterod may end at any step, by a signal, by an  *)
(* error that main catches or by a kill, and be started anew, over the same*)
(* database file.  All configuration files name the same database.         *)
(***************************************************************************)
EXTENDS Displayd, Configuration

CONSTANTS Layouts,      \* the file systems, functions over Paths
          MaxStarts,    \* bound: starts of veterod
          MaxKills,     \* bound: ends without the exit handler's signal
          MaxEdits,     \* bound: changes of the configuration files
          MaxMisfires   \* bound: report generators that cannot be executed

ASSUME SessionAssumption ==
  /\ {MaxStarts, MaxKills, MaxEdits, MaxMisfires} \subseteq Nat
  /\ \A layout \in Layouts, preferred \in {"given", NoPath} :
       InForce(preferred, layout, {}).display \in BOOLEAN

VARIABLES stage,     \* veterod: "off", "config", "connect" or "run" (then vpc counts)
          given,     \* the path given with --configfile, or NoPath
          files,     \* the configuration files
          vfile,     \* the file veterod runs on; NoPath are the defaults
          dfile,     \* the same for its display, Unread before it has read
          hasDisplay,\* display_name and display_connection of veterod's configuration
          orphans,   \* display daemons of earlier starts that nobody will signal
          starts, edits,
          edited,    \* history: the files have changed since veterod read them
          kills,     \* history: ends that left a display behind
          misfires,  \* history: report generators that could not be executed
          cut,       \* history: a start ended between the open and the last table
          early,     \* history: starts that ended before the open
          unopened   \* history: display daemons that ended for want of the file

configVars == <<given, files, vfile, dfile, hasDisplay, edits, edited>>
sessionVars == <<stage, configVars, orphans, starts, kills, misfires, cut, early, unopened>>
allVars == <<vars, sessionVars>>

Unread == "unread"
DisplayAlive == dpc \notin {"none", "zombie"}

SessionTypeOK ==
  /\ TypeOK
  /\ stage \in {"off", "config", "connect", "run"}
  /\ stage = "run" <=> vpc # "down"
  /\ given \in {"given", NoPath} /\ files \in Layouts
  /\ vfile \in Paths \cup {NoPath} /\ dfile \in Paths \cup {NoPath, Unread}
  /\ hasDisplay \in BOOLEAN /\ edited \in BOOLEAN /\ cut \in BOOLEAN
  /\ starts \in 0 .. MaxStarts
  /\ orphans \in Nat /\ early \in Nat /\ unopened \in Nat
  /\ kills \in 0 .. MaxKills /\ edits \in 0 .. MaxEdits /\ misfires \in 0 .. MaxMisfires

SessionInit ==
  /\ vpc = "down" /\ dpid = FALSE /\ dpc = "none"
  /\ \/ db = "missing" /\ data = 0
     \/ db = "tables" /\ data \in 0 .. 1
  /\ newData = TRUE /\ quit = FALSE /\ weather = 0 /\ shown = 0 /\ woken = 0 /\ dbErrors = 0
  /\ stage = "off"
  /\ given \in {"given", NoPath} /\ files \in Layouts
  /\ vfile = NoPath /\ dfile = Unread /\ hasDisplay = FALSE
  /\ edits = 0 /\ edited = FALSE
  /\ orphans = 0 /\ starts = 0 /\ kills = 0 /\ misfires = 0
  /\ cut = FALSE /\ early = 0 /\ unopened = 0

-----------------------------------------------------------------------------
(* main until startDisplay *)

(* A new process: s_displayPid is 0.  A display that nobody told to quit   *)
(* goes on without a veterod; one that was told ends by itself.            *)
Launch ==
  /\ stage = "off" /\ starts < MaxStarts
  /\ stage' = "config"
  /\ starts' = starts + 1
  /\ orphans' = orphans + (IF DisplayAlive /\ ~quit THEN 1 ELSE 0)
  /\ dpid' = FALSE /\ dpc' = "none"
  /\ newData' = TRUE /\ quit' = FALSE /\ weather' = 0 /\ shown' = 0 /\ woken' = 0
  /\ dfile' = Unread /\ vfile' = NoPath
  /\ UNCHANGED <<vpc, db, data, dbErrors, given, files, hasDisplay, edits, edited, kills,
                 misfires, cut, early, unopened>>

(* The file a program runs on once it has read the configuration *)
FileInForce(preferred) ==
  IF ConfigurationRead(preferred, files) THEN FileRead(preferred, files) ELSE NoPath

(* readConfiguration: a file that was given and cannot be read is fatal,   *)
(* anything else is not. *)
ReadConfiguration ==
  /\ stage = "config"
  /\ stage' = IF Fatal(given, files) THEN "off" ELSE "connect"
  /\ vfile' = FileInForce(given)
  /\ hasDisplay' = InForce(given, files, {}).display
  /\ edited' = FALSE
  /\ UNCHANGED <<vars, given, files, dfile, edits, orphans, starts, kills, misfires,
                 cut, early, unopened>>

(* daemonize, the uploader, and the connection to the station *)
Connect ==
  /\ stage = "connect"
  /\ stage' = "run" /\ vpc' = "start"
  /\ UNCHANGED <<db, data, dpid, dpc, displayVars, configVars, orphans, starts, kills,
                 misfires, cut, early, unopened>>

(* A signal or an error before there is a display *)
EndBeforeDisplay ==
  /\ stage \in {"config", "connect"}
  /\ stage' = "off"
  /\ UNCHANGED <<vars, configVars, orphans, starts, kills, misfires, cut, early, unopened>>

(* --single-test: with the first dataset exec returns, and main with it.   *)
SingleTest ==
  /\ stage = "connect"
  /\ stage' = "off"
  /\ UNCHANGED <<vars, configVars, orphans, starts, kills, misfires, cut, early, unopened>>

(* startDisplay: nothing to start, or the fork *)
NoDisplay ==
  /\ vpc = "start" /\ ~hasDisplay
  /\ vpc' = "open"
  /\ UNCHANGED <<db, data, dpid, dpc, displayVars, sessionVars>>

StartDisplay == hasDisplay /\ Fork /\ UNCHANGED sessionVars

-----------------------------------------------------------------------------
(* The ends of a veterod that has got to startDisplay *)

Ended(leaves) ==
  /\ stage' = "off"
  /\ kills' = kills + leaves
  /\ cut' = (cut \/ vpc = "init")
  /\ early' = IF vpc \in {"start", "forked", "open"} THEN early + 1 ELSE early
  /\ UNCHANGED <<configVars, orphans, starts, misfires, unopened>>

(* A signal or an error; between the fork and the assignment of            *)
(* s_displayPid the exit handler knows of no display. *)
End ==
  /\ vpc = "forked" => kills < MaxKills
  /\ Quit
  /\ Ended(IF vpc = "forked" THEN 1 ELSE 0)

(* SIGKILL, or a crash *)
Kill ==
  /\ vpc # "down" /\ kills < MaxKills
  /\ vpc' = "down"
  /\ Ended(1)
  /\ UNCHANGED <<db, data, dpid, dpc, displayVars>>

(* execvp fails in the child that was to be vetero-reportgen: std::exit    *)
(* runs the exit handler veterod has registered, on the child's copy of    *)
(* s_displayPid. *)
ExecReportgenFails ==
  /\ vpc \in {"notify", "read"} /\ data > 0
  /\ dpid /\ misfires < MaxMisfires
  /\ SigTerm
  /\ misfires' = misfires + 1
  /\ UNCHANGED <<veterodVars, weather, shown, woken, dbErrors, stage, configVars, orphans,
                 starts, kills, cut, early, unopened>>

(* Somebody changes the configuration. *)
EditFiles ==
  /\ edits < MaxEdits
  /\ files' \in Layouts \ {files}
  /\ edits' = edits + 1
  /\ edited' = TRUE
  /\ UNCHANGED <<vars, stage, given, vfile, dfile, hasDisplay, orphans, starts, kills,
                 misfires, cut, early, unopened>>

-----------------------------------------------------------------------------
(* The start of vetero-displayd *)

(* Mutant of DisplayArgument: --configfile is not passed on. *)
NoArgument(preferred) == NoPath

(* startDisplay passes --configfile when it was given. *)
DisplayArgument(preferred) == preferred

(* readConfiguration and openDatabase of the display *)
DisplayStarts ==
  /\ dpc = "openDb"
  /\ LET preferred == DisplayArgument(given)
     IN  /\ dfile' = FileInForce(preferred)
         /\ IF Fatal(preferred, files)
              THEN dpc' = "zombie" /\ UNCHANGED <<veterodVars, displayVars, unopened>>
              ELSE /\ OpenReadonly
                   /\ unopened' = IF db = "missing" THEN unopened + 1 ELSE unopened
  /\ UNCHANGED <<stage, given, files, vfile, hasDisplay, edits, edited, orphans, starts,
                 kills, misfires, cut, early>>

DisplaySteps ==
  \/ DisplayStarts
  \/ /\ \/ InstallHandlers \/ OpenDisplay \/ TestQuit \/ Query \/ QueryFails
        \/ UpdateDisplay \/ EnterWait \/ Timeout
     /\ UNCHANGED sessionVars

Start ==
  \/ Launch \/ ReadConfiguration \/ Connect \/ SingleTest \/ EndBeforeDisplay
  \/ NoDisplay \/ StartDisplay

Loop == (AssignPid \/ OpenDatabase \/ InitTables \/ Store \/ NotifyDisplay) /\ UNCHANGED sessionVars

SessionNext ==
  \/ Start \/ Loop \/ End \/ Kill \/ ExecReportgenFails \/ EditFiles
  \/ DisplaySteps \/ (StartFails /\ UNCHANGED sessionVars)

SessionSpec == SessionInit /\ [][SessionNext]_allVars

(* Both programs keep running; nobody has to start or to stop veterod. *)
FairSessionSpec ==
  SessionSpec /\ WF_allVars(DisplaySteps) /\ WF_allVars(NotifyDisplay /\ UNCHANGED sessionVars)

-----------------------------------------------------------------------------
(* A display daemon is left running without a veterod only by a kill, or by*)
(* a signal between the fork and the assignment of s_displayPid: whatever  *)
(* else ends veterod, errors of its start and of its loop included, the    *)
(* display has been told (veterod.cc:50-59, 141-154, 201). *)
OrphansCostKills ==
  orphans + (IF vpc = "down" /\ DisplayAlive /\ ~quit THEN 1 ELSE 0) <= kills

(* In its loop veterod has its tables, unless an earlier start was cut     *)
(* short between the creation of the file and the last table: the next     *)
(* start finds the file and leaves the tables alone (veterod.cc:166-179). *)
TablesOrCut == (vpc \in {"read", "notify"} /\ db # "tables") => cut

(* The display daemon starts before the database exists, but it ends for   *)
(* that reason once, and once more for every start of veterod that ended   *)
(* before it had created the file (veterod.cc:364-365).                    *)
UnopenedOnce == unopened <= early + 1

(* A display that was told to quit although veterod goes on has been told  *)
(* by a report generator that could not be executed (utils.cc:148).        *)
ToldByMisfire == (quit /\ vpc # "down" /\ stage = "run") => misfires > 0

(* veterod and its display run on the same file, unless the files changed  *)
(* after veterod had read its own (veterod.cc:156-161, 193-197).           *)
SameConfiguration == (dfile # Unread /\ stage = "run" /\ ~edited) => dfile = vfile
=============================================================================
