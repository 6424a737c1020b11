---------------------------- MODULE SessionProofs ----------------------------
(***************************************************************************)
(* Theorems about Session for any file systems and any number of starts,   *)
(* kills, changes of the configuration and datasets.                       *)
(***************************************************************************)
EXTENDS Session, TLAPS

USE DisplaydAssumption, SessionAssumption DEF DisplaydAssumption, SessionAssumption

ToOpen == dpc \in {"boot", "openDb"}
BeforeOpen == vpc \in {"forked", "open"}
Running == vpc \in {"open", "init", "read", "notify"}

(* Before startDisplay there is no display, and it has not been told.      *)
NoDisplayYet ==
  (stage \in {"config", "connect"} \/ vpc = "start") =>
    dpc = "none" /\ ~dpid /\ ~quit /\ dfile = Unread

(* From the assignment on veterod knows a display that lives; between fork *)
(* and assignment there is one. *)
PidKnown ==
  /\ Running /\ DisplayAlive => dpid
  /\ vpc = "forked" => dpc # "none"

(* The file exists once openDatabase is over; a file without its tables is *)
(* being filled, or was left behind. *)
FileState ==
  /\ vpc \in {"init", "read", "notify"} => db # "missing"
  /\ db \in {"empty", "partial"} => vpc = "init" \/ cut

(* While the file is missing, the display that may still find it missing   *)
(* is paid for by the veterod that has still to create it. *)
UnopenedPaid ==
  IF db = "missing"
  THEN unopened + (IF ToOpen THEN 1 ELSE 0) <= early + (IF BeforeOpen THEN 1 ELSE 0)
  ELSE unopened <= early + 1

(* The files are those veterod has read, unless they changed. *)
FilesAsRead == (stage \in {"connect", "run"} /\ ~edited) => vfile = FileInForce(given)

SessionInv ==
  /\ SessionTypeOK /\ NoDisplayYet /\ PidKnown /\ FileState /\ UnopenedPaid /\ FilesAsRead
  /\ PidIsDisplay /\ OrphansCostKills /\ ToldByMisfire /\ SameConfiguration

(* Whatever file is preferred, the one in force is one of the paths.       *)
LEMMA FileInForceType ==
  ASSUME NEW preferred \in {"given", NoPath}
  PROVE  FileInForce(preferred) \in Paths \cup {NoPath}
<1>1. FileRead(preferred, files) \in Paths \cup {NoPath}
  BY DEF FileRead, Paths, SearchPath, NoPath
<1> QED
  BY <1>1 DEF FileInForce

(* The inductive invariant holds at first. *)
LEMMA SessionInitial == SessionInit => SessionInv
<1>1. SessionInit => data \in 0 .. MaxData
  BY DEF SessionInit
<1>2. SessionInit => TypeOK
  <2>1. SessionInit => weather \in 0 .. MaxData /\ shown \in 0 .. MaxData
    BY DEF SessionInit
  <2>2. SessionInit => woken \in 0 .. MaxData /\ dbErrors \in 0 .. MaxDbErrors
    BY DEF SessionInit
  <2> QED
    BY <1>1, <2>1, <2>2 DEF SessionInit, TypeOK, DisplayPC
<1>3. SessionInit => SessionTypeOK
  <2>1. SessionInit => starts \in 0 .. MaxStarts /\ orphans \in Nat /\ early \in Nat /\ unopened \in Nat
    BY DEF SessionInit
  <2>2. SessionInit => kills \in 0 .. MaxKills /\ edits \in 0 .. MaxEdits /\ misfires \in 0 .. MaxMisfires
    BY DEF SessionInit
  <2>3. SessionInit => vfile \in Paths \cup {NoPath} /\ dfile \in Paths \cup {NoPath, Unread}
    BY DEF SessionInit
  <2> QED
    BY <1>2, <2>1, <2>2, <2>3 DEF SessionInit, SessionTypeOK
<1>4. SessionInit => NoDisplayYet /\ PidKnown /\ FileState /\ UnopenedPaid
  BY DEF SessionInit, NoDisplayYet, PidKnown, FileState, UnopenedPaid, ToOpen, BeforeOpen,
         Running, DisplayAlive
<1>5. SessionInit => FilesAsRead /\ PidIsDisplay /\ ToldByMisfire /\ SameConfiguration
  BY DEF SessionInit, FilesAsRead, PidIsDisplay, ToldByMisfire, SameConfiguration
<1>6. SessionInit => OrphansCostKills
  BY DEF SessionInit, OrphansCostKills, DisplayAlive
<1> QED
  BY <1>3, <1>4, <1>5, <1>6 DEF SessionInv

(* Every step keeps the invariant: those of the start, ... *)
LEMMA StartStep ==
  ASSUME SessionInv, Start
  PROVE  SessionInv'
<1> USE DEF SessionInv, SessionTypeOK, TypeOK, NoDisplayYet, PidKnown, FileState, UnopenedPaid,
            FilesAsRead, PidIsDisplay, OrphansCostKills, ToldByMisfire, SameConfiguration,
            ToOpen, BeforeOpen, Running, Unread, DisplayAlive, DisplayPC, FileInForce, Signalled,
            vars, veterodVars, displayVars, configVars, sessionVars
<1>1. CASE Launch
  <2>1. SessionTypeOK'
    <3>1. (data \in 0 .. MaxData /\ weather \in 0 .. MaxData /\ shown \in 0 .. MaxData)'
      BY <1>1 DEF Launch, NoPath
    <3>2. (woken \in 0 .. MaxData /\ dbErrors \in 0 .. MaxDbErrors)'
      BY <1>1 DEF Launch, NoPath
    <3>3. TypeOK'
      BY <1>1, <3>1, <3>2 DEF Launch, NoPath
    <3>4. (orphans \in Nat /\ starts \in 0 .. MaxStarts)'
      BY <1>1 DEF Launch, NoPath
    <3> QED
      BY <1>1, <3>3, <3>4 DEF Launch, NoPath
  <2>2. (NoDisplayYet /\ PidKnown /\ FileState)'
    BY <1>1 DEF Launch, NoPath
  <2>3. (UnopenedPaid /\ OrphansCostKills)'
    BY <1>1 DEF Launch, NoPath
  <2>4. (FilesAsRead /\ PidIsDisplay /\ ToldByMisfire /\ SameConfiguration)'
    BY <1>1 DEF Launch, NoPath
  <2> QED
    BY <2>1, <2>2, <2>3, <2>4
<1>2. CASE ReadConfiguration
  <2>1. vfile' \in Paths \cup {NoPath}
    BY <1>2, FileInForceType DEF ReadConfiguration
  <2>2. hasDisplay' \in BOOLEAN
    BY <1>2, SessionAssumption DEF ReadConfiguration
  <2> QED
    BY <1>2, <2>1, <2>2 DEF ReadConfiguration
<1>3. CASE Connect
  <2>1. SessionTypeOK'
    BY <1>3 DEF Connect
  <2>2. (NoDisplayYet /\ PidKnown /\ FileState)'
    BY <1>3 DEF Connect
  <2>3. (UnopenedPaid /\ OrphansCostKills)'
    BY <1>3 DEF Connect
  <2>4. (FilesAsRead /\ PidIsDisplay /\ ToldByMisfire /\ SameConfiguration)'
    BY <1>3 DEF Connect
  <2> QED
    BY <2>1, <2>2, <2>3, <2>4
<1>4. CASE EndBeforeDisplay
  BY <1>4 DEF EndBeforeDisplay
<1>5. CASE SingleTest
  BY <1>5 DEF SingleTest
<1>6. CASE NoDisplay
  BY <1>6 DEF NoDisplay
<1>7. CASE StartDisplay
  BY <1>7 DEF StartDisplay, Fork
<1> QED
  BY <1>1, <1>2, <1>3, <1>4, <1>5, <1>6, <1>7 DEF Start

(* ... of veterod after it and of its ends, ... *)
LEMMA VeterodStep ==
  ASSUME SessionInv, Loop \/ End \/ Kill \/ ExecReportgenFails \/ EditFiles
  PROVE  SessionInv'
<1> USE DEF SessionInv, SessionTypeOK, TypeOK, NoDisplayYet, PidKnown, FileState, UnopenedPaid,
            FilesAsRead, PidIsDisplay, OrphansCostKills, ToldByMisfire, SameConfiguration,
            ToOpen, BeforeOpen, Running, Unread, DisplayAlive, DisplayPC, FileInForce, Signalled,
            vars, veterodVars, displayVars, configVars, sessionVars
<1>1. CASE AssignPid /\ UNCHANGED sessionVars
  BY <1>1 DEF AssignPid
<1>2. CASE OpenDatabase /\ UNCHANGED sessionVars
  BY <1>2 DEF OpenDatabase, Opened
<1>3. CASE InitTables /\ UNCHANGED sessionVars
  BY <1>3 DEF InitTables
<1>4. CASE Store /\ UNCHANGED sessionVars
  BY <1>4 DEF Store
<1>5. CASE NotifyDisplay /\ UNCHANGED sessionVars
  <2>1. SessionTypeOK'
    <3>1. (data \in 0 .. MaxData /\ weather \in 0 .. MaxData /\ shown \in 0 .. MaxData)'
      BY <1>5 DEF NotifyDisplay, SigUsr1
    <3>2. (woken \in 0 .. MaxData /\ dbErrors \in 0 .. MaxDbErrors)'
      BY <1>5 DEF NotifyDisplay, SigUsr1
    <3>3. TypeOK'
      BY <1>5, <3>1, <3>2 DEF NotifyDisplay, SigUsr1
    <3>4. (orphans \in Nat /\ starts \in 0 .. MaxStarts)'
      BY <1>5 DEF NotifyDisplay, SigUsr1
    <3> QED
      BY <1>5, <3>3, <3>4 DEF NotifyDisplay, SigUsr1
  <2>2. (NoDisplayYet /\ PidKnown /\ FileState)'
    BY <1>5 DEF NotifyDisplay, SigUsr1
  <2>3. (UnopenedPaid /\ OrphansCostKills)'
    BY <1>5 DEF NotifyDisplay, SigUsr1
  <2>4. (FilesAsRead /\ PidIsDisplay /\ ToldByMisfire /\ SameConfiguration)'
    BY <1>5 DEF NotifyDisplay, SigUsr1
  <2> QED
    BY <2>1, <2>2, <2>3, <2>4
<1>6. CASE End
  <2>1. SessionTypeOK'
    BY <1>6 DEF End, Quit, Ended, SigTerm, HandlersInstalled
  <2>2. (NoDisplayYet /\ PidKnown /\ FileState)'
    BY <1>6 DEF End, Quit, Ended, SigTerm, HandlersInstalled
  <2>3. (UnopenedPaid /\ OrphansCostKills)'
    BY <1>6 DEF End, Quit, Ended, SigTerm, HandlersInstalled
  <2>4. (FilesAsRead /\ PidIsDisplay /\ ToldByMisfire /\ SameConfiguration)'
    BY <1>6 DEF End, Quit, Ended, SigTerm, HandlersInstalled
  <2> QED
    BY <2>1, <2>2, <2>3, <2>4
<1>7. CASE Kill
  <2>1. SessionTypeOK'
    BY <1>7 DEF Kill, Ended
  <2>2. (NoDisplayYet /\ PidKnown /\ FileState)'
    BY <1>7 DEF Kill, Ended
  <2>3. (UnopenedPaid /\ OrphansCostKills)'
    BY <1>7 DEF Kill, Ended
  <2>4. (FilesAsRead /\ PidIsDisplay /\ ToldByMisfire /\ SameConfiguration)'
    BY <1>7 DEF Kill, Ended
  <2> QED
    BY <2>1, <2>2, <2>3, <2>4
<1>8. CASE ExecReportgenFails
  BY <1>8 DEF ExecReportgenFails, SigTerm, HandlersInstalled
<1>9. CASE EditFiles
  BY <1>9 DEF EditFiles
<1> QED
  BY <1>1, <1>2, <1>3, <1>4, <1>5, <1>6, <1>7, <1>8, <1>9 DEF Loop

(* ... and those of the display. *)
LEMMA DisplayStep ==
  ASSUME SessionInv, DisplaySteps \/ (StartFails /\ UNCHANGED sessionVars)
  PROVE  SessionInv'
<1> USE DEF SessionInv, SessionTypeOK, TypeOK, NoDisplayYet, PidKnown, FileState, UnopenedPaid,
            FilesAsRead, PidIsDisplay, OrphansCostKills, ToldByMisfire, SameConfiguration,
            ToOpen, BeforeOpen, Running, Unread, DisplayAlive, DisplayPC,
            vars, veterodVars, displayVars, configVars, sessionVars
<1>1. CASE DisplayStarts
  <2>1. dfile' = FileInForce(given) /\ dfile' \in Paths \cup {NoPath}
    BY <1>1, FileInForceType DEF DisplayStarts, DisplayArgument
  <2>2. FileInForce(given)' = FileInForce(given)
    BY <1>1 DEF DisplayStarts, FileInForce
  <2> QED
    BY <1>1, <2>1, <2>2 DEF DisplayStarts, OpenReadonly
<1>2. CASE (InstallHandlers \/ OpenDisplay \/ TestQuit \/ StartFails) /\ UNCHANGED sessionVars
  BY <1>2 DEF InstallHandlers, OpenDisplay, TestQuit, StartFails, FileInForce
<1>3. CASE (Query \/ QueryFails \/ UpdateDisplay) /\ UNCHANGED sessionVars
  BY <1>3 DEF Query, QueryFails, UpdateDisplay, FileInForce
<1>4. CASE (EnterWait \/ Timeout) /\ UNCHANGED sessionVars
  <2>1. SessionTypeOK'
    <3>1. (data \in 0 .. MaxData /\ weather \in 0 .. MaxData /\ shown \in 0 .. MaxData)'
      BY <1>4 DEF EnterWait, Timeout, FileInForce
    <3>2. (woken \in 0 .. MaxData /\ dbErrors \in 0 .. MaxDbErrors)'
      BY <1>4 DEF EnterWait, Timeout, FileInForce
    <3>3. TypeOK'
      BY <1>4, <3>1, <3>2 DEF EnterWait, Timeout, FileInForce
    <3>4. (orphans \in Nat /\ starts \in 0 .. MaxStarts)'
      BY <1>4 DEF EnterWait, Timeout, FileInForce
    <3> QED
      BY <1>4, <3>3, <3>4 DEF EnterWait, Timeout, FileInForce
  <2>2. (NoDisplayYet /\ PidKnown /\ FileState)'
    BY <1>4 DEF EnterWait, Timeout, FileInForce
  <2>3. (UnopenedPaid /\ OrphansCostKills)'
    BY <1>4 DEF EnterWait, Timeout, FileInForce
  <2>4. (FilesAsRead /\ PidIsDisplay /\ ToldByMisfire /\ SameConfiguration)'
    BY <1>4 DEF EnterWait, Timeout, FileInForce
  <2> QED
    BY <2>1, <2>2, <2>3, <2>4
<1> QED
  BY <1>1, <1>2, <1>3, <1>4 DEF DisplaySteps

THEOREM SessionInvariant == SessionSpec => []SessionInv
<1>1. ASSUME SessionInv, [SessionNext]_allVars PROVE SessionInv'
  <2>1. CASE UNCHANGED allVars
    BY <1>1, <2>1
       DEF SessionInv, SessionTypeOK, TypeOK, NoDisplayYet, PidKnown, FileState, UnopenedPaid,
           FilesAsRead, PidIsDisplay, OrphansCostKills, ToldByMisfire, SameConfiguration,
           ToOpen, BeforeOpen, Running, Unread, DisplayAlive, FileInForce, allVars,
           vars, veterodVars, displayVars, configVars, sessionVars
  <2> QED
    BY <1>1, <2>1, StartStep, VeterodStep, DisplayStep DEF SessionNext
<1> QED
  BY <1>1, SessionInitial, PTL DEF SessionSpec

(* Types, and that veterod's steps count exactly while it is in exec.      *)
THEOREM SessionTypeCorrect == SessionSpec => []SessionTypeOK
<1>1. SessionInv => SessionTypeOK
  BY DEF SessionInv
<1> QED
  BY <1>1, SessionInvariant, PTL

(* The process veterod signals is its display daemon, over any number of   *)
(* starts.                                                                 *)
THEOREM PidIsDisplayHolds == SessionSpec => []PidIsDisplay
<1>1. SessionInv => PidIsDisplay
  BY DEF SessionInv
<1> QED
  BY <1>1, SessionInvariant, PTL

(* Only kills, and signals before s_displayPid is assigned, leave a display*)
(* daemon behind.                                                          *)
THEOREM OrphansCostKillsHolds == SessionSpec => []OrphansCostKills
<1>1. SessionInv => OrphansCostKills
  BY DEF SessionInv
<1> QED
  BY <1>1, SessionInvariant, PTL

(* veterod loops over a database with all its tables, or one whose creation*)
(* an earlier start did not finish.                                        *)
THEOREM TablesOrCutHolds == SessionSpec => []TablesOrCut
<1>1. SessionInv => TablesOrCut
  BY DEF SessionInv, FileState, TablesOrCut, SessionTypeOK, TypeOK
<1> QED
  BY <1>1, SessionInvariant, PTL

(* Display daemons that end for want of the file are paid for by starts    *)
(* that ended before they created it, but for one.                         *)
THEOREM UnopenedOnceHolds == SessionSpec => []UnopenedOnce
<1>1. SessionInv => UnopenedOnce
  BY DEF SessionInv, UnopenedPaid, UnopenedOnce, BeforeOpen, ToOpen, NoDisplayYet, SessionTypeOK, TypeOK
<1> QED
  BY <1>1, SessionInvariant, PTL

(* A display that was told to quit by a running veterod's children was told*)
(* by a report generator that could not be executed.                       *)
THEOREM ToldByMisfireHolds == SessionSpec => []ToldByMisfire
<1>1. SessionInv => ToldByMisfire
  BY DEF SessionInv
<1> QED
  BY <1>1, SessionInvariant, PTL

(* veterod and its display run on the same configuration file.             *)
THEOREM SameConfigurationHolds == SessionSpec => []SameConfiguration
<1>1. SessionInv => SameConfiguration
  BY DEF SessionInv
<1> QED
  BY <1>1, SessionInvariant, PTL
=============================================================================
