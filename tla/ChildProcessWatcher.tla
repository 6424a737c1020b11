------------------------ MODULE ChildProcessWatcher -------------------------
(***************************************************************************)
(* The children of veterod: the vetero-reportgen processes, which          *)
(* ChildProcessWatcher reaps in the handler of SIGCHLD                     *)
(* (src/src/veterod/childprocesswatcher.cc), and the display daemon, which *)
(* notifyDisplay waits for in the main loop (veterod.cc:243-267), and the  *)
(* shell of the update postscript, which system() waits for.               *)
(*                                                                         *)
(* The handler interrupts the main program wherever SIGCHLD is not blocked *)
(* and runs to its end before the main program goes on; children end at    *)
(* any time.  SIGCHLD is not queued: children that end while it is pending,*)
(* blocked or being handled leave one pending signal.  Process numbers are *)
(* used again once a process has been waited for.                          *)
(***************************************************************************)
EXTENDS Integers

CONSTANT Pid  \* process numbers

ASSUME PidAssumption == Pid \subseteq Nat \ {0}

NoPid == 0

VARIABLES proc,       \* "free", "running" or "zombie", for each process number
          display,    \* the process number of the display daemon, or NoPid
          main,       \* where the main program is, see Main
          newPid,     \* childpid in updateReports, the shell in system()
          displayPid, \* s_displayPid
          children,   \* m_children
          installed,  \* the handler of SIGCHLD is installed
          pending,    \* SIGCHLD is pending
          handling,   \* the handler runs
          toScan      \* children its loop has not come to yet

mainVars == <<main, newPid, displayPid>>
sigVars == <<installed, pending, handling, toScan>>
vars == <<proc, display, mainVars, children, sigVars>>

(* "start" is before startDisplay, "read" the loop of exec outside of the  *)
(* steps modelled here; addChild is "block", "wait", "insert", "unblock".  *)
(* "script" is in system(), which blocks SIGCHLD, too.                     *)
Main == {"start", "read", "block", "wait", "insert", "unblock", "script"}
Blocked == main \in {"wait", "insert", "unblock", "script"}

TypeOK ==
  /\ proc \in [Pid -> {"free", "running", "zombie"}]
  /\ display \in Pid \union {NoPid} /\ displayPid \in Pid \union {NoPid}
  /\ main \in Main
  /\ newPid \in Pid \union {NoPid}
  /\ children \subseteq Pid /\ toScan \subseteq Pid
  /\ installed \in BOOLEAN /\ pending \in BOOLEAN /\ handling \in BOOLEAN

Init ==
  /\ proc = [p \in Pid |-> "free"]
  /\ display = NoPid /\ displayPid = NoPid /\ newPid = NoPid
  /\ main = "start"
  /\ children = {} /\ toScan = {}
  /\ installed = FALSE /\ pending = FALSE /\ handling = FALSE

-----------------------------------------------------------------------------
(* waitpid(p, WNOHANG) returns p: the zombie is gone, its number is free.  *)
Reap(p) == proc' = [proc EXCEPT ![p] = "free"]

(* startDisplay, when a display is configured *)
StartDisplay ==
  /\ main = "start"
  /\ main' = "read"
  /\ \E p \in Pid :
       /\ proc' = [proc EXCEPT ![p] = "running"]
       /\ display' = p /\ displayPid' = p
  /\ UNCHANGED <<newPid, children, sigVars>>

NoDisplay ==
  /\ main = "start"
  /\ main' = "read"
  /\ UNCHANGED <<proc, display, newPid, displayPid, children, sigVars>>

(* updateReports: start_background("vetero-reportgen").  When fork fails   *)
(* the error is logged and nothing changes.                                *)
StartReports ==
  /\ main = "read" /\ ~handling
  /\ \E p \in Pid :
       /\ proc[p] = "free"
       /\ proc' = [proc EXCEPT ![p] = "running"]
       /\ newPid' = p
  /\ main' = "block"
  /\ UNCHANGED <<display, displayPid, children, sigVars>>

(* ChildProcessWatcher::instance() installs the handler the first time;    *)
(* addChild blocks SIGCHLD.                                                *)
Block ==
  /\ main = "block" /\ ~handling
  /\ installed' = TRUE
  /\ main' = "wait"
  /\ UNCHANGED <<proc, display, newPid, displayPid, children, pending, handling, toScan>>

(* Mutant of AddWait: the child is inserted without a look at it. *)
AddWithoutWait ==
  /\ main = "wait" /\ ~handling
  /\ main' = "insert"
  /\ UNCHANGED <<proc, display, newPid, displayPid, children, sigVars>>

(* if (!wait(pid)) ... *)
AddWait ==
  /\ main = "wait" /\ ~handling
  /\ IF proc[newPid] = "zombie"
       THEN Reap(newPid) /\ children' = children \ {newPid} /\ main' = "unblock"
       ELSE main' = "insert" /\ UNCHANGED <<proc, children>>
  /\ UNCHANGED <<display, newPid, displayPid, sigVars>>

(* ... m_children.insert(pid) *)
AddInsert ==
  /\ main = "insert" /\ ~handling
  /\ children' = children \union {newPid}
  /\ main' = "unblock"
  /\ UNCHANGED <<proc, display, newPid, displayPid, sigVars>>

Unblock ==
  /\ main = "unblock" /\ ~handling
  /\ newPid' = NoPid
  /\ main' = "read"
  /\ UNCHANGED <<proc, display, displayPid, children, sigVars>>

(* runPostscript: system() starts a shell, with the environment that       *)
(* updateEnvironment has made (in CurrentWeather) ...                      *)
RunPostscript ==
  /\ main = "read" /\ ~handling
  /\ \E p \in Pid :
       /\ proc[p] = "free"
       /\ proc' = [proc EXCEPT ![p] = "running"]
       /\ newPid' = p
  /\ main' = "script"
  /\ UNCHANGED <<display, displayPid, children, sigVars>>

(* ... and waits for it, however long it takes. *)
PostscriptEnds ==
  /\ main = "script" /\ ~handling
  /\ proc[newPid] = "zombie"
  /\ Reap(newPid)
  /\ newPid' = NoPid
  /\ main' = "read"
  /\ UNCHANGED <<display, displayPid, children, sigVars>>

(* notifyDisplay waits for the display without blocking; the signals it    *)
(* sends are in Displayd.                                                  *)
NotifyDisplay ==
  /\ main = "read" /\ ~handling
  /\ displayPid # NoPid
  /\ proc[displayPid] = "zombie"
  /\ Reap(displayPid)
  /\ display' = NoPid /\ displayPid' = NoPid
  /\ UNCHANGED <<main, newPid, children, sigVars>>

(* A child ends; SIGCHLD is discarded while its action is the default one. *)
ChildEnds ==
  /\ \E p \in Pid :
       /\ proc[p] = "running"
       /\ proc' = [proc EXCEPT ![p] = "zombie"]
  /\ pending' = installed
  /\ UNCHANGED <<display, mainVars, children, installed, handling, toScan>>

-----------------------------------------------------------------------------
(* handleZombies *)

Deliver ==
  /\ pending /\ ~Blocked /\ ~handling
  /\ pending' = FALSE
  /\ handling' = TRUE
  /\ toScan' = children
  /\ UNCHANGED <<proc, display, mainVars, children, installed>>

(* Mutant of ScanReaps: the process stays in the list. *)
ScanKeeps(p) ==
  /\ proc[p] = "zombie"
  /\ Reap(p)
  /\ toScan' = toScan \ {p}
  /\ UNCHANGED children

(* Mutant of ScanReaps: one child for each signal *)
ScanStops(p) ==
  /\ proc[p] = "zombie"
  /\ Reap(p)
  /\ children' = children \ {p}
  /\ toScan' = {}

(* wait() is true: the child is gone and the list is gone through again.*)
ScanReaps(p) ==
  /\ proc[p] = "zombie"
  /\ Reap(p)
  /\ children' = children \ {p}
  /\ toScan' = children \ {p}

(* wait() is false: still running, or waitpid fails *)
ScanPasses(p) ==
  /\ proc[p] # "zombie"
  /\ toScan' = toScan \ {p}
  /\ UNCHANGED <<proc, children>>

(* std::set is gone through in ascending order. *)
Scan ==
  /\ handling
  /\ \E p \in toScan :
       /\ \A q \in toScan : p <= q
       /\ ScanReaps(p) \/ ScanPasses(p)
  /\ UNCHANGED <<display, mainVars, installed, pending, handling>>

Return ==
  /\ handling /\ toScan = {}
  /\ handling' = FALSE
  /\ UNCHANGED <<proc, display, mainVars, children, installed, pending, toScan>>

AddChild == Block \/ AddWait \/ AddInsert \/ Unblock
Handler == Scan \/ Return

Next == StartDisplay \/ NoDisplay \/ StartReports \/ AddChild \/ NotifyDisplay
          \/ RunPostscript \/ PostscriptEnds \/ ChildEnds \/ Deliver \/ Handler

Spec == Init /\ [][Next]_vars

(* A started addChild goes on and so does the handler, and the postscript  *)
(* comes to its end: veterod waits for it without a limit.  Deliver is strongly*)
(* fair: sigprocmask does not return from unblocking a pending signal      *)
(* before the handler ran, so blocking it again and again cannot hold it   *)
(* back for ever.                                                          *)
ScriptEnds == (main = "script" /\ ChildEnds /\ proc'[newPid] = "zombie") \/ PostscriptEnds
FairSpec ==
  /\ Spec
  /\ WF_vars(AddChild) /\ WF_vars(Handler) /\ WF_vars(ScriptEnds) /\ SF_vars(Deliver)

-----------------------------------------------------------------------------
(* "it only calls waitpid() on the processes that it maintains in a list"  *)
(* (childprocesswatcher.h:32): the list holds report generators that have  *)
(* not been waited for, never the display or the postscript and never a    *)
(* number that another process may have by now.                            *)
WatchedAreReports ==
  \A p \in children :
    proc[p] # "free" /\ p # display /\ ~(main = "script" /\ p = newPid)

(* s_displayPid, which gets SIGUSR1 and SIGTERM, is the display daemon.    *)
DisplayPidIsDisplay ==
  /\ displayPid = display
  /\ display # NoPid => proc[display] # "free"

(* No ended report generator is forgotten: the handler has it before it,   *)
(* SIGCHLD is pending, or addChild has not looked at it yet ("Handles also *)
(* the case that SIGCHLD was already called", childprocesswatcher.h:66);   *)
(* nor the shell of the postscript.                                        *)
Remembered(p) ==
  \/ p \in children /\ (pending \/ (handling /\ p \in toScan))
  \/ p = newPid /\ main \in {"block", "wait", "script"}
  \/ p = newPid /\ main = "insert" /\ pending
NoLostChild == \A p \in Pid : (proc[p] = "zombie" /\ p # display) => Remembered(p)

(* Every report generator that ended is waited for in the end, also when   *)
(* several end before the handler runs, or while it runs.                  *)
EveryZombieReaped ==
  \A p \in Pid : (proc[p] = "zombie" /\ p # display) ~> (proc[p] = "free")
=============================================================================
