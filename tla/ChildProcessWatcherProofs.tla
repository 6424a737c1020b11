---------------------- MODULE ChildProcessWatcherProofs ----------------------
(***************************************************************************)
(* Theorems about ChildProcessWatcher for any set of process numbers, so   *)
(* for any number of report generators that run at the same time.          *)
(***************************************************************************)
EXTENDS ChildProcessWatcher, TLAPS

USE PidAssumption DEF PidAssumption

(* The child addChild has not handed over yet, or the shell of the         *)
(* postscript, is no other process the watcher or the main loop knows.     *)
NewChild ==
  /\ main \in {"block", "wait", "insert", "script"} =>
       newPid \in Pid /\ proc[newPid] # "free" /\ newPid # display /\ newPid \notin children
  /\ main = "start" => display = NoPid /\ children = {}

(* Nobody else has started a process. *)
Known ==
  \A p \in Pid : proc[p] # "free" =>
    \/ p = display \/ p \in children
    \/ p = newPid /\ main \in {"block", "wait", "insert", "script"}

(* The handler is there when it is needed, goes through the list only, and *)
(* never runs inside addChild's blocked part.                              *)
HandlerState ==
  /\ children # {} \/ main \in {"wait", "insert", "unblock"} \/ pending \/ handling => installed
  /\ toScan \subseteq children
  /\ handling => ~Blocked

WatcherInv ==
  /\ TypeOK /\ NewChild /\ Known /\ HandlerState
  /\ WatchedAreReports /\ DisplayPidIsDisplay /\ NoLostChild

(* The inductive invariant holds at first ... *)
LEMMA WatcherInit == Init => WatcherInv
BY DEF Init, WatcherInv, TypeOK, NewChild, Known, HandlerState, WatchedAreReports,
       DisplayPidIsDisplay, NoLostChild, Remembered, Main, Blocked, NoPid

(* ... and every step keeps it: the main program's, the children's and the *)
(* handler's.                                                              *)
LEMMA WatcherStep ==
  ASSUME WatcherInv, [Next]_vars
  PROVE  WatcherInv'
<1> USE DEF WatcherInv, TypeOK, NewChild, Known, HandlerState, WatchedAreReports,
            DisplayPidIsDisplay, NoLostChild, Remembered, Main, Blocked, NoPid,
            mainVars, sigVars, Reap
<1>1. CASE StartDisplay
  BY <1>1 DEF StartDisplay
<1>2. CASE NoDisplay
  BY <1>2 DEF NoDisplay
<1>3. CASE StartReports
  BY <1>3 DEF StartReports
<1>4. CASE Block
  BY <1>4 DEF Block
<1>5. CASE AddWait
  BY <1>5 DEF AddWait
<1>6. CASE AddInsert
  BY <1>6 DEF AddInsert
<1>7. CASE Unblock
  BY <1>7 DEF Unblock
<1>8. CASE NotifyDisplay
  BY <1>8 DEF NotifyDisplay
<1>9. CASE ChildEnds
  BY <1>9 DEF ChildEnds
<1>10. CASE Deliver
  BY <1>10 DEF Deliver
<1>11. CASE Scan
  BY <1>11 DEF Scan, ScanReaps, ScanPasses
<1>12. CASE Return
  BY <1>12 DEF Return
<1>13. CASE RunPostscript
  BY <1>13 DEF RunPostscript
<1>14. CASE PostscriptEnds
  BY <1>14 DEF PostscriptEnds
<1>15. CASE UNCHANGED vars
  BY <1>15 DEF vars
<1> QED
  BY <1>1, <1>2, <1>3, <1>4, <1>5, <1>6, <1>7, <1>8, <1>9, <1>10, <1>11, <1>12, <1>13,
     <1>14, <1>15
     DEF Next, AddChild, Handler

(* So it always holds. *)
THEOREM WatcherInvariant == Spec => []WatcherInv
<1> QED
  BY WatcherInit, WatcherStep, PTL DEF Spec

(* Only report generators that have not been waited for are in the list    *)
(* the handler calls waitpid for: neither the display daemon nor a process *)
(* that got the number of an earlier child.                                *)
THEOREM WatchedAreReportsHolds == Spec => []WatchedAreReports
<1>1. WatcherInv => WatchedAreReports
  BY DEF WatcherInv
<1> QED
  BY <1>1, WatcherInvariant, PTL

(* s_displayPid always is the running or not yet waited for display        *)
(* daemon, however often process numbers are used again.                   *)
THEOREM DisplayPidIsDisplayHolds == Spec => []DisplayPidIsDisplay
<1>1. WatcherInv => DisplayPidIsDisplay
  BY DEF WatcherInv
<1> QED
  BY <1>1, WatcherInvariant, PTL

(* A report generator that ended at any point of addChild or of the        *)
(* handler is seen by addChild itself, by the running handler or by one    *)
(* whose signal is pending.                                                *)
THEOREM NoLostChildHolds == Spec => []NoLostChild
<1>1. WatcherInv => NoLostChild
  BY DEF WatcherInv
<1> QED
  BY <1>1, WatcherInvariant, PTL

(* Whatever the main loop and the handler do to them, s_displayPid and     *)
(* m_children hold process numbers, for any number of processes            *)
(* (childprocesswatcher.cc:62, veterod.cc:50).                             *)
THEOREM TypeCorrect == Spec => []TypeOK
<1>1. WatcherInv => TypeOK
  BY DEF WatcherInv
<1> QED
  BY <1>1, WatcherInvariant, PTL
=============================================================================
