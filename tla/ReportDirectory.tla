--------------------------- MODULE ReportDirectory ---------------------------
(***************************************************************************)
(* What LockFile promises about the report directory, without processes,   *)
(* jobs and descriptors (src/src/common/lockfile.h): generators work in it *)
(* together, an upload has it for itself, and what is in it changes by the *)
(* hand of a generator at work and never while it is uploaded.             *)
(*                                                                         *)
(* Reportgen is shown to implement this specification.                     *)
(***************************************************************************)
CONSTANT Generator

VARIABLES users,      \* the generators that work in the directory
          uploading,  \* those that upload it
          content     \* what it holds

vars == <<users, uploading, content>>

Init == users = {} /\ uploading = {}

Enter(g) ==
  /\ uploading = {}
  /\ users' = users \union {g}
  /\ UNCHANGED <<uploading, content>>

(* content is what g makes of it. *)
Write(g) ==
  /\ g \in users
  /\ UNCHANGED <<users, uploading>>

Leave(g) ==
  /\ g \in users
  /\ users' = users \ {g}
  /\ UNCHANGED uploading

StartUpload(g) ==
  /\ users = {} /\ uploading = {}
  /\ uploading' = {g}
  /\ UNCHANGED <<users, content>>

EndUpload(g) ==
  /\ uploading = {g}
  /\ uploading' = {}
  /\ UNCHANGED <<users, content>>

Next ==
  \E g \in Generator : Enter(g) \/ Write(g) \/ Leave(g) \/ StartUpload(g) \/ EndUpload(g)

Spec == Init /\ [][Next]_vars
=============================================================================
