----------------------------- MODULE MCSession -------------------------------
EXTENDS Session

(* A file in /etc that has no display and hides the one in the home        *)
(* directory; one given with --configfile that can, and that cannot be     *)
(* parsed. *)
WithLcd == [display |-> TRUE]
NoLcd == [sensor_type |-> "ws980"]
MCLayouts ==
  {("given" :> WithLcd @@ "prefix" :> Absent @@ "etc" :> NoLcd @@ "home" :> Garbled),
   ("given" :> Garbled @@ "prefix" :> Absent @@ "etc" :> Absent @@ "home" :> WithLcd)}
=============================================================================
