---------------------------- MODULE MCRainGauge -----------------------------
(***************************************************************************)
(* Rain for RainGauge: a third of the counter's range and its whole range, *)
(* beginning at 0 and shortly before the first wrap; and single tips of a  *)
(* 16 bit counter, as the FreeTec station has it, shortly before its wrap. *)
(***************************************************************************)
EXTENDS RainGauge

MCStarts == {0, 4000}
MCFalls == {1365, 4096}

MCFreeTecStarts == {65535}
MCFreeTecFalls == {1}
=============================================================================
