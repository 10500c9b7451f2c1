----------------------------- MODULE MCSignals -----------------------------
(***************************************************************************)
(* Signals with three deliveries, the fewest with which two handlers can   *)
(* overlap after the signal that drains the run.                           *)
(***************************************************************************)
EXTENDS Signals

CONSTANTS h1, h2, h3
MCDeliveries == {h1, h2, h3}
=============================================================================
