----------------------------- MODULE MCEsSleep -----------------------------
(* Instances of EsSleep for TLC.                                           *)
EXTENDS EsSleep, TLC
============================================================================
