----------------------------- MODULE MCUnaryCreds ------------------------------
(* Instances of UnaryCreds for TLC.                                          *)
EXTENDS UnaryCreds
================================================================================
