------------------------------ MODULE MCThrottle ------------------------------
(* A small instance of Throttle: three clients share a table of two entries, two
   failures lock a client for two units of a clock that wraps. *)
EXTENDS Throttle

MCClockMod == 6
===============================================================================
