---------------------------- MODULE MCLearnSession ----------------------------
(* A small instance of LearnSession: one IR and one RF band, a clock that wraps
   within reach of the window, three starts against two cancels. *)
EXTENDS LearnSession

MCWindow == 2
MCClockMod == 5
===============================================================================
