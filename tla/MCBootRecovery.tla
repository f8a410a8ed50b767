---------------------------- MODULE MCBootRecovery ----------------------------
(* A small instance of BootRecovery: the code's three boots, holds of two and four
   units, a stable run of four, and polls any time apart, told from each other up to four
   units: within the two that the holds are apart, and beyond. *)
EXTENDS BootRecovery

===============================================================================
