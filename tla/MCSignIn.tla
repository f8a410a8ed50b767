------------------------------ MODULE MCSignIn ------------------------------
(* Two tabs of one browser, a few pages, tokens and sessions, and one restart. *)
EXTENDS SignIn, TLC

Symmetry == Permutations(Tabs)
===============================================================================
