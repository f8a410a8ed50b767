------------------------------ MODULE MCLearnUi ------------------------------
(* A small instance of LearnUi: a page that starts two learns beside a tab that
   sends one request, and one fetch that fails. *)
EXTENDS LearnUi

===============================================================================
