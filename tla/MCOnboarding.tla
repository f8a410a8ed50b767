---------------------------- MODULE MCOnboarding ----------------------------
(* Two pages of one portal, a network the device can join and one it cannot, two setup
   codes. *)
EXTENDS Onboarding, TLC

Symmetry == Permutations(Pages)
===============================================================================
