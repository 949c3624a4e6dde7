----------------------------- MODULE MCChatRunner -----------------------------
(* ChatRunner on one or two turns, which are interchangeable.              *)
EXTENDS ChatRunner, TLC

MCSymmetry == Permutations(Turns)
===============================================================================
