----------------------------- MODULE MCSession -----------------------------
(* Two processes, two keys (interchangeable), few messages. *)
EXTENDS Session, TLC

KeySymmetry == Permutations(Keys)
=============================================================================
