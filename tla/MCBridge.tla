------------------------------ MODULE MCBridge ------------------------------
(* The bridge with small queues and a small miss limit, for TLC. *)
EXTENDS Bridge
=============================================================================
