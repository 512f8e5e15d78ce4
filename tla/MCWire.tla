------------------------------- MODULE MCWire -------------------------------
(* The sizes of the code, with frames on both sides of each limit. *)
EXTENDS Wire

\* BigEndian.PutUint64 for small numbers.
BigEndian(n) == [i \in 1..8 |-> <<IF i = 8 THEN n ELSE 0>>]
=============================================================================
