---------------------------- MODULE MCKeepAlive ----------------------------
(* The keep-alive with a short interval and few messages in flight, and the *)
(* statistics of its round trip times.                                     *)
EXTENDS KeepAlive

\* A clock set back, no time at all, and both sides of a spike.
SomeDurations == {-5, 0, 1, 2, 3, 7}
=============================================================================
