------------------------------ MODULE MCRunner ------------------------------
(* Model-checking instance of Runner: two clients and a strategy of two       *)
(* different delays.                                                          *)
EXTENDS Runner

Delays == CustomInterval(<<1, 2>>)
=============================================================================
