---------------------------- MODULE MCThreadPool ----------------------------
(* ThreadPool with two slots and three thread identifiers, so that an       *)
(* identifier is given out again while both slots are busy.                 *)
EXTENDS ThreadPool, TLC

CONSTANTS t1, t2, t3

Threads == Permutations({t1, t2, t3})
=============================================================================
