---------------------------- MODULE MCPopSession ----------------------------
(* A mailbox of up to MaxMsg messages, a client forgiven MaxErrors times.   *)
EXTENDS PopSession
=============================================================================
