------------------------------ MODULE Maildrop ------------------------------
(***************************************************************************)
(* What one POP3 session promises its client about the mailbox             *)
(* (doc/rfc/rfc1939.txt, sections 4 to 6, as far as the server keeps to    *)
(* it): messages are removed only by a QUIT given in the TRANSACTION       *)
(* state, only marked ones, and all of them when that QUIT is answered     *)
(* +OK.  A session that ends in any other way removes nothing.             *)
(***************************************************************************)
CONSTANT Message

VARIABLES
  phase,   \* AUTHORIZATION, TRANSACTION, UPDATE (QUIT answered +OK), CLOSED
  marks,   \* messages marked as deleted
  gone     \* messages removed from the mailbox

vars == <<phase, marks, gone>>

Init ==
  /\ phase = "AUTHORIZATION"
  /\ marks = {}
  /\ gone = {}

Login ==
  /\ phase = "AUTHORIZATION"
  /\ phase' = "TRANSACTION"
  /\ UNCHANGED <<marks, gone>>

Dele(m) ==
  /\ phase = "TRANSACTION"
  /\ marks' = marks \cup {m}
  /\ UNCHANGED <<phase, gone>>

Rset ==
  /\ phase = "TRANSACTION"
  /\ marks' = {}
  /\ UNCHANGED <<phase, gone>>

(* QUIT answered +OK.  Before the login there is nothing to remove.         *)
Quit ==
  /\ phase \in {"AUTHORIZATION", "TRANSACTION"}
  /\ phase' = "UPDATE"
  /\ gone' = marks
  /\ UNCHANGED marks

(* QUIT answered -ERR may have removed some of the marked messages *)
QuitFails ==
  /\ phase = "TRANSACTION"
  /\ phase' = "CLOSED"
  /\ gone' \in SUBSET marks
  /\ UNCHANGED marks

(* Any other end of the session, or the end of an answered QUIT *)
Close ==
  /\ phase # "CLOSED"
  /\ phase' = "CLOSED"
  /\ UNCHANGED <<marks, gone>>

Next == Login \/ (\E m \in Message : Dele(m)) \/ Rset \/ Quit \/ QuitFails \/ Close

Spec == Init /\ [][Next]_vars
=============================================================================
