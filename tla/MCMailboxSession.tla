------------------------- MODULE MCMailboxSession --------------------------
(* Three POP3 threads on one account or on two, with an address to spare.   *)
EXTENDS MailboxSession, TLC

CONSTANTS t1, t2, t3, k1, k2, d1, n1, n2, n3, n4

Sym == Permutations({t1, t2, t3}) \cup Permutations({n1, n2, n3, n4})
       \cup Permutations({k1, k2})
=============================================================================
