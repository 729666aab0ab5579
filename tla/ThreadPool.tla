----------------------------- MODULE ThreadPool -----------------------------
(***************************************************************************)
(* The pool of POP3 threads (modules/src/pop3server/threads.c), the accept *)
(* loop that takes threads from it (popserver_start) and the threads that  *)
(* give themselves back (the last steps of pop3_thread).  No mutex guards  *)
(* thread_register: the accept loop and every dying thread read and write  *)
(* it one memory access at a time, and so do the actions below.            *)
(***************************************************************************)
EXTENDS Integers, FiniteSets

CONSTANTS
  N,              \* max_threads, the -t option
  ThreadId,       \* the pthread_t values pthread_create may return
  HeapKeepsData,  \* does free() leave the pthread_t in the memory it takes back?
  Null,           \* the NULL handle
  Junk            \* malloc'ed memory that shows no thread's identifier

ASSUME PoolSize     == N \in Nat \ {0}
ASSUME HandleValues == /\ Null \notin ThreadId
                       /\ Junk \notin ThreadId
                       /\ Null # Junk
ASSUME HeapKind     == HeapKeepsData \in BOOLEAN
ASSUME EnoughIds    == IsFiniteSet(ThreadId)

Slot == 1 .. N

VARIABLES
  pth,       \* thread_register[i].pth: Null, or the pthread_t it points to
  active,    \* thread_register[i].active
  mpc,       \* where the accept loop is
  mi,        \* the slot its scan (or its new thread) is at
  connected, \* sock_listen has returned a connection, and not NULL
  thr,       \* where each POP3 thread is
  di,        \* the slot its thread_die scan is at
  freed      \* identifiers that freed handles still show

vars == <<pth, active, mpc, mi, connected, thr, di, freed>>

main   == <<mpc, mi, connected>>
worker == <<thr, di>>

ActiveValue == {"UNUSED", "USED", "WILL_DIE"}
MainPc      == {"listen", "clean", "get", "use", "create", "crashed", "aborted", "faulted"}
ThreadPc    == {"none", "serving", "check", "compare", "mark", "dying", "exited", "faulted"}

TypeOK ==
  /\ pth \in [Slot -> ThreadId \cup {Null, Junk}]
  /\ active \in [Slot -> ActiveValue]
  /\ mpc \in MainPc
  /\ mi \in 1 .. N + 1
  /\ connected \in BOOLEAN
  /\ thr \in [ThreadId -> ThreadPc]
  /\ di \in [ThreadId -> 1 .. N + 1]
  /\ freed \subseteq ThreadId

(* thread_init, before the accept loop *)
Init ==
  /\ pth = [s \in Slot |-> Null]
  /\ active = [s \in Slot |-> "UNUSED"]
  /\ mpc = "listen"
  /\ mi = 1
  /\ connected = FALSE
  /\ thr = [t \in ThreadId |-> "none"]
  /\ di = [t \in ThreadId |-> 1]
  /\ freed = {}

(* A read through NULL that is not the accept loop's use of a handle: the    *)
(* process ends there, whoever makes it                                    *)
Faulted == mpc = "faulted" \/ \E t \in ThreadId : thr[t] = "faulted"
Running == mpc \notin {"crashed", "aborted"} /\ ~Faulted

-----------------------------------------------------------------------------
(* The accept loop *)

(* sock_listen returns: a client has connected, or accept has failed and    *)
(* the NULL it gives is not looked at                                      *)
Accept ==
  /\ mpc = "listen"
  /\ mpc' = "clean"
  /\ mi' = 1
  /\ connected' \in BOOLEAN
  /\ UNCHANGED <<pth, active, worker, freed>>

(* thread_clean at a slot it has nothing to do for, or past the last slot *)
CleanSkip ==
  /\ mpc = "clean"
  /\ IF mi \in Slot
       THEN /\ active[mi] # "WILL_DIE"
            /\ mi' = mi + 1
            /\ UNCHANGED mpc
       ELSE /\ mpc' = "get"
            /\ UNCHANGED mi
  /\ UNCHANGED <<connected, pth, active, worker, freed>>

(* Fault: active is not set back to UNUSED *)
CleanJoin_KeepsMark ==
  /\ mpc = "clean"
  /\ mi \in Slot
  /\ active[mi] = "WILL_DIE"
  /\ IF pth[mi] = Null
       THEN mpc' = "crashed" /\ UNCHANGED <<mi, pth, thr>>
       ELSE /\ thr[pth[mi]] = "exited"
            /\ thr' = [thr EXCEPT ![pth[mi]] = "none"]
            /\ pth' = [pth EXCEPT ![mi] = Null]
            /\ mi' = mi + 1
            /\ UNCHANGED mpc
  /\ UNCHANGED <<connected, active, di, freed>>

(* thread_clean at a WILL_DIE slot: pthread_join blocks until the thread    *)
(* has returned, then the slot is freed.  Joining through NULL crashes.     *)
CleanJoin ==
  /\ mpc = "clean"
  /\ mi \in Slot
  /\ active[mi] = "WILL_DIE"
  /\ IF pth[mi] = Null
       THEN /\ mpc' = "crashed"
            /\ UNCHANGED <<mi, pth, active, thr, freed>>
       ELSE /\ thr[pth[mi]] = "exited"
            /\ thr' = [thr EXCEPT ![pth[mi]] = "none"]
            /\ pth' = [pth EXCEPT ![mi] = Null]
            /\ active' = [active EXCEPT ![mi] = "UNUSED"]
            /\ freed' = IF HeapKeepsData THEN freed \cup {pth[mi]} ELSE freed
            /\ mi' = mi + 1
            /\ UNCHANGED mpc
  /\ UNCHANGED <<connected, di>>

(* thread_get_free takes the first unused slot: its pth points to memory    *)
(* nobody has written yet                                                   *)
GetFree ==
  /\ mpc = "get"
  /\ \E s \in Slot :
       /\ active[s] = "UNUSED"
       /\ \A r \in Slot : active[r] = "UNUSED" => s <= r
       /\ mi' = s
       /\ \E h \in freed \cup {Junk} :
            /\ pth' = [pth EXCEPT ![s] = h]
            /\ freed' = freed \ {h}
  /\ mpc' = "use"
  /\ UNCHANGED <<connected, active, worker>>

(* Fault: the slot is not marked *)
SetUsed_Forgotten ==
  /\ mpc = "use"
  /\ mpc' = "create"
  /\ UNCHANGED <<mi, connected, pth, active, worker, freed>>

(* Fault: the wrong mark *)
SetUsed_WillDie ==
  /\ mpc = "use"
  /\ active' = [active EXCEPT ![mi] = "WILL_DIE"]
  /\ mpc' = "create"
  /\ UNCHANGED <<mi, connected, pth, worker, freed>>

(* ... and marks it USED *)
SetUsed ==
  /\ mpc = "use"
  /\ active' = [active EXCEPT ![mi] = "USED"]
  /\ mpc' = "create"
  /\ UNCHANGED <<mi, connected, pth, worker, freed>>

(* No slot: the client is disconnected, through the NULL if there is none,  *)
(* and thread_notborn(NULL) is called, which would free through NULL a slot *)
(* whose pth is NULL                                                        *)
Refuse ==
  /\ mpc = "get"
  /\ \A s \in Slot : active[s] # "UNUSED"
  /\ mpc' = IF ~connected THEN "faulted"
            ELSE IF \E s \in Slot : pth[s] = Null THEN "crashed" ELSE "listen"
  /\ UNCHANGED <<mi, connected, pth, active, worker, freed>>

(* pthread_create succeeds: the handle is written, the thread runs.  Without *)
(* a client it sends its greeting through NULL.                            *)
Create(t) ==
  /\ mpc = "create"
  /\ thr[t] = "none"
  /\ pth' = [pth EXCEPT ![mi] = t]
  /\ thr' = [thr EXCEPT ![t] = IF connected THEN "serving" ELSE "faulted"]
  /\ di' = [di EXCEPT ![t] = 1]
  /\ mpc' = "listen"
  /\ UNCHANGED <<mi, connected, active, freed>>

(* pthread_create fails: ERROR_ABORT *)
CreateFails ==
  /\ mpc = "create"
  /\ mpc' = "aborted"
  /\ UNCHANGED <<mi, connected, pth, active, worker, freed>>

-----------------------------------------------------------------------------
(* A POP3 thread *)

(* The session is over and its socket closed: thread_die starts to scan *)
SessionOver(t) ==
  /\ Running
  /\ thr[t] = "serving"
  /\ thr' = [thr EXCEPT ![t] = "check"]
  /\ UNCHANGED <<pth, active, main, di, freed>>

(* thread_die: pth != NULL.  A scan that finds nothing marks nothing. *)
DieCheck(t) ==
  /\ Running
  /\ thr[t] = "check"
  /\ IF di[t] \in Slot /\ pth[di[t]] = Null
       THEN /\ di' = [di EXCEPT ![t] = @ + 1]
            /\ UNCHANGED thr
       ELSE /\ thr' = [thr EXCEPT ![t] = IF di[t] \in Slot THEN "compare" ELSE "dying"]
            /\ UNCHANGED di
  /\ UNCHANGED <<pth, active, main, freed>>

(* thread_die: pthread_equal(t, *pth), through the pointer that was tested.  *)
(* If the slot was freed since the check, it shows what the memory shows    *)
(* now: the identifier of the thread that was joined, never t's, or that of *)
(* the slot's next use.                                                     *)
DieCompare(t) ==
  /\ Running
  /\ thr[t] = "compare"
  /\ IF pth[di[t]] = t
       THEN /\ thr' = [thr EXCEPT ![t] = "mark"]
            /\ UNCHANGED di
       ELSE /\ thr' = [thr EXCEPT ![t] = "check"]
            /\ di' = [di EXCEPT ![t] = @ + 1]
  /\ UNCHANGED <<pth, active, main, freed>>

(* The source names thread_register[i].pth twice, and nothing keeps the      *)
(* compiler from loading it again: if thread_clean has set it to NULL since *)
(* the test, the thread reads through NULL.                                 *)
DieFaults(t) ==
  /\ Running
  /\ thr[t] = "compare"
  /\ pth[di[t]] = Null
  /\ thr' = [thr EXCEPT ![t] = "faulted"]
  /\ UNCHANGED <<pth, active, main, di, freed>>

(* thread_die: active = WILL_DIE *)
DieMark(t) ==
  /\ Running
  /\ thr[t] = "mark"
  /\ active' = [active EXCEPT ![di[t]] = "WILL_DIE"]
  /\ thr' = [thr EXCEPT ![t] = "dying"]
  /\ UNCHANGED <<pth, main, di, freed>>

(* delete_popstate_t (the Lua state is closed here) and return *)
Exit(t) ==
  /\ Running
  /\ thr[t] = "dying"
  /\ thr' = [thr EXCEPT ![t] = "exited"]
  /\ UNCHANGED <<pth, active, main, di, freed>>

-----------------------------------------------------------------------------
Main == \/ Accept \/ CleanSkip \/ CleanJoin \/ GetFree \/ SetUsed
        \/ Refuse \/ CreateFails \/ \E t \in ThreadId : Create(t)

Die(t) == DieCheck(t) \/ DieCompare(t) \/ DieFaults(t) \/ DieMark(t) \/ Exit(t)

Next == (Running /\ Main) \/ \E t \in ThreadId : SessionOver(t) \/ Die(t)

Spec == Init /\ [][Next]_vars

(* The scheduler runs the accept loop once it has a client and a thread     *)
(* once its session is over.  No client has to connect, none has to leave.  *)
Fairness == /\ WF_vars(Running /\ Main /\ ~Accept)
            /\ \A t \in ThreadId : WF_vars(Die(t))

FairSpec == Spec /\ Fairness

-----------------------------------------------------------------------------
(* Properties *)

Unborn(s)  == mpc \in {"use", "create", "aborted"} /\ s = mi
Owns(s, t) == pth[s] = t /\ ~Unborn(s)
Live       == {t \in ThreadId : thr[t] # "none"}

(* A slot is never reused under the thread it was taken for: every thread   *)
(* that has not been joined owns exactly one slot, and it is not UNUSED     *)
(* (thread_get_free, threads.c:122; thread_clean, threads.c:97-105).        *)
SlotHeld ==
  \A t \in Live :
    /\ \E s \in Slot : Owns(s, t) /\ active[s] # "UNUSED"
    /\ \A r, s \in Slot : Owns(r, t) /\ Owns(s, t) => r = s

(* At most max_threads threads exist at once, those still closing their     *)
(* Lua state included: -t bounds the memory the server takes.               *)
PoolBound == Cardinality(Live) <= N

(* WILL_DIE says "I'll die soon, you can wait for me" (threads.h): a slot   *)
(* is WILL_DIE exactly when the thread that owns it has announced itself,   *)
(* whatever the scans of the other dying threads and the accept loop do to  *)
(* the register meanwhile.                                                  *)
AnnouncedExactly ==
  Running =>
  \A s \in Slot :
    (active[s] = "WILL_DIE") <=> \E t \in ThreadId : Owns(s, t) /\ thr[t] \in {"dying", "exited"}

(* The accept loop: what it joins because of a mark a dying thread wrote is  *)
(* never NULL, and thread_notborn(NULL), called when no slot is unused,     *)
(* finds no slot to free (threads.c:97, 151).  It is said of the accept     *)
(* loop only: the scan of a dying thread may read through NULL, DieFaults.  *)
NoNullHandle == mpc # "crashed"

(* One client at most waits: whatever the sessions do, the accept loop gets *)
(* back to sock_listen, though it joins threads on its way, unless the       *)
(* process ends: pthread_create fails, or there is a read through NULL.      *)
AcceptLoopReturns == (mpc = "clean") ~> (mpc \in {"listen", "aborted"} \/ Faulted)

(* thread_clean gives back every slot whose thread had announced itself     *)
(* before the scan passed it, so a slot leaks for no longer than it takes   *)
(* the next client to connect, as long as the process lives.                *)
CleanReclaims ==
  \A s \in Slot :
    (mpc = "clean" /\ mi <= s /\ active[s] = "WILL_DIE") ~> (active[s] = "UNUSED" \/ Faulted)
=============================================================================
