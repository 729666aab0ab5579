-------------------------- MODULE ThreadPool_proofs --------------------------
(***************************************************************************)
(* What holds of the threads of the daemon and of the filters they start.  *)
(*                                                                         *)
(* Of the pool, for every max_threads and every set of thread identifiers: *)
(* PoolInv is the inductive invariant behind SlotHeld and PoolBound, on    *)
(* any heap; AnnounceInv adds what AnnouncedExactly and NoNullHandle need, *)
(* on a heap whose freed memory shows no identifier.  NoNullHandle is about *)
(* the accept loop; a dying thread may read through NULL (DieFaults).       *)
(*                                                                         *)
(* Of a filter that ends by itself, and of what io_dpopen leaves open, for *)
(* any number of sessions, messages of any length and pipes of any size:   *)
(* whatever ends of its pipes the filters of other sessions have           *)
(* inherited, a filter has its own two until it ends, and nothing of the   *)
(* message is lost between two counters (PipeInv).                         *)
(***************************************************************************)
EXTENDS ThreadPool, DPipe, FiniteSetTheorems, TLAPS

(* The pool *)

(* The accept loop works on a slot, and leaves it marked                    *)
LoopAtSlot ==
  /\ mpc \in {"use", "create", "aborted"} => mi \in Slot
  /\ mpc = "create" => active[mi] # "UNUSED"

(* A scan that is past its check is at a slot                               *)
ScanAtSlot == \A t \in ThreadId : thr[t] \in {"compare", "mark"} => di[t] \in Slot

(* A slot that shows a thread is that thread's                              *)
SlotIsOwned ==
  \A s \in Slot :
    ~Unborn(s) =>
      /\ pth[s] \in ThreadId \cup {Null}
      /\ pth[s] \in ThreadId => thr[pth[s]] # "none" /\ active[s] # "UNUSED"

OneSlotEach ==
  \A r, s \in Slot : ~Unborn(r) /\ ~Unborn(s) /\ pth[r] = pth[s] /\ pth[r] \in ThreadId => r = s

OwnsSome == \A t \in ThreadId : thr[t] # "none" => \E s \in Slot : Owns(s, t)

PoolInv == TypeOK /\ LoopAtSlot /\ ScanAtSlot /\ SlotIsOwned /\ OneSlotEach /\ OwnsSome

(* A slot is unused exactly when its handle is NULL, but for the one the    *)
(* accept loop is taking, whose handle shows nothing                        *)
HandleShows ==
  \A s \in Slot :
    IF Unborn(s) THEN pth[s] = Junk /\ (active[s] = "USED" <=> mpc # "use")
                                    /\ active[s] # "WILL_DIE"
                 ELSE pth[s] = Null <=> active[s] = "UNUSED"

(* A scanning thread has not passed its own slot, and marks no other        *)
ScanBeforeOwn ==
  \A t \in ThreadId, s \in Slot :
    Owns(s, t) =>
      /\ thr[t] \in {"serving", "check", "compare", "mark"} => di[t] <= s
      /\ thr[t] = "mark" => di[t] = s
      /\ active[s] = "WILL_DIE" <=> thr[t] \in {"dying", "exited"}

AnnounceInv == PoolInv /\ freed = {} /\ HandleShows /\ ScanBeforeOwn /\ NoNullHandle

-----------------------------------------------------------------------------
(* PoolInv *)

LEMMA PoolInvInit == Init => PoolInv
<1> SUFFICES ASSUME Init PROVE PoolInv
  OBVIOUS
<1> USE PoolSize, HandleValues DEF Init, Slot
<1>1. TypeOK
  <2>1. connected \in BOOLEAN
    BY Zenon
  <2> QED BY <2>1 DEF TypeOK, ActiveValue, MainPc, ThreadPc
<1>2. LoopAtSlot /\ ScanAtSlot
  BY DEF LoopAtSlot, ScanAtSlot
<1>3. SlotIsOwned /\ OneSlotEach /\ OwnsSome
  BY DEF SlotIsOwned, OneSlotEach, OwnsSome
<1> QED
  BY <1>1, <1>2, <1>3 DEF PoolInv

LEMMA PoolInvNext == PoolInv /\ [Next]_vars => PoolInv'
<1> SUFFICES ASSUME PoolInv, [Next]_vars PROVE PoolInv'
  OBVIOUS
<1> USE PoolSize, HandleValues DEF Slot
<1>1. TypeOK /\ LoopAtSlot /\ ScanAtSlot /\ SlotIsOwned /\ OneSlotEach /\ OwnsSome
  BY DEF PoolInv
<1>2. CASE Accept
  BY <1>1, <1>2 DEF PoolInv, Accept, worker, TypeOK, MainPc, LoopAtSlot, ScanAtSlot,
     SlotIsOwned, OneSlotEach, OwnsSome, Owns, Unborn
<1>3. CASE CleanSkip
  BY <1>1, <1>3 DEF PoolInv, CleanSkip, worker, TypeOK, MainPc, LoopAtSlot, ScanAtSlot,
     SlotIsOwned, OneSlotEach, OwnsSome, Owns, Unborn
<1>4. CASE CleanJoin
  <2>1. CASE pth[mi] = Null
    BY <1>1, <1>4, <2>1 DEF PoolInv, CleanJoin, TypeOK, MainPc, LoopAtSlot, ScanAtSlot,
       SlotIsOwned, OneSlotEach, OwnsSome, Owns, Unborn
  <2>2. CASE pth[mi] # Null
    <3>1. /\ mpc = "clean" /\ mpc' = "clean" /\ mi \in Slot /\ mi' = mi + 1
          /\ pth' = [pth EXCEPT ![mi] = Null]
          /\ active' = [active EXCEPT ![mi] = "UNUSED"]
          /\ thr' = [thr EXCEPT ![pth[mi]] = "none"]
          /\ freed' \subseteq freed \cup {pth[mi]}
          /\ connected' = connected /\ di' = di
      BY <1>4, <2>2 DEF CleanJoin
    <3>2. pth[mi] \in ThreadId
      BY <1>1, <2>2, <3>1 DEF SlotIsOwned, Unborn
    <3>3. \A s \in Slot : s # mi => pth[s] # pth[mi]
      BY <1>1, <3>1, <3>2 DEF OneSlotEach, Unborn
    <3>4. TypeOK'
      BY <1>1, <3>1, <3>2 DEF TypeOK, ActiveValue, MainPc, ThreadPc
    <3>5. LoopAtSlot' /\ ScanAtSlot'
      BY <1>1, <3>1, <3>2 DEF LoopAtSlot, ScanAtSlot, TypeOK
    <3>6. SlotIsOwned'
      BY <1>1, <3>1, <3>2, <3>3 DEF SlotIsOwned, Unborn, TypeOK
    <3>7. OneSlotEach'
      BY <1>1, <3>1, <3>2 DEF OneSlotEach, Unborn, TypeOK
    <3>8. OwnsSome'
      BY <1>1, <3>1, <3>2 DEF OwnsSome, Owns, Unborn, TypeOK
    <3> QED
      BY <3>4, <3>5, <3>6, <3>7, <3>8 DEF PoolInv
  <2> QED
    BY <2>1, <2>2
<1>5. CASE GetFree
  <2>1. PICK s \in Slot, h \in freed \cup {Junk} :
          /\ active[s] = "UNUSED"
          /\ mi' = s
          /\ pth' = [pth EXCEPT ![s] = h]
          /\ freed' = freed \ {h}
    BY <1>5 DEF GetFree
  <2>2. /\ mpc = "get" /\ mpc' = "use"
        /\ active' = active /\ thr' = thr /\ di' = di /\ connected' = connected
    BY <1>5 DEF GetFree, worker
  <2>3. pth[s] \notin ThreadId
    BY <1>1, <2>1, <2>2 DEF SlotIsOwned, Unborn
  <2>4. TypeOK'
    BY <1>1, <2>1, <2>2 DEF TypeOK, MainPc
  <2>5. LoopAtSlot' /\ ScanAtSlot'
    BY <1>1, <2>1, <2>2 DEF LoopAtSlot, ScanAtSlot
  <2>6. SlotIsOwned' /\ OneSlotEach'
    BY <1>1, <2>1, <2>2 DEF SlotIsOwned, OneSlotEach, Unborn, TypeOK
  <2>7. OwnsSome'
    BY <1>1, <2>1, <2>2, <2>3 DEF OwnsSome, Owns, Unborn, TypeOK
  <2> QED
    BY <2>4, <2>5, <2>6, <2>7 DEF PoolInv
<1>6. CASE SetUsed
  BY <1>1, <1>6 DEF PoolInv, SetUsed, worker, TypeOK, MainPc, ActiveValue, LoopAtSlot,
     ScanAtSlot, SlotIsOwned, OneSlotEach, OwnsSome, Owns, Unborn
<1>7. CASE Refuse
  BY <1>1, <1>7 DEF PoolInv, Refuse, worker, TypeOK, MainPc, LoopAtSlot, ScanAtSlot,
     SlotIsOwned, OneSlotEach, OwnsSome, Owns, Unborn
<1>8. CASE CreateFails
  BY <1>1, <1>8 DEF PoolInv, CreateFails, worker, TypeOK, MainPc, LoopAtSlot, ScanAtSlot,
     SlotIsOwned, OneSlotEach, OwnsSome, Owns, Unborn
<1>9. ASSUME NEW t \in ThreadId, Create(t) PROVE PoolInv'
  <2>1. /\ mpc = "create" /\ mpc' = "listen" /\ mi \in Slot /\ mi' = mi
        /\ thr[t] = "none"
        /\ pth' = [pth EXCEPT ![mi] = t]
        /\ thr' = [thr EXCEPT ![t] = IF connected THEN "serving" ELSE "faulted"]
        /\ di' = [di EXCEPT ![t] = 1]
        /\ active' = active /\ freed' = freed /\ connected' = connected
    BY <1>1, <1>9 DEF Create, LoopAtSlot
  <2>2. \A s \in Slot : s # mi => pth[s] # t
    BY <1>1, <2>1 DEF SlotIsOwned, Unborn
  <2>3. TypeOK'
    BY <1>1, <2>1 DEF TypeOK, MainPc, ThreadPc
  <2>4. LoopAtSlot' /\ ScanAtSlot'
    BY <1>1, <2>1 DEF LoopAtSlot, ScanAtSlot, TypeOK
  <2>5. SlotIsOwned'
    BY <1>1, <2>1 DEF SlotIsOwned, LoopAtSlot, Unborn, TypeOK
  <2>6. OneSlotEach'
    BY <1>1, <2>1, <2>2 DEF OneSlotEach, Unborn, TypeOK
  <2>7. OwnsSome'
    BY <1>1, <2>1 DEF OwnsSome, Owns, Unborn, TypeOK
  <2> QED
    BY <2>3, <2>4, <2>5, <2>6, <2>7 DEF PoolInv
<1>10. ASSUME NEW t \in ThreadId, SessionOver(t) \/ DieCheck(t) \/ DieCompare(t) \/ DieFaults(t) \/ Exit(t)
       PROVE  PoolInv'
  <2>1. /\ UNCHANGED <<pth, active, mpc, mi, connected, freed>>
        /\ thr[t] # "none"
        /\ thr' \in [ThreadId -> ThreadPc]
        /\ di' \in [ThreadId -> 1 .. N + 1]
        /\ thr'[t] # "none"
        /\ thr'[t] \in {"compare", "mark"} => di'[t] \in Slot
        /\ \A u \in ThreadId : u # t => thr'[u] = thr[u] /\ di'[u] = di[u]
    <3> USE <1>1 DEF main, TypeOK, ThreadPc
    <3>1. CASE SessionOver(t)
      BY <3>1 DEF SessionOver
    <3>2. CASE DieCheck(t)
      <4>1. CASE di[t] \in Slot /\ pth[di[t]] = Null
        BY <3>2, <4>1 DEF DieCheck
      <4>2. CASE ~(di[t] \in Slot /\ pth[di[t]] = Null)
        BY <3>2, <4>2 DEF DieCheck
      <4> QED
        BY <4>1, <4>2
    <3>3. CASE DieCompare(t)
      <4>1. di[t] \in Slot
        BY <3>3 DEF DieCompare, ScanAtSlot
      <4>2. CASE pth[di[t]] = t
        BY <3>3, <4>1, <4>2 DEF DieCompare
      <4>3. CASE pth[di[t]] # t
        <5>1. /\ UNCHANGED <<pth, active, mpc, mi, connected, freed>>
              /\ thr[t] = "compare"
              /\ thr' = [thr EXCEPT ![t] = "check"]
              /\ di' = [di EXCEPT ![t] = di[t] + 1]
          BY <3>3, <4>3 DEF DieCompare
        <5>2. di[t] + 1 \in 1 .. N + 1
          BY <4>1
        <5> QED
          BY <5>1, <5>2
      <4> QED
        BY <4>2, <4>3
    <3>4. CASE DieFaults(t)
      BY <3>4 DEF DieFaults
    <3>5. CASE Exit(t)
      BY <3>5 DEF Exit
    <3> QED
      BY <1>10, <3>1, <3>2, <3>3, <3>4, <3>5
  <2>2. TypeOK' /\ LoopAtSlot' /\ ScanAtSlot'
    BY <1>1, <2>1 DEF TypeOK, LoopAtSlot, ScanAtSlot
  <2>3. SlotIsOwned' /\ OneSlotEach' /\ OwnsSome'
    BY <1>1, <2>1 DEF SlotIsOwned, OneSlotEach, OwnsSome, Owns, Unborn
  <2> QED
    BY <2>2, <2>3 DEF PoolInv
<1>11. ASSUME NEW t \in ThreadId, DieMark(t) PROVE PoolInv'
  <2>1. /\ UNCHANGED <<pth, mpc, mi, connected, di, freed>>
        /\ thr[t] = "mark" /\ di[t] \in Slot
        /\ active' = [active EXCEPT ![di[t]] = "WILL_DIE"]
        /\ thr' = [thr EXCEPT ![t] = "dying"]
    BY <1>1, <1>11 DEF DieMark, main, ScanAtSlot
  <2>2. TypeOK' /\ LoopAtSlot' /\ ScanAtSlot'
    BY <1>1, <2>1 DEF TypeOK, LoopAtSlot, ScanAtSlot, ThreadPc, ActiveValue
  <2>3. SlotIsOwned' /\ OneSlotEach' /\ OwnsSome'
    BY <1>1, <2>1 DEF SlotIsOwned, OneSlotEach, OwnsSome, Owns, Unborn, TypeOK
  <2> QED
    BY <2>2, <2>3 DEF PoolInv
<1>12. CASE UNCHANGED vars
  BY <1>1, <1>12 DEF vars, PoolInv, TypeOK, LoopAtSlot, ScanAtSlot, SlotIsOwned, OneSlotEach,
     OwnsSome, Owns, Unborn
<1> QED
  BY <1>2, <1>3, <1>4, <1>5, <1>6, <1>7, <1>8, <1>9, <1>10, <1>11, <1>12 DEF Next, Main, Die

THEOREM PoolInvariant == Spec => []PoolInv
<1> QED
  BY PoolInvInit, PoolInvNext, PTL DEF Spec

(* The type invariant of the pool (threads.c, thread_register).             *)
THEOREM TypeCorrect == Spec => []TypeOK
<1>1. PoolInv => TypeOK
  BY DEF PoolInv
<1> QED
  BY <1>1, PoolInvariant, PTL

(* No slot is ever reused under its thread: every thread that has not been  *)
(* joined owns exactly one slot of thread_register (thread_get_free,        *)
(* thread_clean), whatever freed memory shows to the scans.                 *)
THEOREM SlotsAreHeld == Spec => []SlotHeld
<1>1. PoolInv => SlotHeld
  BY DEF PoolInv, SlotHeld, SlotIsOwned, OneSlotEach, OwnsSome, Owns, Live
<1> QED
  BY <1>1, PoolInvariant, PTL

(* Never more than max_threads threads (popserver_start, thread_get_free):  *)
(* each owns a slot of its own.                                             *)
THEOREM PoolIsBounded == Spec => []PoolBound
<1>1. ASSUME PoolInv PROVE PoolBound
  <2> DEFINE own == [t \in Live |-> CHOOSE s \in Slot : Owns(s, t)]
  <2>1. \A t \in Live : own[t] \in Slot /\ Owns(own[t], t)
    BY <1>1 DEF PoolInv, OwnsSome, Live
  <2>2. own \in Injection(Live, Slot)
    BY <2>1 DEF Injection, IsInjective, Owns
  <2>3. IsFiniteSet(Slot) /\ Cardinality(Slot) = N
    BY PoolSize, FS_Interval DEF Slot
  <2> QED
    BY <2>2, <2>3, FS_Injection DEF PoolBound
<1> QED
  BY <1>1, PoolInvariant, PTL

-----------------------------------------------------------------------------
(* AnnounceInv *)

LEMMA AnnounceInvInit == Init => AnnounceInv
<1> SUFFICES ASSUME Init PROVE AnnounceInv
  OBVIOUS
<1>1. freed = {} /\ NoNullHandle
  BY DEF Init, NoNullHandle
<1>2. HandleShows
  BY DEF Init, HandleShows, Unborn
<1>3. ScanBeforeOwn
  BY HandleValues DEF Init, ScanBeforeOwn, Owns
<1> QED
  BY PoolInvInit, <1>1, <1>2, <1>3 DEF AnnounceInv

LEMMA AnnounceInvNext ==
  ASSUME ~HeapKeepsData
  PROVE  AnnounceInv /\ [Next]_vars => AnnounceInv'
<1> SUFFICES ASSUME AnnounceInv, [Next]_vars PROVE AnnounceInv'
  OBVIOUS
<1> USE PoolSize, HandleValues DEF Slot
<1>1. /\ TypeOK /\ LoopAtSlot /\ ScanAtSlot /\ SlotIsOwned /\ OneSlotEach /\ OwnsSome
      /\ freed = {} /\ HandleShows /\ ScanBeforeOwn /\ NoNullHandle
  BY DEF AnnounceInv, PoolInv
<1>2. PoolInv'
  BY PoolInvNext DEF AnnounceInv
<1> SUFFICES freed' = {} /\ HandleShows' /\ ScanBeforeOwn' /\ NoNullHandle'
  BY <1>2 DEF AnnounceInv
<1>3. CASE Accept
  BY <1>1, <1>3 DEF Accept, worker, HandleShows, ScanBeforeOwn, NoNullHandle, Owns, Unborn
<1>4. CASE CleanSkip
  BY <1>1, <1>4 DEF CleanSkip, worker, HandleShows, ScanBeforeOwn, NoNullHandle, Owns, Unborn
<1>5. CASE CleanJoin
  <2>1. pth[mi] # Null
    BY <1>1, <1>5 DEF CleanJoin, HandleShows, Unborn
  <2>2. /\ mpc = "clean" /\ mpc' = "clean" /\ mi \in Slot /\ mi' = mi + 1
        /\ pth' = [pth EXCEPT ![mi] = Null]
        /\ active' = [active EXCEPT ![mi] = "UNUSED"]
        /\ thr' = [thr EXCEPT ![pth[mi]] = "none"]
        /\ freed' = freed
        /\ di' = di
    BY <1>5, <2>1 DEF CleanJoin
  <2>3. pth[mi] \in ThreadId
    BY <1>1, <2>1, <2>2 DEF SlotIsOwned, Unborn
  <2>4. \A s \in Slot : s # mi => pth[s] # pth[mi]
    BY <1>1, <2>2, <2>3 DEF OneSlotEach, Unborn
  <2>5. freed' = {} /\ HandleShows' /\ NoNullHandle'
    BY <1>1, <2>2 DEF HandleShows, NoNullHandle, Unborn, TypeOK
  <2>6. ScanBeforeOwn'
    BY <1>1, <2>2, <2>4 DEF ScanBeforeOwn, Owns, Unborn, TypeOK
  <2> QED
    BY <2>5, <2>6
<1>6. CASE GetFree
  <2>1. PICK s \in Slot :
          /\ active[s] = "UNUSED"
          /\ mi' = s
          /\ pth' = [pth EXCEPT ![s] = Junk]
          /\ freed' = {}
    BY <1>1, <1>6 DEF GetFree
  <2>2. /\ mpc = "get" /\ mpc' = "use"
        /\ active' = active /\ thr' = thr /\ di' = di
    BY <1>6 DEF GetFree, worker
  <2>3. HandleShows' /\ NoNullHandle'
    BY <1>1, <2>1, <2>2 DEF HandleShows, NoNullHandle, Unborn, TypeOK
  <2>4. ScanBeforeOwn'
    BY <1>1, <2>1, <2>2 DEF ScanBeforeOwn, Owns, Unborn, TypeOK
  <2> QED
    BY <2>1, <2>3, <2>4
<1>7. CASE SetUsed
  <2>1. /\ mpc = "use" /\ mpc' = "create" /\ mi \in Slot /\ mi' = mi
        /\ active' = [active EXCEPT ![mi] = "USED"]
        /\ pth' = pth /\ thr' = thr /\ di' = di /\ freed' = freed
    BY <1>1, <1>7 DEF SetUsed, worker, LoopAtSlot
  <2>2. freed' = {} /\ HandleShows' /\ NoNullHandle'
    BY <1>1, <2>1 DEF HandleShows, NoNullHandle, Unborn, TypeOK
  <2>3. ScanBeforeOwn'
    BY <1>1, <2>1 DEF ScanBeforeOwn, Owns, Unborn, TypeOK
  <2> QED
    BY <2>2, <2>3
<1>8. CASE Refuse
  <2>1. mpc' \in {"listen", "faulted"}
    BY <1>1, <1>8 DEF Refuse, HandleShows, Unborn
  <2> QED
    BY <1>1, <1>8, <2>1 DEF Refuse, worker, HandleShows, ScanBeforeOwn, NoNullHandle, Owns, Unborn
<1>9. CASE CreateFails
  BY <1>1, <1>9 DEF CreateFails, worker, HandleShows, ScanBeforeOwn, NoNullHandle, Owns, Unborn
<1>10. ASSUME NEW t \in ThreadId, Create(t)
       PROVE  freed' = {} /\ HandleShows' /\ ScanBeforeOwn' /\ NoNullHandle'
  <2>1. /\ mpc = "create" /\ mpc' = "listen" /\ mi \in Slot /\ mi' = mi
        /\ thr[t] = "none"
        /\ pth' = [pth EXCEPT ![mi] = t]
        /\ thr' = [thr EXCEPT ![t] = IF connected THEN "serving" ELSE "faulted"]
        /\ di' = [di EXCEPT ![t] = 1]
        /\ active' = active /\ freed' = freed
    BY <1>1, <1>10 DEF Create, LoopAtSlot
  <2>2. active[mi] = "USED"
    BY <1>1, <2>1 DEF HandleShows, Unborn
  <2>3. \A s \in Slot : s # mi => pth[s] # t
    BY <1>1, <2>1 DEF SlotIsOwned, Unborn
  <2>4. freed' = {} /\ HandleShows' /\ NoNullHandle'
    BY <1>1, <2>1, <2>2 DEF HandleShows, NoNullHandle, Unborn, TypeOK
  <2>5. ScanBeforeOwn'
    BY <1>1, <2>1, <2>2, <2>3 DEF ScanBeforeOwn, Owns, Unborn, TypeOK
  <2> QED
    BY <2>4, <2>5
<1>11. ASSUME NEW t \in ThreadId, SessionOver(t) \/ DieCheck(t) \/ DieCompare(t) \/ DieFaults(t) \/ Exit(t)
       PROVE  freed' = {} /\ HandleShows' /\ ScanBeforeOwn' /\ NoNullHandle'
  <2>1. UNCHANGED <<pth, active, mpc, mi, freed>>
    BY <1>11 DEF SessionOver, DieCheck, DieCompare, DieFaults, Exit, main
  <2>2. HandleShows' /\ NoNullHandle'
    BY <1>1, <2>1 DEF HandleShows, NoNullHandle, Unborn
  <2>3. \A u \in ThreadId : u # t => thr'[u] = thr[u] /\ di'[u] = di[u]
    BY <1>1, <1>11 DEF SessionOver, DieCheck, DieCompare, DieFaults, Exit, TypeOK
  <2>4. ASSUME NEW s \in Slot, Owns(s, t)
        PROVE  /\ thr'[t] \in {"serving", "check", "compare", "mark"} => di'[t] <= s
               /\ thr'[t] = "mark" => di'[t] = s
               /\ active[s] = "WILL_DIE" <=> thr'[t] \in {"dying", "exited"}
    <3>1. /\ thr[t] \in {"serving", "check", "compare", "mark"} => di[t] <= s
          /\ thr[t] = "mark" => di[t] = s
          /\ active[s] = "WILL_DIE" <=> thr[t] \in {"dying", "exited"}
      BY <1>1, <2>4 DEF ScanBeforeOwn
    <3>2. pth[s] = t /\ thr \in [ThreadId -> ThreadPc] /\ di \in [ThreadId -> 1 .. N + 1]
      BY <1>1, <2>4 DEF Owns, TypeOK
    <3>3. CASE SessionOver(t)
      <4>1. thr[t] = "serving" /\ thr'[t] = "check" /\ di' = di
        BY <3>2, <3>3 DEF SessionOver
      <4> QED
        BY <3>1, <4>1
    <3>4. CASE DieCheck(t)
      <4>1. thr[t] = "check"
        BY <3>4 DEF DieCheck
      <4>2. di[t] \in Slot
        BY <3>1, <3>2, <4>1
      <4>3. CASE pth[di[t]] = Null
        <5>1. di' = [di EXCEPT ![t] = di[t] + 1] /\ thr' = thr
          BY <3>4, <4>2, <4>3 DEF DieCheck
        <5>2. di[t] # s
          BY <3>2, <4>3
        <5> QED
          BY <3>1, <3>2, <4>1, <4>2, <5>1, <5>2
      <4>4. CASE pth[di[t]] # Null
        <5>1. di' = di /\ thr' = [thr EXCEPT ![t] = "compare"]
          BY <3>4, <4>2, <4>4 DEF DieCheck
        <5> QED
          BY <3>1, <3>2, <4>1, <4>2, <5>1
      <4> QED
        BY <4>3, <4>4
    <3>5. CASE DieCompare(t)
      <4>1. thr[t] = "compare" /\ di[t] \in Slot
        BY <1>1, <3>5 DEF DieCompare, ScanAtSlot
      <4>2. CASE pth[di[t]] = t
        <5>1. di' = di /\ thr' = [thr EXCEPT ![t] = "mark"]
          BY <3>5, <4>2 DEF DieCompare
        <5>2. ~Unborn(di[t])
          BY <1>1, <4>1, <4>2 DEF HandleShows
        <5>3. di[t] = s
          BY <1>1, <2>4, <4>1, <4>2, <5>2 DEF OneSlotEach, Owns
        <5> QED
          BY <3>1, <3>2, <4>1, <5>1, <5>3
      <4>3. CASE pth[di[t]] # t
        <5>1. di' = [di EXCEPT ![t] = di[t] + 1] /\ thr' = [thr EXCEPT ![t] = "check"]
          BY <3>5, <4>3 DEF DieCompare
        <5>2. di[t] # s
          BY <3>2, <4>3
        <5> QED
          BY <3>1, <3>2, <4>1, <5>1, <5>2
      <4> QED
        BY <4>2, <4>3
    <3>6. CASE DieFaults(t)
      <4>1. thr[t] = "compare" /\ thr'[t] = "faulted" /\ di' = di
        BY <3>2, <3>6 DEF DieFaults
      <4> QED
        BY <3>1, <4>1
    <3>7. CASE Exit(t)
      BY <3>1, <3>2, <3>7 DEF Exit
    <3> QED
      BY <1>11, <3>3, <3>4, <3>5, <3>6, <3>7
  <2> QED
    BY <1>1, <2>1, <2>2, <2>3, <2>4 DEF ScanBeforeOwn, Owns, Unborn
<1>12. ASSUME NEW t \in ThreadId, DieMark(t)
       PROVE  freed' = {} /\ HandleShows' /\ ScanBeforeOwn' /\ NoNullHandle'
  <2>1. /\ UNCHANGED <<pth, mpc, mi, connected, di, freed>>
        /\ thr[t] = "mark" /\ di[t] \in Slot
        /\ active' = [active EXCEPT ![di[t]] = "WILL_DIE"]
        /\ thr' = [thr EXCEPT ![t] = "dying"]
    BY <1>1, <1>12 DEF DieMark, main, ScanAtSlot
  <2>2. PICK s \in Slot : Owns(s, t)
    BY <1>1, <2>1 DEF OwnsSome
  <2>3. di[t] = s /\ pth[s] = t /\ ~Unborn(s)
    BY <1>1, <2>1, <2>2 DEF ScanBeforeOwn, Owns
  <2>4. freed' = {} /\ HandleShows' /\ NoNullHandle'
    BY <1>1, <2>1, <2>3 DEF HandleShows, NoNullHandle, Unborn, TypeOK
  <2>5. ScanBeforeOwn'
    BY <1>1, <2>1, <2>3 DEF ScanBeforeOwn, OneSlotEach, Owns, Unborn, TypeOK
  <2> QED
    BY <2>4, <2>5
<1>13. CASE UNCHANGED vars
  BY <1>1, <1>13 DEF vars, HandleShows, ScanBeforeOwn, NoNullHandle, Owns, Unborn
<1> QED
  BY <1>3, <1>4, <1>5, <1>6, <1>7, <1>8, <1>9, <1>10, <1>11, <1>12, <1>13 DEF Next, Main, Die

THEOREM AnnounceInvariant ==
  ASSUME ~HeapKeepsData
  PROVE  Spec => []AnnounceInv
<1> QED
  BY AnnounceInvInit, AnnounceInvNext, PTL DEF Spec

(* On a heap whose freed memory shows no identifier, a slot is WILL_DIE     *)
(* exactly when its own thread has announced itself (thread_die): no scan   *)
(* marks another thread's slot, none misses its own.                        *)
THEOREM AnnouncementsAreExact ==
  ASSUME ~HeapKeepsData
  PROVE  Spec => []AnnouncedExactly
<1>1. ASSUME AnnounceInv PROVE AnnouncedExactly
  <2>1. TypeOK /\ LoopAtSlot /\ SlotIsOwned /\ HandleShows /\ ScanBeforeOwn
    BY <1>1 DEF AnnounceInv, PoolInv
  <2>2. ASSUME NEW s \in Slot, active[s] = "WILL_DIE"
        PROVE  \E t \in ThreadId : Owns(s, t) /\ thr[t] \in {"dying", "exited"}
    <3>1. ~Unborn(s) /\ pth[s] # Null
      BY <2>1, <2>2 DEF HandleShows
    <3>2. pth[s] \in ThreadId /\ Owns(s, pth[s])
      BY <2>1, <3>1 DEF SlotIsOwned, Owns
    <3> QED
      BY <2>1, <2>2, <3>2 DEF ScanBeforeOwn
  <2>3. ASSUME NEW s \in Slot, NEW t \in ThreadId, Owns(s, t), thr[t] \in {"dying", "exited"}
        PROVE  active[s] = "WILL_DIE"
    BY <2>1, <2>3 DEF ScanBeforeOwn
  <2> QED
    BY <2>2, <2>3 DEF AnnouncedExactly
<1> QED
  BY <1>1, AnnounceInvariant, PTL

(* On such a heap the accept loop uses no NULL handle: neither pthread_join *)
(* (thread_clean) nor free (thread_notborn, called with NULL) goes through  *)
(* one.  Of what thread_die reads it says nothing.                          *)
THEOREM HandlesAreNotNull ==
  ASSUME ~HeapKeepsData
  PROVE  Spec => []NoNullHandle
<1>1. AnnounceInv => NoNullHandle
  BY DEF AnnounceInv
<1> QED
  BY <1>1, AnnounceInvariant, PTL

-----------------------------------------------------------------------------
(* The filters *)

EndName == {"outR", "outW", "inR", "inW"}

(* The ends of its pipes that the daemon has open for a call, by where the  *)
(* call is                                                                 *)
Ends(place) ==
  {e \in EndName :
     \/ place \in {"in", "forked", "error"}
     \/ place = "out" /\ e \in {"outR", "outW"}
     \/ place = "write" /\ e \in {"outW", "inR"}
     \/ place = "read" /\ e = "inR"}

DaemonHas ==
  \A t \in Thread, e \in EndName :
    /\ E(t, e) \in fd => e \in Ends(pc[t])
    /\ pc[t] # "error" /\ e \in Ends(pc[t]) => E(t, e) \in fd

(* A filter at work has the end it reads from and the end it writes to     *)
FilterHas == \A t \in Thread : filter[t] = "run" => {E(t, "outR"), E(t, "inW")} \subseteq held[t]

(* Has the filter been started, or its start failed unnoticed?             *)
Began(t) == pc[t] \notin {"idle", "out", "in", "error"}

(* What has left one counter is in the next one while nobody dies; a filter *)
(* sees the end of its input when all has been written; the session reads  *)
(* to the end when the filter has closed its output                        *)
KeptAt(t) ==
  /\ filter[t] # "none" => Began(t)
  /\ ~Began(t) => left[t] = Size /\ out[t] = 0 /\ buf[t] = 0 /\ in[t] = 0 /\ got[t] = 0 /\ ~eof[t]
  /\ filter[t] \in {"run", "done"} => left[t] + out[t] + buf[t] + in[t] + got[t] = Size
  /\ pc[t] \in {"read", "ok"} => left[t] = 0
  /\ eof[t] => pc[t] \in {"read", "ok"} /\ out[t] = 0
  /\ filter[t] = "done" => eof[t] /\ buf[t] = 0
  /\ pc[t] = "ok" => filter[t] # "run" /\ in[t] = 0

Kept == \A t \in Thread : KeptAt(t)

PipeInv == PipeTypeOK /\ DaemonHas /\ FilterHas /\ Kept

LEMMA PipeInvInit == PipeInit => PipeInv
<1> SUFFICES ASSUME PipeInit PROVE PipeInv OBVIOUS
<1> USE Sizes
<1>1. PipeTypeOK BY DEF PipeInit, PipeTypeOK, Place, End
<1>2. DaemonHas BY DEF PipeInit, DaemonHas, Ends, EndName
<1>3. FilterHas BY DEF PipeInit, FilterHas
<1>4. Kept BY DEF PipeInit, Kept, KeptAt, Began
<1> QED BY <1>1, <1>2, <1>3, <1>4 DEF PipeInv

(* Ends of different pipes are different                                   *)
LEMMA EndsDiffer ==
  ASSUME NEW t, NEW u, NEW e, NEW f
  PROVE  E(t, e) = E(u, f) <=> t = u /\ e = f
BY DEF E

(* One step per action; per action one for each part of the invariant       *)
LEMMA PipeInvStep ==
  ASSUME PipeInv, NEW t \in Thread, PipeOut(t) \/ Daemon(t) \/ Filter(t) \/ FilterDies(t)
  PROVE  PipeInv'
<1> USE Sizes DEF PipeInv
<1>1. CASE PipeOut(t)
  <2>1. PipeTypeOK' BY <1>1 DEF PipeOut, Goto, PipeTypeOK, Place, End, E, child
  <2>2. DaemonHas' BY <1>1, EndsDiffer DEF PipeOut, Goto, PipeTypeOK, DaemonHas, Ends, EndName
  <2>3. FilterHas' BY <1>1 DEF PipeOut, FilterHas, child
  <2>4. Kept' BY <1>1 DEF PipeOut, Goto, PipeTypeOK, Kept, KeptAt, Began, child
  <2> QED BY <2>1, <2>2, <2>3, <2>4
<1>2. CASE PipeIn(t)
  <2>1. PipeTypeOK' BY <1>2 DEF PipeIn, Goto, PipeTypeOK, Place, End, E, child
  <2>2. DaemonHas' BY <1>2, EndsDiffer DEF PipeIn, Goto, PipeTypeOK, DaemonHas, Ends, EndName
  <2>3. FilterHas' BY <1>2 DEF PipeIn, FilterHas, child
  <2>4. Kept' BY <1>2 DEF PipeIn, Goto, PipeTypeOK, Kept, KeptAt, Began, child
  <2> QED BY <2>1, <2>2, <2>3, <2>4
<1>3. CASE Fails(t)
  <2>1. PipeTypeOK' BY <1>3 DEF Fails, Goto, PipeTypeOK, Place, child
  <2>2. DaemonHas' BY <1>3 DEF Fails, Goto, PipeTypeOK, DaemonHas, Ends, EndName
  <2>3. FilterHas' BY <1>3 DEF Fails, FilterHas, child
  <2>4. Kept' BY <1>3 DEF Fails, Goto, PipeTypeOK, Kept, KeptAt, Began, child
  <2> QED BY <2>1, <2>2, <2>3, <2>4
<1>4. CASE Fork(t)
  <2>1. PipeTypeOK' BY <1>4 DEF Fork, Goto, PipeTypeOK, Place, Inherited
  <2>2. DaemonHas' BY <1>4 DEF Fork, Goto, PipeTypeOK, DaemonHas, Ends, EndName
  <2>3. FilterHas' 
    <3>1. {E(t, "outR"), E(t, "inW")} \subseteq Inherited(t)
      BY <1>4, EndsDiffer DEF Fork, Goto, DaemonHas, Ends, EndName, Inherited
    <3> QED BY <1>4, <3>1 DEF Fork, FilterHas, PipeTypeOK
  <2>4. Kept' BY <1>4 DEF Fork, Goto, PipeTypeOK, Kept, KeptAt, Began
  <2> QED BY <2>1, <2>2, <2>3, <2>4
<1>5. CASE SonForkFails(t)
  <2>1. PipeTypeOK' BY <1>5 DEF SonForkFails, Goto, PipeTypeOK, Place, Kept, KeptAt, Began
  <2>2. DaemonHas' BY <1>5 DEF SonForkFails, Goto, PipeTypeOK, DaemonHas, Ends, EndName
  <2>3. FilterHas' BY <1>5 DEF SonForkFails, FilterHas, PipeTypeOK
  <2>4. Kept' BY <1>5 DEF SonForkFails, Goto, PipeTypeOK, Kept, KeptAt, Began
  <2> QED BY <2>1, <2>2, <2>3, <2>4
<1>6. CASE ExecFails(t)
  <2>1. PipeTypeOK' BY <1>6 DEF ExecFails, Goto, PipeTypeOK, Place, Inherited
  <2>2. DaemonHas' BY <1>6 DEF ExecFails, Goto, PipeTypeOK, DaemonHas, Ends, EndName
  <2>3. FilterHas' BY <1>6 DEF ExecFails, FilterHas, PipeTypeOK
  <2>4. Kept' BY <1>6 DEF ExecFails, Goto, PipeTypeOK, Kept, KeptAt, Began
  <2> QED BY <2>1, <2>2, <2>3, <2>4
<1>7. CASE CloseEnds(t)
  <2>1. PipeTypeOK' BY <1>7 DEF CloseEnds, Goto, PipeTypeOK, Place, child
  <2>2. DaemonHas' BY <1>7, EndsDiffer DEF CloseEnds, Goto, PipeTypeOK, DaemonHas, Ends, EndName
  <2>3. FilterHas' BY <1>7 DEF CloseEnds, FilterHas, child
  <2>4. Kept' BY <1>7 DEF CloseEnds, Goto, PipeTypeOK, Kept, KeptAt, Began, child
  <2> QED BY <2>1, <2>2, <2>3, <2>4
<1>8. CASE Write(t)
  <2>1. PipeTypeOK' BY <1>8 DEF Write, PipeTypeOK, child
  <2>2. DaemonHas' BY <1>8 DEF Write, DaemonHas
  <2>3. FilterHas' BY <1>8 DEF Write, FilterHas, child
  <2>4. ASSUME NEW u \in Thread PROVE KeptAt(u)'
    <3>1. CASE u # t
      BY <1>8, <3>1 DEF Write, PipeTypeOK, Kept, KeptAt, Began, child
    <3>2. CASE u = t
      <4>1. left'[t] = left[t] - 1 /\ out'[t] = out[t] + 1
        BY <1>8 DEF Write, PipeTypeOK, child
      <4>2. pc'[t] = pc[t] /\ got'[t] = got[t] /\ filter'[t] = filter[t] /\ buf'[t] = buf[t] /\ eof' = eof /\ in'[t] = in[t]
        BY <1>8 DEF Write, PipeTypeOK, child
      <4>3. KeptAt(t) /\ pc[t] = "write"
        BY <1>8 DEF Write, Kept
      <4>4. left[t] \in Nat /\ out[t] \in Nat /\ buf[t] \in Nat /\ in[t] \in Nat /\ got[t] \in Nat
        BY DEF PipeTypeOK
      <4> QED BY <3>2, <4>1, <4>2, <4>3, <4>4 DEF KeptAt, Began
    <3> QED BY <3>1, <3>2
  <2> QED BY <2>1, <2>2, <2>3, <2>4 DEF Kept
<1>9. CASE WriteFails(t)
  <2>0. filter[t] # "run" BY <1>9 DEF WriteFails, FilterHas, Open
  <2>1. PipeTypeOK' BY <1>9 DEF WriteFails, PipeTypeOK, child
  <2>2. DaemonHas' BY <1>9 DEF WriteFails, DaemonHas
  <2>3. FilterHas' BY <1>9 DEF WriteFails, FilterHas, child
  <2>4. Kept' BY <1>9, <2>0 DEF WriteFails, PipeTypeOK, Kept, KeptAt, Began, child
  <2> QED BY <2>1, <2>2, <2>3, <2>4
<1>10. CASE CloseW(t)
  <2>1. PipeTypeOK' BY <1>10 DEF CloseW, Goto, PipeTypeOK, Place, child
  <2>2. DaemonHas' BY <1>10, EndsDiffer DEF CloseW, Goto, PipeTypeOK, DaemonHas, Ends, EndName
  <2>3. FilterHas' BY <1>10 DEF CloseW, FilterHas, child
  <2>4. Kept' BY <1>10 DEF CloseW, Goto, PipeTypeOK, Kept, KeptAt, Began, child
  <2> QED BY <2>1, <2>2, <2>3, <2>4
<1>11. CASE Read(t)
  <2>1. PipeTypeOK' BY <1>11 DEF Read, PipeTypeOK, child
  <2>2. DaemonHas' BY <1>11 DEF Read, DaemonHas
  <2>3. FilterHas' BY <1>11 DEF Read, FilterHas, child
  <2>4. ASSUME NEW u \in Thread PROVE KeptAt(u)'
    <3>1. CASE u # t
      BY <1>11, <3>1 DEF Read, PipeTypeOK, Kept, KeptAt, Began, child
    <3>2. CASE u = t
      <4>1. in'[t] = in[t] - 1 /\ got'[t] = got[t] + 1
        BY <1>11 DEF Read, PipeTypeOK, child
      <4>2. pc'[t] = pc[t] /\ left'[t] = left[t] /\ filter'[t] = filter[t] /\ buf'[t] = buf[t] /\ eof' = eof /\ out'[t] = out[t]
        BY <1>11 DEF Read, PipeTypeOK, child
      <4>3. KeptAt(t) /\ pc[t] = "read"
        BY <1>11 DEF Read, Kept
      <4>4. left[t] \in Nat /\ out[t] \in Nat /\ buf[t] \in Nat /\ in[t] \in Nat /\ got[t] \in Nat
        BY DEF PipeTypeOK
      <4>5. left'[t] + out'[t] + buf'[t] + in'[t] + got'[t] = left[t] + out[t] + buf[t] + in[t] + got[t]
        <5> DEFINE a == left[t]  b == out[t]  c == buf[t]  d == in[t]  e == got[t]
        <5>1. a \in Nat /\ b \in Nat /\ c \in Nat /\ d \in Nat /\ e \in Nat
          BY <4>4
        <5>2. a + b + c + (d - 1) + (e + 1) = a + b + c + d + e
          BY <5>1
        <5> QED BY <4>1, <4>2, <5>2
      <4> QED BY <3>2, <4>2, <4>3, <4>5 DEF KeptAt, Began
    <3> QED BY <3>1, <3>2
  <2> QED BY <2>1, <2>2, <2>3, <2>4 DEF Kept
<1>12. CASE ReadEnds(t)
  <2>0. filter[t] # "run" BY <1>12 DEF ReadEnds, FilterHas, Open
  <2>1. PipeTypeOK' BY <1>12 DEF ReadEnds, Goto, PipeTypeOK, Place, child
  <2>2. DaemonHas' BY <1>12, EndsDiffer DEF ReadEnds, Goto, PipeTypeOK, DaemonHas, Ends, EndName
  <2>3. FilterHas' BY <1>12 DEF ReadEnds, FilterHas, child
  <2>4. Kept' BY <1>12, <2>0 DEF ReadEnds, Goto, PipeTypeOK, Kept, KeptAt, Began, child
  <2> QED BY <2>1, <2>2, <2>3, <2>4
<1>13. CASE FilterReads(t)
  <2>1. PipeTypeOK' BY <1>13 DEF FilterReads, PipeTypeOK, session
  <2>2. DaemonHas' BY <1>13 DEF FilterReads, DaemonHas, session
  <2>3. FilterHas' BY <1>13 DEF FilterReads, FilterHas
  <2>4. ASSUME NEW u \in Thread PROVE KeptAt(u)'
    <3>1. CASE u # t
      BY <1>13, <3>1 DEF FilterReads, PipeTypeOK, Kept, KeptAt, Began, session
    <3>2. CASE u = t
      <4>1. out'[t] = out[t] - 1 /\ buf'[t] = buf[t] + 1
        BY <1>13 DEF FilterReads, PipeTypeOK, session
      <4>2. pc'[t] = pc[t] /\ left'[t] = left[t] /\ got'[t] = got[t] /\ filter'[t] = filter[t] /\ eof' = eof /\ in'[t] = in[t]
        BY <1>13 DEF FilterReads, PipeTypeOK, session
      <4>3. KeptAt(t) /\ filter[t] = "run" /\ out[t] > 0
        BY <1>13 DEF FilterReads, Kept
      <4>4. left[t] \in Nat /\ out[t] \in Nat /\ buf[t] \in Nat /\ in[t] \in Nat /\ got[t] \in Nat
        BY DEF PipeTypeOK
      <4> QED BY <3>2, <4>1, <4>2, <4>3, <4>4 DEF KeptAt, Began
    <3> QED BY <3>1, <3>2
  <2> QED BY <2>1, <2>2, <2>3, <2>4 DEF Kept
<1>14. CASE FilterEof(t)
  <2>0. pc[t] \in {"read", "ok"}
    BY <1>14 DEF FilterEof, Open, DaemonHas, Ends, EndName, Kept, KeptAt, Began, PipeTypeOK, Place
  <2>1. PipeTypeOK' BY <1>14 DEF FilterEof, PipeTypeOK, session
  <2>2. DaemonHas' BY <1>14 DEF FilterEof, DaemonHas, session
  <2>3. FilterHas' BY <1>14 DEF FilterEof, FilterHas
  <2>4. Kept' BY <1>14, <2>0 DEF FilterEof, PipeTypeOK, Kept, KeptAt, Began, session
  <2> QED BY <2>1, <2>2, <2>3, <2>4
<1>15. CASE FilterWrites(t)
  <2>1. PipeTypeOK' BY <1>15 DEF FilterWrites, PipeTypeOK, session
  <2>2. DaemonHas' BY <1>15 DEF FilterWrites, DaemonHas, session
  <2>3. FilterHas' BY <1>15 DEF FilterWrites, FilterHas
  <2>4. ASSUME NEW u \in Thread PROVE KeptAt(u)'
    <3>1. CASE u # t
      BY <1>15, <3>1 DEF FilterWrites, PipeTypeOK, Kept, KeptAt, Began, session
    <3>2. CASE u = t
      <4>1. buf'[t] = buf[t] - 1 /\ in'[t] = in[t] + 1
        BY <1>15 DEF FilterWrites, PipeTypeOK, session
      <4>2. pc'[t] = pc[t] /\ left'[t] = left[t] /\ got'[t] = got[t] /\ filter'[t] = filter[t] /\ eof' = eof /\ out'[t] = out[t]
        BY <1>15 DEF FilterWrites, PipeTypeOK, session
      <4>3. KeptAt(t) /\ filter[t] = "run"
        BY <1>15 DEF FilterWrites, Kept
      <4>4. left[t] \in Nat /\ out[t] \in Nat /\ buf[t] \in Nat /\ in[t] \in Nat /\ got[t] \in Nat
        BY DEF PipeTypeOK
      <4> QED BY <3>2, <4>1, <4>2, <4>3, <4>4 DEF KeptAt, Began
    <3> QED BY <3>1, <3>2
  <2> QED BY <2>1, <2>2, <2>3, <2>4 DEF Kept
<1>16. CASE FilterEnds(t)
  <2>1. PipeTypeOK' BY <1>16 DEF FilterEnds, PipeTypeOK, session
  <2>2. DaemonHas' BY <1>16 DEF FilterEnds, DaemonHas, session
  <2>3. FilterHas' BY <1>16 DEF FilterEnds, FilterHas, PipeTypeOK
  <2>4. ASSUME NEW u \in Thread PROVE KeptAt(u)'
    <3>1. CASE u # t
      BY <1>16, <3>1 DEF FilterEnds, PipeTypeOK, Kept, KeptAt, Began, session
    <3>2. CASE u = t
      <4>1. filter'[t] = "dead" \/ (filter'[t] = "done" /\ filter[t] = "run" /\ eof[t] /\ buf[t] = 0)
        BY <1>16 DEF FilterEnds, PipeTypeOK, session
      <4>2. pc'[t] = pc[t] /\ left'[t] = left[t] /\ got'[t] = got[t] /\ buf'[t] = buf[t] /\ eof' = eof /\ in'[t] = in[t] /\ out'[t] = out[t]
        BY <1>16 DEF FilterEnds, PipeTypeOK, session
      <4>3. KeptAt(t) /\ filter[t] # "none"
        BY <1>16 DEF FilterEnds, Kept
      <4>4. left[t] \in Nat /\ out[t] \in Nat /\ buf[t] \in Nat /\ in[t] \in Nat /\ got[t] \in Nat
        BY DEF PipeTypeOK
      <4> QED BY <3>2, <4>1, <4>2, <4>3, <4>4 DEF KeptAt, Began
    <3> QED BY <3>1, <3>2
  <2> QED BY <2>1, <2>2, <2>3, <2>4 DEF Kept
<1>17. CASE FilterDies(t)
  <2>1. PipeTypeOK' BY <1>17 DEF FilterDies, PipeTypeOK, session
  <2>2. DaemonHas' BY <1>17 DEF FilterDies, DaemonHas, session
  <2>3. FilterHas' BY <1>17 DEF FilterDies, FilterHas, PipeTypeOK
  <2>4. Kept' BY <1>17 DEF FilterDies, PipeTypeOK, Kept, KeptAt, Began, session
  <2> QED BY <2>1, <2>2, <2>3, <2>4
<1> QED
  BY <1>1, <1>2, <1>3, <1>4, <1>5, <1>6, <1>7, <1>8, <1>9, <1>10, <1>11, <1>12, <1>13, <1>14, <1>15, <1>16, <1>17
  DEF Daemon, Filter

LEMMA PipeInvNext == PipeInv /\ [PipeNext]_pipeVars => PipeInv'
<1> SUFFICES ASSUME PipeInv, [PipeNext]_pipeVars PROVE PipeInv' OBVIOUS
<1>1. CASE PipeNext BY <1>1, PipeInvStep DEF PipeNext
<1>2. CASE UNCHANGED pipeVars
  BY <1>2 DEF pipeVars, session, child, PipeInv, PipeTypeOK, DaemonHas, FilterHas, Kept, KeptAt, Began
<1> QED BY <1>1, <1>2

(* The strengthening is an invariant of every instance                     *)
THEOREM PipeInvariant == PipeSpec => []PipeInv
BY PipeInvInit, PipeInvNext, PTL DEF PipeSpec

(* Types, and no more in the pipes and processes than the message          *)
THEOREM PipeTypeCorrect == PipeSpec => []PipeTypeOK
BY PipeInvariant, PTL DEF PipeInv

(* The answer of a filter that ends by itself is the whole message (retr of *)
(* popforward.lua)                                                         *)
THEOREM FilteredWhole == PipeSpec => []Filtered
<1>1. PipeInv => Filtered
  BY Sizes DEF PipeInv, Kept, KeptAt, Filtered, PipeTypeOK
<1> QED BY <1>1, PipeInvariant, PTL

(* A successful call of io_dpopen and retr leaves no end of its pipes open  *)
THEOREM NothingLeaks == PipeSpec => []NoLeak
<1>1. PipeInv => NoLeak
  <2> SUFFICES ASSUME PipeInv, NEW t \in Thread, pc[t] = "ok", NEW e \in fd, e.of = t PROVE FALSE
    BY DEF NoLeak
  <2>1. e.end \in EndName /\ e = E(t, e.end)
    BY DEF PipeInv, PipeTypeOK, End, EndName, E
  <2> QED BY <2>1 DEF PipeInv, DaemonHas, Ends
<1> QED BY <1>1, PipeInvariant, PTL
=============================================================================
