------------------------ MODULE MailboxSession_proofs ------------------------
(***************************************************************************)
(* The plugins' use of the session store keeps it sound, and leaves no     *)
(* account locked for good, for every number of POP3 threads and accounts. *)
(***************************************************************************)
EXTENDS MailboxSession, TLAPS

-----------------------------------------------------------------------------
(* Every operation of the session store keeps StoreInv, whoever calls it    *)
(* and whatever the other threads are in the middle of.                     *)

StoreInv == StoreTypeOK /\ NodesOwned /\ FilledUnlessSaving

LEMMA StoreInvInit == StoreInit => StoreInv
BY NullIsNothing DEF StoreInit, StoreInv, StoreTypeOK, NodesOwned, FilledUnlessSaving, Calls, NoCall

LEMMA StoreInvSaveAdd ==
  ASSUME StoreInv, NEW t \in Thread, NEW k \in Key, NEW d \in Data, NEW o \in BOOLEAN,
         SaveAdd(t, k, d, o)
  PROVE  StoreInv'
<1> USE NullIsNothing
<1>1. StoreTypeOK /\ NodesOwned /\ FilledUnlessSaving
  BY DEF StoreInv
<1>2. CASE dict[k] # Null
  <2>1. ret' = [ret EXCEPT ![t] = 2] /\ UNCHANGED <<dict, alloc, data, used, call>>
    BY <1>2 DEF SaveAdd, AddResult, OpResult
  <2> QED
    BY <1>1, <2>1 DEF StoreInv, StoreTypeOK, NodesOwned, FilledUnlessSaving
<1>3. CASE dict[k] = Null
  <2>1. PICK n \in Fresh :
          /\ dict' = [dict EXCEPT ![k] = n]
          /\ alloc' = (alloc \ {dict[k]}) \cup {n}
          /\ data' = [data EXCEPT ![n] = Null]
          /\ used' = [used EXCEPT ![n] = 0]
          /\ call' = [call EXCEPT ![t] = [op |-> "fill", node |-> n, value |-> d]]
          /\ UNCHANGED ret
    BY <1>3 DEF SaveAdd, AddResult
  <2>2. n \in Node /\ n \notin alloc /\ n # Null
    BY DEF Fresh
  <2>3. alloc' = alloc \cup {n}
    BY <1>1, <1>3, <2>1 DEF StoreTypeOK
  <2>4. call[t] = NoCall
    BY DEF SaveAdd, Idle
  <2>5. StoreTypeOK'
    BY <1>1, <2>1, <2>2, <2>3 DEF StoreTypeOK, Calls
  <2>6. \A j \in Key : j # k => dict'[j] = dict[j] /\ dict[j] # n
    BY <1>1, <2>1, <2>2 DEF StoreTypeOK, NodesOwned
  <2>7. NodesOwned'
    BY <1>1, <1>3, <2>1, <2>2, <2>3, <2>6 DEF NodesOwned, StoreTypeOK
  <2>8. FilledUnlessSaving'
    <3>1. call'[t].op = "fill" /\ call'[t].node = dict'[k]
      BY <1>1, <2>1 DEF StoreTypeOK
    <3>2. \A u \in Thread : u # t => call'[u] = call[u]
      BY <1>1, <2>1 DEF StoreTypeOK
    <3>3. \A j \in Key : j # k => data'[dict[j]] = data[dict[j]]
      BY <1>1, <2>1, <2>6 DEF StoreTypeOK
    <3> QED
      BY <1>1, <2>4, <2>6, <3>1, <3>2, <3>3 DEF FilledUnlessSaving, NoCall
  <2> QED
    BY <2>5, <2>7, <2>8 DEF StoreInv
<1> QED
  BY <1>2, <1>3

LEMMA StoreInvSaveFill ==
  ASSUME StoreInv, NEW t \in Thread, SaveFill(t)
  PROVE  StoreInv'
<1> USE NullIsNothing
<1>1. StoreTypeOK /\ NodesOwned /\ FilledUnlessSaving
  BY DEF StoreInv
<1>2. call[t].op = "fill" /\ call[t].node \in Node /\ call[t].value \in Data
  BY <1>1 DEF SaveFill, StoreTypeOK, Calls, NoCall
<1>3. /\ data' = IF call[t].node \in alloc
                   THEN [data EXCEPT ![call[t].node] = call[t].value]
                   ELSE data
      /\ call' = [call EXCEPT ![t] = NoCall]
      /\ ret' = [ret EXCEPT ![t] = 0]
      /\ UNCHANGED <<dict, alloc, used>>
  BY DEF SaveFill
<1>4. StoreTypeOK'
  BY <1>1, <1>2, <1>3 DEF StoreTypeOK, Calls
<1>5. NodesOwned'
  BY <1>1, <1>3 DEF NodesOwned
<1>6. FilledUnlessSaving'
  <2> SUFFICES ASSUME NEW k \in Key, dict[k] # Null, data'[dict[k]] = Null
               PROVE  \E u \in Thread : call'[u].op = "fill" /\ call'[u].node = dict[k]
    BY <1>3 DEF FilledUnlessSaving
  <2>1. dict[k] \in alloc /\ dict[k] \in Node
    BY <1>1 DEF NodesOwned, StoreTypeOK
  <2>2. call[t].node # dict[k] /\ data[dict[k]] = Null
    BY <1>1, <1>2, <1>3, <2>1 DEF StoreTypeOK
  <2>3. PICK u \in Thread : call[u].op = "fill" /\ call[u].node = dict[k]
    BY <1>1, <2>2 DEF FilledUnlessSaving
  <2>4. call'[u] = call[u]
    BY <1>1, <1>3, <2>2, <2>3 DEF StoreTypeOK
  <2> QED
    BY <2>3, <2>4
<1> QED
  BY <1>4, <1>5, <1>6 DEF StoreInv

LEMMA StoreInvLoadFind ==
  ASSUME StoreInv, NEW t \in Thread, NEW k \in Key, LoadFind(t, k)
  PROVE  StoreInv'
<1> USE NullIsNothing
<1>1. StoreTypeOK /\ NodesOwned /\ FilledUnlessSaving
  BY DEF StoreInv
<1>2. UNCHANGED <<dict, alloc, data>> /\ call[t] = NoCall
  BY DEF LoadFind, Idle
<1>3. \A u \in Thread : u # t => call'[u] = call[u]
  BY <1>1 DEF LoadFind, StoreTypeOK
<1>4. StoreTypeOK'
  BY <1>1 DEF LoadFind, StoreTypeOK, Calls
<1>5. NodesOwned' /\ FilledUnlessSaving'
  BY <1>1, <1>2, <1>3 DEF NodesOwned, FilledUnlessSaving, NoCall
<1> QED
  BY <1>4, <1>5 DEF StoreInv

LEMMA StoreInvLoadRead ==
  ASSUME StoreInv, NEW t \in Thread, LoadRead(t)
  PROVE  /\ StoreInv'
         /\ ret'[t] \in Data \cup {Null}
<1> USE NullIsNothing
<1>1. StoreTypeOK /\ NodesOwned /\ FilledUnlessSaving
  BY DEF StoreInv
<1>2. call[t].op = "read" /\ call[t].node \in Node
  BY <1>1 DEF LoadRead, StoreTypeOK, Calls, NoCall
<1>3. PICK d \in Data \cup {Null} : ret' = [ret EXCEPT ![t] = d]
  BY <1>1, <1>2 DEF LoadRead, StoreTypeOK
<1>4. call' = [call EXCEPT ![t] = NoCall] /\ UNCHANGED <<dict, alloc, data, used>>
  BY DEF LoadRead
<1>5. StoreTypeOK' /\ ret'[t] \in Data \cup {Null}
  BY <1>1, <1>3, <1>4 DEF StoreTypeOK, Calls
<1>6. NodesOwned'
  BY <1>1, <1>4 DEF NodesOwned
<1>7. FilledUnlessSaving'
  BY <1>1, <1>2, <1>4 DEF FilledUnlessSaving, StoreTypeOK
<1> QED
  BY <1>5, <1>6, <1>7 DEF StoreInv

LEMMA StoreInvRemove ==
  ASSUME StoreInv, NEW t \in Thread, NEW k \in Key, Remove(t, k)
  PROVE  StoreInv'
<1> USE NullIsNothing
<1>1. StoreTypeOK /\ NodesOwned /\ FilledUnlessSaving
  BY DEF StoreInv
<1>2. /\ dict' = [dict EXCEPT ![k] = Null]
      /\ alloc' = alloc \ {dict[k]}
      /\ data' = [n \in Node |-> IF n = dict[k] THEN Null ELSE data[n]]
      /\ used' = [n \in Node |-> IF n = dict[k] THEN 0 ELSE used[n]]
      /\ ret' = [ret EXCEPT ![t] = Null]
      /\ UNCHANGED call
  BY DEF Remove
<1>3. StoreTypeOK'
  BY <1>1, <1>2 DEF StoreTypeOK
<1>4. NodesOwned'
  BY <1>1, <1>2 DEF NodesOwned, StoreTypeOK
<1>5. FilledUnlessSaving'
  BY <1>1, <1>2 DEF FilledUnlessSaving, NodesOwned, StoreTypeOK
<1> QED
  BY <1>3, <1>4, <1>5 DEF StoreInv

LEMMA StoreInvUnlock ==
  ASSUME StoreInv, NEW t \in Thread, NEW k \in Key, Unlock(t, k)
  PROVE  StoreInv'
BY NullIsNothing DEF StoreInv, StoreTypeOK, NodesOwned, FilledUnlessSaving, Unlock

LEMMA StoreInvUnchanged ==
  ASSUME StoreInv, UNCHANGED storeVars
  PROVE  StoreInv'
BY DEF StoreInv, storeVars, StoreTypeOK, NodesOwned, FilledUnlessSaving

-----------------------------------------------------------------------------
(* The plugins *)

MailboxInv == TypeOK /\ StoreInv /\ NoStuckLock

LEMMA MailboxInvInit == Init => MailboxInv
<1> SUFFICES ASSUME Init PROVE MailboxInv
  OBVIOUS
<1>1. StoreInv
  BY StoreInvInit DEF Init
<1>2. TypeOK
  BY <1>1 DEF Init, TypeOK, StoreInv, Pc
<1>3. NoStuckLock
  BY DEF Init, StoreInit, NoStuckLock
<1> QED
  BY <1>1, <1>2, <1>3 DEF MailboxInv

(* A step that takes no lock and gives none a new place keeps NoStuckLock,  *)
(* unless it is the end of a session                                        *)
LEMMA LockKept ==
  ASSUME TypeOK, NoStuckLock, NEW t \in Thread,
         \A k \in Key : dict'[k] # Null /\ used'[dict'[k]] = 1 =>
                          dict'[k] = dict[k] /\ used[dict[k]] = 1,
         \A u \in Thread : u # t => pc'[u] = pc[u] /\ key'[u] = key[u],
         \/ pc[t] \in {"none", "pass"}
         \/ pc'[t] \notin {"none", "pass"} /\ key'[t] = key[t]
  PROVE  NoStuckLock'
<1> SUFFICES ASSUME NEW k \in Key, dict'[k] # Null, used'[dict'[k]] = 1
             PROVE  \E u \in Thread : key'[u] = k /\ pc'[u] \notin {"none", "pass"}
  BY DEF NoStuckLock
<1>1. PICK u \in Thread : key[u] = k /\ pc[u] \notin {"none", "pass"}
  BY DEF NoStuckLock
<1>2. CASE u = t
  BY <1>1, <1>2
<1>3. CASE u # t
  BY <1>1, <1>3
<1> QED
  BY <1>2, <1>3

LEMMA MailboxInvNext == MailboxInv /\ [Next]_vars => MailboxInv'
<1> SUFFICES ASSUME MailboxInv, [Next]_vars PROVE MailboxInv'
  OBVIOUS
<1> USE NullIsNothing
<1>1. TypeOK /\ StoreInv /\ NoStuckLock
  BY DEF MailboxInv
<1>2. ASSUME NEW t \in Thread,
             \/ Start(t) \/ Login(t) \/ LoginFails(t) \/ StatOk(t) \/ Relogin(t)
             \/ ReloginFails(t) \/ StatFails(t) \/ Fails(t)
      PROVE  MailboxInv'
  <2> USE DEF Start, Login, LoginFails, StatOk, Relogin, ReloginFails, StatFails, Fails, Goto
  <2>1. UNCHANGED storeVars
    BY <1>2
  <2>2. StoreInv'
    BY <1>1, <2>1, StoreInvUnchanged
  <2>3. TypeOK'
    BY <1>1, <1>2, <2>2 DEF TypeOK, StoreInv, Pc
  <2>4. /\ \A u \in Thread : u # t => pc'[u] = pc[u] /\ key'[u] = key[u]
        /\ \/ pc[t] \in {"none", "pass"}
           \/ pc'[t] \notin {"none", "pass"} /\ key'[t] = key[t]
    BY <1>1, <1>2 DEF TypeOK
  <2>5. NoStuckLock'
    BY <1>1, <2>1, <2>4, LockKept DEF storeVars
  <2> QED
    BY <2>2, <2>3, <2>5 DEF MailboxInv
<1>3. ASSUME NEW t \in Thread, PassLoad(t) PROVE MailboxInv'
  <2>1. LoadFind(t, key[t]) /\ pc[t] = "pass" /\ UNCHANGED <<key, state, stat>>
    BY <1>3 DEF PassLoad
  <2>2. key[t] \in Key
    BY <1>1 DEF TypeOK
  <2>3. StoreInv'
    BY <1>1, <2>1, <2>2, StoreInvLoadFind
  <2>4. PICK p \in {"loading", "quit", "login"} : pc' = [pc EXCEPT ![t] = p]
    BY <1>3 DEF PassLoad
  <2>5. TypeOK'
    <3>1. mine' \in [Thread -> BOOLEAN]
      BY <1>1, <1>3 DEF PassLoad, TypeOK
    <3> QED
      BY <1>1, <2>1, <2>3, <2>4, <3>1 DEF TypeOK, StoreInv, Pc
  <2>6. NoStuckLock'
    <3> SUFFICES ASSUME NEW k \in Key, dict[k] # Null, used'[dict[k]] = 1
                 PROVE  \E u \in Thread : key[u] = k /\ pc'[u] \notin {"none", "pass"}
      BY <2>1 DEF NoStuckLock, LoadFind
    <3>1. CASE used[dict[k]] = 1
      <4>1. PICK u \in Thread : key[u] = k /\ pc[u] \notin {"none", "pass"}
        BY <1>1, <3>1 DEF NoStuckLock
      <4> QED
        BY <1>1, <2>1, <2>4, <4>1 DEF TypeOK
    <3>2. CASE used[dict[k]] # 1
      <4>1. dict[k] = dict[key[t]]
        BY <1>1, <2>1, <2>2, <3>2 DEF LoadFind, TypeOK, StoreTypeOK
      <4>2. key[t] = k
        BY <1>1, <2>2, <4>1 DEF StoreInv, NodesOwned
      <4> QED
        BY <1>1, <2>4, <4>2 DEF TypeOK
    <3> QED
      BY <3>1, <3>2
  <2> QED
    BY <2>3, <2>5, <2>6 DEF MailboxInv
<1>4. ASSUME NEW t \in Thread, PassLoaded(t) PROVE MailboxInv'
  <2>1. LoadRead(t) /\ pc[t] = "loading" /\ UNCHANGED <<key, stat>>
    BY <1>4 DEF PassLoaded
  <2>2. StoreInv' /\ ret'[t] \in Data \cup {Null}
    BY <1>1, <2>1, StoreInvLoadRead
  <2>3. PICK p \in {"login", "trans"} : pc' = [pc EXCEPT ![t] = p]
    BY <1>4 DEF PassLoaded
  <2>4. TypeOK'
    BY <1>1, <1>4, <2>1, <2>2, <2>3 DEF TypeOK, StoreInv, Pc, PassLoaded
  <2>5. NoStuckLock'
    BY <1>1, <2>1, <2>3, LockKept DEF LoadRead, TypeOK
  <2> QED
    BY <2>2, <2>4, <2>5 DEF MailboxInv
<1>5. ASSUME NEW t \in Thread, StatExpired(t) \/ StatRemoves(t) PROVE MailboxInv'
  <2> USE DEF StatExpired, StatRemoves, Goto
  <2>1. Remove(t, key[t]) /\ key[t] \in Key
    BY <1>1, <1>5 DEF TypeOK
  <2>2. StoreInv'
    BY <1>1, <2>1, StoreInvRemove
  <2>3. TypeOK'
    <3>1. mine' \in [Thread -> BOOLEAN]
      BY <1>5 DEF Given
    <3> QED
      BY <1>1, <1>5, <2>2, <3>1 DEF TypeOK, StoreInv, Pc
  <2>4. \A k \in Key : dict'[k] # Null /\ used'[dict'[k]] = 1 =>
                         dict'[k] = dict[k] /\ used[dict[k]] = 1
    BY <1>1, <2>1 DEF Remove, TypeOK, StoreTypeOK
  <2>5. /\ \A u \in Thread : u # t => pc'[u] = pc[u] /\ key'[u] = key[u]
        /\ pc'[t] \notin {"none", "pass"} /\ key'[t] = key[t]
    BY <1>1, <1>5 DEF TypeOK
  <2>6. NoStuckLock'
    BY <1>1, <2>4, <2>5, LockKept
  <2> QED
    BY <2>2, <2>3, <2>6 DEF MailboxInv
<1>6. ASSUME NEW t \in Thread, Save(t) PROVE MailboxInv'
  <2>1. PICK d \in Data : SaveAdd(t, key[t], d, TRUE)
    BY <1>6 DEF Save
  <2>2. key[t] \in Key /\ UNCHANGED <<key, state, stat, mine>>
    BY <1>1, <1>6 DEF Save, TypeOK
  <2>3. StoreInv'
    BY <1>1, <2>1, <2>2, StoreInvSaveAdd
  <2>4. PICK p \in {"unlock", "filling"} : pc' = [pc EXCEPT ![t] = p]
    BY <1>6 DEF Save
  <2>5. TypeOK'
    BY <1>1, <2>2, <2>3, <2>4 DEF TypeOK, StoreInv, Pc
  <2>6. \A k \in Key : dict'[k] # Null /\ used'[dict'[k]] = 1 =>
                         dict'[k] = dict[k] /\ used[dict[k]] = 1
    <3>1. \A k \in Key : dict[k] # Null => dict[k] \in alloc
      BY <1>1 DEF StoreInv, NodesOwned
    <3>2. CASE UNCHANGED <<dict, used>>
      BY <3>2
    <3>3. CASE \E n \in Fresh : dict' = [dict EXCEPT ![key[t]] = n] /\ used' = [used EXCEPT ![n] = 0]
      BY <1>1, <2>2, <3>1, <3>3 DEF Fresh, TypeOK, StoreTypeOK
    <3> QED
      BY <2>1, <3>2, <3>3 DEF SaveAdd
  <2>7. NoStuckLock'
    BY <1>1, <2>2, <2>4, <2>6, LockKept DEF TypeOK
  <2> QED
    BY <2>3, <2>5, <2>7 DEF MailboxInv
<1>7. ASSUME NEW t \in Thread, SaveDone(t) PROVE MailboxInv'
  <2>1. SaveFill(t) /\ UNCHANGED <<key, state, stat, mine>>
    BY <1>7 DEF SaveDone
  <2>2. StoreInv'
    BY <1>1, <2>1, StoreInvSaveFill
  <2>3. TypeOK'
    BY <1>1, <1>7, <2>2 DEF SaveDone, Goto, TypeOK, StoreInv, Pc
  <2>4. NoStuckLock'
    BY <1>1, <1>7, LockKept DEF SaveDone, SaveFill, Goto, TypeOK
  <2> QED
    BY <2>2, <2>3, <2>4 DEF MailboxInv
<1>8. ASSUME NEW t \in Thread, Release(t) PROVE MailboxInv'
  <2>1. Unlock(t, key[t]) /\ key[t] \in Key /\ key' = key
    BY <1>1, <1>8 DEF Release, TypeOK
  <2>2. StoreInv'
    BY <1>1, <2>1, StoreInvUnlock
  <2>3. TypeOK'
    <3>1. mine' \in [Thread -> BOOLEAN]
      BY <1>8 DEF Release, Given
    <3> QED
      BY <1>1, <1>8, <2>2, <3>1 DEF Release, Goto, TypeOK, StoreInv, Pc
  <2>4. NoStuckLock'
    <3> SUFFICES ASSUME NEW k \in Key, dict[k] # Null, used'[dict[k]] = 1
                 PROVE  \E u \in Thread : key[u] = k /\ pc'[u] \notin {"none", "pass"}
      BY <2>1 DEF NoStuckLock, Unlock
    <3>1. used[dict[k]] = 1 /\ dict[k] # dict[key[t]]
      BY <1>1, <2>1 DEF Unlock, TypeOK, StoreTypeOK
    <3>2. PICK u \in Thread : key[u] = k /\ pc[u] \notin {"none", "pass"}
      BY <1>1, <3>1 DEF NoStuckLock
    <3>3. u # t
      BY <3>1, <3>2
    <3>4. pc'[u] = pc[u]
      BY <1>1, <1>8, <3>3 DEF Release, Goto, TypeOK
    <3> QED
      BY <3>2, <3>4
  <2> QED
    BY <2>2, <2>3, <2>4 DEF MailboxInv
<1>9. CASE UNCHANGED vars
  <2>1. StoreInv'
    BY <1>1, <1>9, StoreInvUnchanged DEF vars
  <2> QED
    BY <1>1, <1>9, <2>1 DEF vars, storeVars, sessionVars, MailboxInv, TypeOK, StoreInv, NoStuckLock
<1> QED
  BY <1>2, <1>3, <1>4, <1>5, <1>6, <1>7, <1>8, <1>9 DEF Next, Step

THEOREM MailboxInvariant == Spec => []MailboxInv
<1> QED
  BY MailboxInvInit, MailboxInvNext, PTL DEF Spec

(* The type invariant of the session store and of the plugins' sessions.    *)
THEOREM TypeCorrect == Spec => []TypeOK
<1>1. MailboxInv => TypeOK
  BY DEF MailboxInv
<1> QED
  BY <1>1, MailboxInvariant, PTL

(* The store leaks no data_t and frees none twice, though session_save and  *)
(* session_load_and_lock go on outside the dictionary's mutex.              *)
THEOREM NodesAreOwned == Spec => []NodesOwned
<1>1. MailboxInv => NodesOwned
  BY DEF MailboxInv, StoreInv
<1> QED
  BY <1>1, MailboxInvariant, PTL

(* An entry without its string has a session_save under way that fills it.  *)
THEOREM EntriesGetFilled == Spec => []FilledUnlessSaving
<1>1. MailboxInv => FilledUnlessSaving
  BY DEF MailboxInv, StoreInv
<1> QED
  BY <1>1, MailboxInvariant, PTL

(* No account stays locked for good: while its session is locked, a POP3    *)
(* session on it is past load_lock and will unlock it (libero.lua, quit and *)
(* quit_update).                                                            *)
THEOREM NoLockIsStuck == Spec => []NoStuckLock
<1>1. MailboxInv => NoStuckLock
  BY DEF MailboxInv
<1> QED
  BY <1>1, MailboxInvariant, PTL

-----------------------------------------------------------------------------
(* Who holds a lock has got past load_lock *)
LockInv == LockKeepsOut /\ \A t \in Thread : mine[t] => pc[t] \notin {"none", "pass"}

(* A step that leaves alone what is locked, and gives nobody a lock         *)
LEMMA HoldersKept ==
  ASSUME LockInv,
         \A t \in Thread : mine'[t] =>
            /\ mine[t] /\ key'[t] = key[t] /\ pc'[t] \notin {"none", "pass"}
            /\ dict'[key[t]] = dict[key[t]] /\ used'[dict[key[t]]] = used[dict[key[t]]]
  PROVE  LockInv'
BY DEF LockInv, LockKeepsOut

LEMMA LockInvNext == MailboxInv /\ LockInv /\ [Next]_vars => LockInv'
<1> SUFFICES ASSUME MailboxInv, LockInv, [Next]_vars PROVE LockInv'
  OBVIOUS
<1> USE NullIsNothing
<1>1. TypeOK /\ StoreTypeOK /\ NodesOwned
  BY DEF MailboxInv, StoreInv, TypeOK
<1>2. ASSUME NEW t \in Thread,
             \/ Start(t) \/ Login(t) \/ LoginFails(t) \/ StatOk(t) \/ Relogin(t)
             \/ ReloginFails(t) \/ StatFails(t) \/ Fails(t)
      PROVE  LockInv'
  <2> USE DEF Start, Login, LoginFails, StatOk, Relogin, ReloginFails, StatFails, Fails, Goto
  <2>1. UNCHANGED <<dict, used, mine>>
    BY <1>2 DEF storeVars
  <2>2. \A u \in Thread : mine[u] => key'[u] = key[u] /\ pc'[u] \notin {"none", "pass"}
    BY <1>1, <1>2 DEF LockInv, TypeOK
  <2> QED
    BY <2>1, <2>2, HoldersKept
<1>3. ASSUME NEW t \in Thread, PassLoad(t) PROVE LockInv'
  <2>1. LoadFind(t, key[t]) /\ pc[t] = "pass" /\ key' = key /\ dict' = dict /\ key[t] \in Key
    BY <1>1, <1>3 DEF PassLoad, LoadFind, TypeOK
  <2>2. \A u \in Thread \ {t} : mine'[u] = mine[u] /\ pc'[u] = pc[u]
    BY <1>1, <1>3 DEF PassLoad, TypeOK
  <2>3. CASE call'[t] = NoCall
    <3>1. ~mine'[t] /\ used' = used
      <4>1. used' = used
        BY <1>1, <2>1, <2>3 DEF LoadFind, StoreTypeOK, NoCall
      <4> QED
        BY <1>1, <1>3, <2>3, <4>1 DEF PassLoad, TypeOK
    <3> QED
      BY <2>1, <2>2, <3>1, HoldersKept DEF LockInv
  <2>4. CASE call'[t] # NoCall
    <3>1. dict[key[t]] # Null /\ used[dict[key[t]]] # 1
          /\ used' = [used EXCEPT ![dict[key[t]]] = 1]
      BY <1>1, <2>1, <2>4 DEF LoadFind, Idle
    <3>2. dict[key[t]] \in Node /\ used \in [Node -> 0 .. 1]
      BY <1>1, <2>1, <3>1 DEF StoreTypeOK
    <3>3. used'[dict[key[t]]] = 1 /\ pc'[t] = "loading"
      BY <1>1, <1>3, <2>4, <3>1, <3>2 DEF PassLoad, TypeOK
    <3>4. \A u \in Thread : mine[u] => key[u] # key[t]
      BY <3>1 DEF LockInv, LockKeepsOut
    <3>5. ASSUME NEW u \in Thread \ {t}, mine[u]
          PROVE  used'[dict[key[u]]] = used[dict[key[u]]]
      <4>1. key[u] \in Key /\ dict[key[u]] # dict[key[t]]
        BY <1>1, <2>1, <3>1, <3>4, <3>5 DEF NodesOwned, TypeOK
      <4> QED
        BY <3>1, <3>2, <4>1, <1>1 DEF StoreTypeOK
    <3> QED
      BY <2>1, <2>2, <3>1, <3>3, <3>4, <3>5 DEF LockInv, LockKeepsOut
  <2> QED
    BY <2>3, <2>4
<1>4. ASSUME NEW t \in Thread, PassLoaded(t) \/ SaveDone(t) PROVE LockInv'
  <2>1. UNCHANGED <<dict, used, mine, key>>
    BY <1>4 DEF PassLoaded, SaveDone, LoadRead, SaveFill
  <2>2. \A u \in Thread : pc'[u] = pc[u] \/ pc'[u] \notin {"none", "pass"}
    BY <1>1, <1>4 DEF PassLoaded, SaveDone, Goto, TypeOK
  <2> QED
    BY <2>1, <2>2, HoldersKept DEF LockInv
<1>5. ASSUME NEW t \in Thread, StatExpired(t) \/ StatRemoves(t) \/ Release(t) PROVE LockInv'
  <2>1. Given(key[t]) /\ key' = key /\ key[t] \in Key
    BY <1>1, <1>5 DEF StatExpired, StatRemoves, Release, TypeOK
  <2>2. \A u \in Thread : mine'[u] => mine[u] /\ key[u] # key[t]
    BY <2>1 DEF Given
  <2>3. \A u \in Thread : u # t => pc'[u] = pc[u]
    BY <1>1, <1>5 DEF StatExpired, StatRemoves, Release, Goto, TypeOK
  <2>4. Remove(t, key[t]) \/ Unlock(t, key[t])
    BY <1>5 DEF StatExpired, StatRemoves, Release
  <2>5. ASSUME NEW u \in Thread, mine'[u]
        PROVE  dict'[key[u]] = dict[key[u]] /\ used'[dict[key[u]]] = used[dict[key[u]]]
    <3>1. key[u] \in Key /\ dict[key[u]] # Null
      BY <1>1, <2>2, <2>5 DEF LockInv, LockKeepsOut, TypeOK
    <3>2. dict[key[u]] # dict[key[t]]
      BY <1>1, <2>1, <2>2, <2>5, <3>1 DEF NodesOwned
    <3>3. dict[key[u]] \in Node
      BY <1>1, <3>1 DEF StoreTypeOK
    <3> QED
      BY <1>1, <2>2, <2>4, <2>5, <3>1, <3>2, <3>3 DEF Remove, Unlock, StoreTypeOK
  <2> QED
    BY <2>1, <2>2, <2>3, <2>5, HoldersKept DEF LockInv
<1>6. ASSUME NEW t \in Thread, Save(t) PROVE LockInv'
  <2>1. PICK d \in Data : SaveAdd(t, key[t], d, TRUE)
    BY <1>6 DEF Save
  <2>2. UNCHANGED <<key, mine>> /\ key[t] \in Key
    BY <1>1, <1>6 DEF Save, TypeOK
  <2>3. \A u \in Thread : pc'[u] = pc[u] \/ pc'[u] \notin {"none", "pass"}
    BY <1>1, <1>6 DEF Save, TypeOK
  <2>4. CASE UNCHANGED <<dict, used>>
    BY <2>2, <2>3, <2>4, HoldersKept DEF LockInv
  <2>5. CASE /\ dict[key[t]] = Null
             /\ \E n \in Fresh : dict' = [dict EXCEPT ![key[t]] = n] /\ used' = [used EXCEPT ![n] = 0]
    <3>1. PICK n \in Fresh : dict' = [dict EXCEPT ![key[t]] = n] /\ used' = [used EXCEPT ![n] = 0]
      BY <2>5
    <3>2. ASSUME NEW u \in Thread, mine[u]
          PROVE  dict'[key[u]] = dict[key[u]] /\ used'[dict[key[u]]] = used[dict[key[u]]]
      <4>1. key[u] \in Key /\ dict[key[u]] # Null
        BY <1>1, <3>2 DEF LockInv, LockKeepsOut, TypeOK
      <4>2. dict[key[u]] \in alloc /\ dict[key[u]] \in Node
        BY <1>1, <4>1 DEF NodesOwned, StoreTypeOK
      <4> QED
        BY <1>1, <2>5, <3>1, <4>1, <4>2 DEF Fresh, StoreTypeOK
    <3> QED
      BY <2>2, <2>3, <3>2, HoldersKept DEF LockInv
  <2>6. \/ UNCHANGED <<dict, used>>
        \/ /\ dict[key[t]] = Null
           /\ \E n \in Fresh : dict' = [dict EXCEPT ![key[t]] = n] /\ used' = [used EXCEPT ![n] = 0]
    BY <2>1 DEF SaveAdd, AddResult, OpResult
  <2> QED
    BY <2>4, <2>5, <2>6
<1>7. CASE UNCHANGED vars
  BY <1>7 DEF vars, storeVars, sessionVars, LockInv, LockKeepsOut
<1> QED
  BY <1>2, <1>3, <1>4, <1>5, <1>6, <1>7 DEF Next, Step

(* A lock load_lock has given keeps every other session out of the account  *)
(* until somebody unlocks it or removes its session (session.c,             *)
(* check_unused_and_lock), for any number of sessions and accounts.         *)
THEOREM LocksKeepOut == Spec => []LockKeepsOut
<1>1. Init => LockInv
  BY DEF Init, LockInv, LockKeepsOut
<1>2. LockInv => LockKeepsOut
  BY DEF LockInv
<1> QED
  BY <1>1, <1>2, LockInvNext, MailboxInvariant, PTL DEF Spec
=============================================================================
