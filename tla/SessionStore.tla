---------------------------- MODULE SessionStore ----------------------------
(***************************************************************************)
(* The store of webmail sessions (modules/src/session/session.c) over the  *)
(* dictionary (modules/src/dictionary/dictionary.c), called by the POP3    *)
(* threads through the Lua module session.  One mutex makes a dictionary   *)
(* operation one step; what session.c does with the data_t after the       *)
(* operation is a step of its own, outside the mutex.                      *)
(***************************************************************************)
EXTENDS Integers, FiniteSets

CONSTANTS
  Thread,  \* the POP3 threads
  Key,     \* session keys: the plugin's key(), account, password and folder
  Data,    \* serialized plugin states
  Node,    \* addresses malloc may return for a data_t
  Null,    \* NULL: no data_t, no string
  Locked   \* the string "\a"

ASSUME NullIsNothing == /\ Null \notin Node \cup Data \cup {Locked}
                        /\ Locked \notin Data
ASSUME EnoughNodes   == /\ IsFiniteSet(Node)
                        /\ IsFiniteSet(Key)

VARIABLES
  dict,   \* sessions: the data_t of each key
  alloc,  \* the data_t that are allocated
  data,   \* their field data
  used,   \* their field used: 1 when a session holds the lock
  call,   \* what each thread still has to do with a data_t, outside the mutex
  ret     \* what each thread's last call returned

storeVars == <<dict, alloc, data, used, call, ret>>

NoCall == [op |-> "none", node |-> Null, value |-> Null]

Calls == {NoCall}
         \cup [op : {"fill"}, node : Node, value : Data]
         \cup [op : {"read"}, node : Node, value : {Null}]

StoreTypeOK ==
  /\ dict \in [Key -> Node \cup {Null}]
  /\ alloc \subseteq Node
  /\ data \in [Node -> Data \cup {Null}]
  /\ used \in [Node -> 0 .. 1]
  /\ call \in [Thread -> Calls]
  /\ ret \in [Thread -> Data \cup {Null, Locked} \cup 0 .. 2]

(* session_init *)
StoreInit ==
  /\ dict = [k \in Key |-> Null]
  /\ alloc = {}
  /\ data = [n \in Node |-> Null]
  /\ used = [n \in Node |-> 0]
  /\ call = [t \in Thread |-> NoCall]
  /\ ret = [t \in Thread |-> Null]

Idle(t) == call[t] = NoCall

(* Addresses malloc may return, one that a thread still points to included  *)
Fresh == Node \ alloc

(* Fault: dictionary_add replaces, without asking whether the old is locked *)
OpResult_Replaces == 0

(* dictionary_add: 0 replaced, 1 added, 2 refused.  rc starts at 1 and only *)
(* op sets it to 0 when the key is there, and session_save passes no op.    *)
OpResult == 1

AddResult(k, overwrite) ==
  IF dict[k] = Null THEN 1 ELSE IF OpResult = 0 /\ overwrite THEN 0 ELSE 2

(* session_save up to dictionary_add: the new data_t, data still NULL,      *)
(* becomes visible to the other threads, or is freed at once                *)
SaveAdd(t, k, d, overwrite) ==
  /\ Idle(t)
  /\ LET rc == AddResult(k, overwrite) IN
       IF rc = 2
         THEN /\ ret' = [ret EXCEPT ![t] = 2]
              /\ UNCHANGED <<dict, alloc, data, used, call>>
         ELSE \E n \in Fresh :
                /\ dict' = [dict EXCEPT ![k] = n]
                /\ alloc' = (alloc \ {dict[k]}) \cup {n}
                /\ data' = [data EXCEPT ![n] = Null]
                /\ used' = [used EXCEPT ![n] = 0]
                /\ call' = [call EXCEPT ![t] = [op |-> "fill", node |-> n, value |-> d]]
                /\ UNCHANGED ret

(* Fault: the string is not saved in a session that is locked *)
SaveFill_UnlessLocked(t) ==
  /\ call[t].op = "fill"
  /\ data' = IF call[t].node \in alloc /\ used[call[t].node] = 0
               THEN [data EXCEPT ![call[t].node] = call[t].value]
               ELSE data
  /\ call' = [call EXCEPT ![t] = NoCall]
  /\ ret' = [ret EXCEPT ![t] = 0]
  /\ UNCHANGED <<dict, alloc, used>>

(* session_save after dictionary_add: tmp->data = strdup(data).  Written    *)
(* to freed memory the string is lost.                                      *)
SaveFill(t) ==
  /\ call[t].op = "fill"
  /\ data' = IF call[t].node \in alloc
               THEN [data EXCEPT ![call[t].node] = call[t].value]
               ELSE data
  /\ call' = [call EXCEPT ![t] = NoCall]
  /\ ret' = [ret EXCEPT ![t] = 0]
  /\ UNCHANGED <<dict, alloc, used>>

(* session_load_and_lock up to dictionary_find with check_unused_and_lock *)
LoadFind(t, k) ==
  /\ Idle(t)
  /\ IF dict[k] = Null
       THEN /\ ret' = [ret EXCEPT ![t] = Null]
            /\ UNCHANGED <<used, call>>
       ELSE IF used[dict[k]] = 1
         THEN /\ ret' = [ret EXCEPT ![t] = Locked]
              /\ UNCHANGED <<used, call>>
         ELSE /\ used' = [used EXCEPT ![dict[k]] = 1]
              /\ call' = [call EXCEPT ![t] = [op |-> "read", node |-> dict[k], value |-> Null]]
              /\ UNCHANGED ret
  /\ UNCHANGED <<dict, alloc, data>>

(* session_load_and_lock after the find: return tmp->data, copied to a Lua  *)
(* string.  A freed data_t gives what the memory holds by then.             *)
LoadRead(t) ==
  /\ call[t].op = "read"
  /\ \E d \in IF call[t].node \in alloc THEN {data[call[t].node]} ELSE Data \cup {Null} :
       ret' = [ret EXCEPT ![t] = d]
  /\ call' = [call EXCEPT ![t] = NoCall]
  /\ UNCHANGED <<dict, alloc, data, used>>

(* Fault: dictionary_remove is given no freedata *)
Remove_Leaks(t, k) ==
  /\ Idle(t)
  /\ dict' = [dict EXCEPT ![k] = Null]
  /\ ret' = [ret EXCEPT ![t] = Null]
  /\ UNCHANGED <<alloc, data, used, call>>

(* session_remove: frees the data_t, locked or not.  The fields of freed     *)
(* memory are of no account: they go back to their initial values.          *)
Remove(t, k) ==
  /\ Idle(t)
  /\ dict' = [dict EXCEPT ![k] = Null]
  /\ alloc' = alloc \ {dict[k]}
  /\ data' = [n \in Node |-> IF n = dict[k] THEN Null ELSE data[n]]
  /\ used' = [n \in Node |-> IF n = dict[k] THEN 0 ELSE used[n]]
  /\ ret' = [ret EXCEPT ![t] = Null]
  /\ UNCHANGED call

(* session_unlock: whoever holds the lock *)
Unlock(t, k) ==
  /\ Idle(t)
  /\ used' = [n \in Node |-> IF n = dict[k] THEN 0 ELSE used[n]]
  /\ ret' = [ret EXCEPT ![t] = Null]
  /\ UNCHANGED <<dict, alloc, data, call>>

-----------------------------------------------------------------------------
(* Properties *)

(* No data_t leaks, none is freed twice: what is allocated is what the      *)
(* dictionary holds, one data_t for one key, whatever saves, loads and      *)
(* removes interleave (session.c:76-78, dictionary.c:117, 147).             *)
NodesOwned ==
  /\ alloc = {dict[k] : k \in Key} \ {Null}
  /\ \A j, k \in Key : dict[j] = dict[k] /\ dict[j] # Null => j = k

(* A session whose string is missing is one a save is about to fill in:     *)
(* no entry stays without data once its session_save has returned           *)
(* (session.c:69-73).                                                       *)
FilledUnlessSaving ==
  \A k \in Key :
    dict[k] # Null /\ data[dict[k]] = Null =>
      \E t \in Thread : call[t].op = "fill" /\ call[t].node = dict[k]

(* dictionary.h warns that the value found may no longer be valid: a        *)
(* thread that still has to follow its pointer points to allocated memory.  *)
NoUseAfterFree == \A t \in Thread : call[t].node # Null => call[t].node \in alloc
=============================================================================
