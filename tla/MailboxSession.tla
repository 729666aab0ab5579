--------------------------- MODULE MailboxSession ---------------------------
(***************************************************************************)
(* How the plugins use the session store over a POP3 session: pass(),      *)
(* stat(), quit_update() and quit() of src/lua/libero.lua, whose protocol  *)
(* the manual gives as the pattern and the webmail plugins repeat, driven  *)
(* by the server's automaton (pop3_thread).  Several threads serve         *)
(* sessions on the same accounts at once.                                  *)
(***************************************************************************)
EXTENDS SessionStore

VARIABLES
  pc,     \* where each thread's session is
  key,    \* its key(), from the USER and PASS arguments
  state,  \* its internal_state, as serialize_state() would give it
  stat,   \* its internal_state.stat_done
  mine    \* has it locked the account, and nobody unlocked it since?

sessionVars == <<pc, key, state, stat, mine>>
vars        == <<storeVars, sessionVars>>

Pc == {"none", "pass", "loading", "login", "trans", "relogin", "lost",
       "saving", "filling", "unlock", "quit"}

TypeOK ==
  /\ StoreTypeOK
  /\ pc \in [Thread -> Pc]
  /\ key \in [Thread -> Key]
  /\ state \in [Thread -> Data \cup {Null}]
  /\ stat \in [Thread -> BOOLEAN]
  /\ mine \in [Thread -> BOOLEAN]

Init ==
  /\ StoreInit
  /\ pc = [t \in Thread |-> "none"]
  /\ key \in [Thread -> Key]
  /\ state = [t \in Thread |-> Null]
  /\ stat = [t \in Thread |-> FALSE]
  /\ mine = [t \in Thread |-> FALSE]

(* The lock of the account is given back, by whoever it may be              *)
Given(k) == mine' = [u \in Thread |-> mine[u] /\ key[u] # k]

Goto(t, from, to) == pc[t] = from /\ pc' = [pc EXCEPT ![t] = to]

-----------------------------------------------------------------------------
(* A client connects and sends USER and PASS *)
Start(t) ==
  /\ Goto(t, "none", "pass")
  /\ \E k \in Key : key' = [key EXCEPT ![t] = k]
  /\ UNCHANGED <<storeVars, state, stat, mine>>

(* pass(): session.load_lock.  "\a" is answered ERR_LOCKED, which the       *)
(* automaton turns into quit(); no session means a login.                   *)
PassLoad(t) ==
  /\ pc[t] = "pass"
  /\ LoadFind(t, key[t])
  /\ pc' = [pc EXCEPT ![t] = IF call'[t] # NoCall THEN "loading"
                               ELSE IF ret'[t] = Locked THEN "quit" ELSE "login"]
  /\ mine' = [mine EXCEPT ![t] = call'[t] # NoCall]
  /\ UNCHANGED <<key, state, stat>>

(* pass(): the string it got is run, or is nil and means a login *)
PassLoaded(t) ==
  /\ pc[t] = "loading"
  /\ LoadRead(t)
  /\ pc' = [pc EXCEPT ![t] = IF ret'[t] = Null THEN "login" ELSE "trans"]
  /\ state' = [state EXCEPT ![t] = ret'[t]]
  /\ UNCHANGED <<key, stat, mine>>

(* libero_login() inside pass(): no lock is taken *)
Login(t) ==
  /\ Goto(t, "login", "trans")
  /\ \E d \in Data : state' = [state EXCEPT ![t] = d]
  /\ UNCHANGED <<storeVars, key, stat, mine>>

(* ... or ERR_AUTH, ERR_UNKNOWN: the automaton calls quit() *)
LoginFails(t) ==
  /\ Goto(t, "login", "quit")
  /\ UNCHANGED <<storeVars, key, state, stat, mine>>

(* stat(), asked by any command that needs the list of messages *)
StatOk(t) ==
  /\ pc[t] = "trans"
  /\ ~stat[t]
  /\ stat' = [stat EXCEPT ![t] = TRUE]
  /\ UNCHANGED <<storeVars, pc, key, state, mine>>

(* stat(): the website answers that the session has ended, session.remove *)
StatExpired(t) ==
  /\ ~stat[t]
  /\ Goto(t, "trans", "relogin")
  /\ Remove(t, key[t])
  /\ Given(key[t])
  /\ UNCHANGED <<key, state, stat>>

(* stat(): ... libero_login() again; a later page of the list may find this *)
(* session ended too                                                        *)
Relogin(t) ==
  /\ Goto(t, "relogin", "trans")
  /\ \E d \in Data : state' = [state EXCEPT ![t] = d]
  /\ UNCHANGED <<storeVars, key, stat, mine>>

(* stat(): ... which fails, or the list cannot be read: a second remove *)
ReloginFails(t) ==
  /\ Goto(t, "relogin", "lost")
  /\ UNCHANGED <<storeVars, key, state, stat, mine>>

StatFails(t) ==
  /\ ~stat[t]
  /\ Goto(t, "trans", "lost")
  /\ UNCHANGED <<storeVars, key, state, stat, mine>>

(* stat(): "Stat failed", session.remove, ERR_UNKNOWN: the automaton calls  *)
(* quit()                                                                   *)
StatRemoves(t) ==
  /\ Goto(t, "lost", "quit")
  /\ Remove(t, key[t])
  /\ Given(key[t])
  /\ UNCHANGED <<key, state, stat>>

(* Fault: the thread ends without quit() *)
Fails_WithoutQuit(t) ==
  /\ Goto(t, "trans", "none")
  /\ state' = [state EXCEPT ![t] = Null]
  /\ stat' = [stat EXCEPT ![t] = FALSE]
  /\ mine' = [mine EXCEPT ![t] = FALSE]
  /\ UNCHANGED <<storeVars, key>>

(* A command or quit_update() fails, or the client's connection does: the   *)
(* automaton calls quit()                                                   *)
Fails(t) ==
  /\ Goto(t, "trans", "quit")
  /\ UNCHANGED <<storeVars, key, state, stat, mine>>

(* quit_update(): the messages are deleted on the website, then             *)
(* session.save with OVERWRITE.  The browser may hold other cookies by now. *)
Save(t) ==
  /\ pc[t] = "trans"
  /\ stat[t]
  /\ \E d \in Data : SaveAdd(t, key[t], d, TRUE)
  /\ pc' = [pc EXCEPT ![t] = IF call'[t] = NoCall THEN "unlock" ELSE "filling"]
  /\ UNCHANGED <<key, state, stat, mine>>

SaveDone(t) ==
  /\ Goto(t, "filling", "unlock")
  /\ SaveFill(t)
  /\ UNCHANGED <<key, state, stat, mine>>

(* quit() after a failure, quit_update() after the save: session.unlock.    *)
(* The thread ends, its Lua state is closed, another client may come.       *)
Release(t) ==
  /\ \/ Goto(t, "quit", "none")
     \/ Goto(t, "unlock", "none")
  /\ Unlock(t, key[t])
  /\ Given(key[t])
  /\ state' = [state EXCEPT ![t] = Null]
  /\ stat' = [stat EXCEPT ![t] = FALSE]
  /\ UNCHANGED key

Step(t) ==
  \/ Start(t) \/ PassLoad(t) \/ PassLoaded(t) \/ Login(t) \/ LoginFails(t)
  \/ StatOk(t) \/ StatExpired(t) \/ Relogin(t) \/ ReloginFails(t)
  \/ StatFails(t) \/ StatRemoves(t) \/ Fails(t) \/ Save(t) \/ SaveDone(t)
  \/ Release(t)

Next == \E t \in Thread : Step(t)

Spec == Init /\ [][Next]_vars

-----------------------------------------------------------------------------
(* Properties *)

(* No account stays locked for good: a locked session is one that a POP3    *)
(* session on the account will still unlock, be it refused, failing or      *)
(* quitting (libero.lua:373, 435).                                          *)
NoStuckLock ==
  \A k \in Key :
    dict[k] # Null /\ used[dict[k]] = 1 =>
      \E t \in Thread : key[t] = k /\ pc[t] \notin {"none", "pass"}

(* A lock that load_lock has given keeps every other POP3 session out until  *)
(* the account is unlocked or its session removed, whoever does so           *)
(* (libero.lua:337-346): no save and no second load_lock gets past it.       *)
LockKeepsOut ==
  \A t \in Thread : mine[t] =>
    /\ dict[key[t]] # Null /\ used[dict[key[t]]] = 1
    /\ \A u \in Thread \ {t} : mine[u] => key[u] # key[t]
=============================================================================
