----------------------------- MODULE PopSession -----------------------------
(***************************************************************************)
(* One POP3 session: the automaton of the server                           *)
(* (modules/src/pop3server/popserver.c), the calls it makes through        *)
(* src/engine.c, the mailbox it keeps in popstate.c and a plugin built on  *)
(* modules/src/commonimpl_lua/common.lua, as the webmail plugins are       *)
(* (src/lua/libero.lua).  One thread serves the session, so a command is   *)
(* one step: received, executed by the plugin, answered.                   *)
(***************************************************************************)
EXTENDS Integers

CONSTANTS
  MaxMsg,     \* bound: the largest mailbox the website shows
  MaxErrors   \* MAX_ERRORS_ACCEPTED

ASSUME Bounds == MaxMsg \in Nat \ {0} /\ MaxErrors \in Nat

VARIABLES
  st,      \* state of pop3_thread, DONE once the thread is over
  errs,    \* error_counter
  sock,    \* error_occurred of the client's socket: its connection is lost
  lua,     \* p->other: none, null (its Lua state is NULL) or up
  box,     \* p->msg_list and the plugin's stat_done
  gone,    \* messages the website has removed
  told,    \* has the plugin been told, by quit or quit_update, of the end?
  ok,      \* this session's contribution to the statistics session_ok
  err      \* and to session_err

vars == <<st, errs, sock, lua, box, gone, told, ok, err>>

-----------------------------------------------------------------------------
(* Values *)

Message == 1 .. MaxMsg
Number  == 0 .. MaxMsg + 1   \* message numbers clients send

Rc        == {"OK", "SYNTAX", "NETWORK", "AUTH", "INTERNAL", "NOMSG", "LOCKED",
              "EOF", "TOOFAST", "UNKNOWN"}
PluginErr == {"NETWORK", "AUTH", "LOCKED", "UNKNOWN"}   \* what plugins fail with

(* Fault: the table lets a session go on after an unknown error *)
ErrState_Lenient(rc) == IF rc \in {"SYNTAX", "NOMSG", "UNKNOWN"} THEN "LAST" ELSE "ERR"

(* POPSERVER_ERR_STA: the state an error leads to, LAST being the same state *)
ErrState(rc) == IF rc \in {"SYNTAX", "NOMSG"} THEN "LAST" ELSE "ERR"

Box == [num : -1 .. MaxMsg, flag : SUBSET Message, done : BOOLEAN]

TypeOK ==
  /\ st \in {"AUTH", "TRANS", "ERR", "END", "DONE"}
  /\ errs \in 0 .. MaxErrors
  /\ sock \in BOOLEAN
  /\ lua \in {"none", "null", "up"}
  /\ box \in Box
  /\ box.flag \subseteq 1 .. box.num
  /\ gone \subseteq Message
  /\ told \in BOOLEAN
  /\ ok \in 0 .. 1
  /\ err \in 0 .. 2

(* popserver_start: new_popstate_t; pop3_thread: the greeting is sent *)
Init ==
  /\ st = "AUTH"
  /\ errs = 0
  /\ sock \in BOOLEAN
  /\ lua = "none"
  /\ box = [num |-> -1, flag |-> {}, done |-> FALSE]
  /\ gone = {}
  /\ told = FALSE
  /\ ok = 0
  /\ err = 0

-----------------------------------------------------------------------------
(* The answer: send_result_simple, send_result_multiline, send_unsupported, *)
(* send_wrong_syntax.  Sending may fail.                                    *)

Sent == sock' \in {sock, TRUE}

(* Fault: session_err is not counted *)
Go_Uncounted(next) == st' = (IF next = "LAST" THEN st ELSE next) /\ UNCHANGED err

(* The state after a command: LAST stands for the current state.  An error  *)
(* state is counted in session_err.                                         *)
Go(next) ==
  /\ st' = IF next = "LAST" THEN st ELSE next
  /\ err' = IF next = "ERR" THEN err + 1 ELSE err

Result(rc, next) ==
  /\ Go(IF rc = "OK" THEN next ELSE ErrState(rc))
  /\ Sent

Refuse(next) ==
  /\ Go(next)
  /\ Sent

Reads(s) == st = s /\ ~sock   \* a command has been received

Rest(v) == UNCHANGED <<errs, ok>> /\ UNCHANGED v

-----------------------------------------------------------------------------
(* The plugin *)

(* stat(): reads the list of messages once.  A failure ends the session, so *)
(* the part of the list it had read does not matter.                        *)
StatCall ==
  IF box.done
    THEN {[rc |-> "OK", box |-> box]}
    ELSE {[rc |-> "OK", box |-> [num |-> n, flag |-> {}, done |-> TRUE]] : n \in 0 .. MaxMsg}
         \cup {[rc |-> e, box |-> box] : e \in PluginErr}

(* Fault: failures are not looked at *)
UpdateCall_Unchecked(marked) == [rc : {"OK"}, gone : {{}, marked}]

(* quit_update() on the website after a stat(): posts the marked messages,  *)
(* if any, and may get no answer or fail to empty the trash                 *)
UpdateCall(marked) ==
  {[rc |-> "OK", gone |-> marked]}
  \cup {[rc |-> "UNKNOWN", gone |-> g] : g \in IF marked = {} THEN {} ELSE {{}, marked}}

(* f->quit: the plugin's quit() if there is a Lua state *)
Quit == told' = (told \/ lua = "up")

-----------------------------------------------------------------------------
(* pop3_POPSTATE_AUTH *)

AuthQuit ==
  /\ Reads("AUTH")
  /\ Quit
  /\ Result("OK", "END")
  /\ Rest(<<lua, box, gone>>)

(* freepops_pass: without a USER before it, a syntax error *)
Pass ==
  /\ Reads("AUTH")
  /\ \E rc \in IF lua = "none" THEN {"SYNTAX"} ELSE PluginErr \cup {"OK"} :
       Result(rc, "TRANS")
  /\ Rest(<<lua, box, gone, told>>)

(* freepops_user: a new Lua state takes the place of the one an earlier     *)
(* USER made.  Bootstrapping may fail, the plugin's user() too.             *)
User ==
  /\ Reads("AUTH")
  /\ \/ /\ lua' = "null"
        /\ Result("UNKNOWN", "AUTH")
     \/ /\ lua' = "up"
        /\ \E rc \in PluginErr \cup {"OK"} : Result(rc, "AUTH")
  /\ Rest(<<box, gone, told>>)

(* USER or PASS without a parameter *)
AuthWrongSyntax ==
  /\ Reads("AUTH")
  /\ Refuse("ERR")
  /\ Rest(<<lua, box, gone, told>>)

(* RETR, TOP or DELE without a parameter (a TOP without any is refused      *)
(* twice)                                                                   *)
TransWrongSyntax ==
  /\ Reads("TRANS")
  /\ Refuse("ERR")
  /\ Rest(<<lua, box, gone, told>>)

(* CAPA, and AUTH, XSENDER, LAST, which are not supported *)
Fixed ==
  /\ Reads("AUTH") \/ Reads("TRANS")
  /\ \/ Result("OK", st)
     \/ Refuse(st)
  /\ Rest(<<lua, box, gone, told>>)

(* Fault: the counter runs past the limit *)
Unknown_KeepsCounting ==
  /\ Reads("AUTH") \/ Reads("TRANS")
  /\ Refuse(IF errs < MaxErrors THEN "LAST" ELSE "ERR")
  /\ errs' = errs + 1
  /\ UNCHANGED <<lua, box, gone, told, ok>>

(* Anything else is forgiven MAX_ERRORS_ACCEPTED times *)
Unknown ==
  /\ Reads("AUTH") \/ Reads("TRANS")
  /\ Refuse(IF errs < MaxErrors THEN "LAST" ELSE "ERR")
  /\ errs' = IF errs < MaxErrors THEN errs + 1 ELSE errs
  /\ UNCHANGED <<lua, box, gone, told, ok>>

-----------------------------------------------------------------------------
(* pop3_POPSTATE_TRANS *)

(* freepops_stat, and LIST and UIDL of all messages *)
Stat ==
  /\ Reads("TRANS")
  /\ \E r \in StatCall :
       /\ box' = r.box
       /\ Result(r.rc, "TRANS")
  /\ Rest(<<lua, gone, told>>)

(* LIST n and UIDL n: a marked message is refused before the plugin is asked *)
ListOne(n) ==
  /\ Reads("TRANS")
  /\ IF n \in box.flag
       THEN /\ UNCHANGED box
            /\ Result("NOMSG", "TRANS")
       ELSE \E r \in StatCall :
              /\ box' = r.box
              /\ Result(IF r.rc = "OK" /\ n \notin 1 .. r.box.num THEN "NOMSG" ELSE r.rc, "TRANS")
  /\ Rest(<<lua, gone, told>>)

(* send_result_callback: +OK is sent, then the plugin is asked for the      *)
(* message, then "." is sent whatever it answered.  The website may give    *)
(* less than the whole message; a number out of range makes the plugin fail.*)
Deliver(n) ==
  /\ Reads("TRANS")
  /\ Sent
  /\ \/ /\ sock'
        /\ Go("ERR")
        /\ UNCHANGED box
     \/ \E r \in IF n \in box.flag THEN {[rc |-> "NOMSG", box |-> box]} ELSE StatCall :
        \E rc \in IF r.rc # "OK" THEN {r.rc}
                  ELSE IF n \notin 1 .. r.box.num THEN {"NOMSG", "UNKNOWN"}
                  ELSE {"OK", "NETWORK", "UNKNOWN"} :
          /\ box' = r.box
          /\ Go(IF rc # "OK" THEN ErrState(rc) ELSE IF sock' THEN "ERR" ELSE "TRANS")
  /\ Rest(<<lua, gone, told>>)

(* common.lua: dele *)
Dele(n) ==
  /\ Reads("TRANS")
  /\ \E r \in StatCall :
       IF r.rc = "OK" /\ n \in 1 .. r.box.num
         THEN /\ box' = [r.box EXCEPT !.flag = @ \cup {n}]
              /\ Result("OK", "TRANS")
         ELSE /\ box' = r.box
              /\ Result(IF r.rc = "OK" THEN "NOMSG" ELSE r.rc, "TRANS")
  /\ Rest(<<lua, gone, told>>)

(* common.lua: rset *)
Rset ==
  /\ Reads("TRANS")
  /\ \E r \in StatCall :
       /\ box' = IF r.rc = "OK" THEN [r.box EXCEPT !.flag = {}] ELSE r.box
       /\ Result(r.rc, "TRANS")
  /\ Rest(<<lua, gone, told>>)

(* common.lua: noop *)
Noop ==
  /\ Reads("TRANS")
  /\ Result("OK", "TRANS")
  /\ Rest(<<lua, box, gone, told>>)

(* QUIT: quit_update *)
TransQuit ==
  /\ Reads("TRANS")
  /\ \E r \in StatCall :
       /\ box' = r.box
       /\ IF r.rc # "OK"
            THEN /\ Result(r.rc, "END")
                 /\ UNCHANGED <<gone, told>>
            ELSE \E u \in UpdateCall(r.box.flag) :
                   /\ gone' = u.gone
                   /\ told' = (u.rc = "OK")
                   /\ Result(u.rc, "END")
  /\ Rest(<<lua>>)

-----------------------------------------------------------------------------
(* pop3_thread *)

(* Nothing arrives for POPSERVER_NOOP_TIMEOUT seconds, or the client is gone *)
ReceiveFails ==
  /\ Reads("AUTH") \/ Reads("TRANS")
  /\ sock' = TRUE
  /\ UNCHANGED <<st, errs, lua, box, gone, told, ok, err>>

(* Fault: quit is left to the ERR state *)
NetworkError_NoQuit ==
  /\ sock
  /\ st # "DONE"
  /\ st' = "DONE"
  /\ err' = err + 1
  /\ UNCHANGED <<sock, lua, box, gone, told, errs, ok>>

NetworkError ==
  /\ sock
  /\ st # "DONE"
  /\ IF st = "END" THEN UNCHANGED told ELSE Quit
  /\ st' = "DONE"
  /\ err' = err + 1
  /\ UNCHANGED <<sock, lua, box, gone, errs, ok>>

(* Fault: stop is not set *)
StateErr_NoStop ==
  /\ Reads("ERR")
  /\ Quit
  /\ UNCHANGED <<st, sock, lua, box, gone, err, errs, ok>>

StateErr ==
  /\ Reads("ERR")
  /\ Quit
  /\ st' = "DONE"
  /\ UNCHANGED <<sock, lua, box, gone, err, errs, ok>>

StateEnd ==
  /\ Reads("END")
  /\ st' = "DONE"
  /\ ok' = ok + 1
  /\ UNCHANGED <<sock, lua, box, gone, told, err, errs>>

Command ==
  \/ AuthQuit \/ Pass \/ User \/ AuthWrongSyntax
  \/ Fixed \/ Unknown \/ TransWrongSyntax
  \/ Stat \/ Rset \/ Noop \/ TransQuit
  \/ \E n \in Number : ListOne(n) \/ Dele(n) \/ Deliver(n)

Loop == NetworkError \/ StateErr \/ StateEnd

Next == Command \/ ReceiveFails \/ Loop

Spec == Init /\ [][Next]_vars

(* The thread runs when it has something to do, and a receive that gets no  *)
(* command ends after POPSERVER_NOOP_TIMEOUT: something happens in the end, *)
(* though no client has to send anything.                                   *)
FairSpec == Spec /\ WF_vars(Next)

-----------------------------------------------------------------------------
(* Properties *)

(* The engine calls into p->other->l without a test in every command of the *)
(* TRANSACTION state and in PASS (engine.c:259, 279-446): a Lua state that  *)
(* could not be bootstrapped never gets that far.                           *)
LuaReady ==
  /\ st = "TRANS" => lua = "up"
  /\ st = "AUTH" => lua # "null"

(* However the session ends, a plugin that was started has been told, so    *)
(* that it unlocks the webmail session it resumed (popserver.c:773-774,     *)
(* 793; libero.lua:372-375, 435).                                           *)
PluginTold == st = "DONE" /\ lua = "up" => told

(* Every session that is over is in the statistics, as good (popserver.c:   *)
(* 804) or as bad, and not as both.  A bad one may be there twice: counted   *)
(* by the state it fails in (506, 744), and again when its connection is   *)
(* lost with the answer (777).                                             *)
SessionCounted == st = "DONE" => (ok = 1) # (err > 0)

(* Messages are removed from the mailbox, or not, as Maildrop promises: a   *)
(* session in the END state has had its QUIT answered +OK.                  *)
Phase == CASE st = "AUTH"  -> "AUTHORIZATION"
           [] st = "TRANS" -> "TRANSACTION"
           [] st = "END"   -> "UPDATE"
           [] OTHER        -> "CLOSED"

Drop == INSTANCE Maildrop WITH phase <- Phase, marks <- box.flag

RefinesMaildrop == Drop!Spec

(* A session whose client falls silent, goes away or has been answered an   *)
(* error ends, and gives back its thread: it does not end only as long as   *)
(* commands keep coming.                                                    *)
EndsUnlessServing == []<><<Command>>_vars \/ <>(st = "DONE")
=============================================================================
