-------------------------- MODULE PopSession_proofs --------------------------
(***************************************************************************)
(* One POP3 session, for mailboxes of any size and any number of forgiven   *)
(* errors: the invariants the runs check, and the refinement of Maildrop.   *)
(***************************************************************************)
EXTENDS PopSession, TLAPS

(* What is known of the mailbox: nothing is marked before the list has been *)
(* read, nor before the login, and nothing removed before QUIT              *)
BoxKept ==
  /\ ~box.done => box.flag = {}
  /\ st = "AUTH" => box.flag = {} /\ ~box.done
  /\ st \in {"AUTH", "TRANS"} => gone = {}

(* Where the statistics and the plugin's notice are while the session runs  *)
Books ==
  /\ st \in {"AUTH", "TRANS", "END"} => err = 0
  /\ st = "ERR" => err = 1
  /\ st # "DONE" => ok = 0
  /\ st = "END" /\ lua = "up" => told

SessionInv == TypeOK /\ LuaReady /\ PluginTold /\ SessionCounted /\ BoxKept /\ Books

LEMMA SessionInvInit == Init => SessionInv
<1> SUFFICES ASSUME Init PROVE SessionInv OBVIOUS
<1>1. box \in Box /\ box.flag = {} /\ ~box.done
  BY Bounds DEF Init, Box
<1>2. TypeOK
  <2>1. st = "AUTH" /\ sock \in BOOLEAN /\ lua = "none" /\ gone = {} /\ told = FALSE
    BY DEF Init
  <2>2. errs \in 0 .. MaxErrors /\ ok \in 0 .. 1 /\ err \in 0 .. 2
    BY Bounds DEF Init
  <2>3. box.flag \subseteq 1 .. box.num /\ gone \subseteq Message
    BY <1>1, <2>1
  <2> QED
    BY <1>1, <2>1, <2>2, <2>3 DEF TypeOK
<1> QED
  BY <1>1, <1>2 DEF Init, SessionInv, LuaReady, PluginTold, SessionCounted, BoxKept, Books

(* stat() gives the list there was, or one without marks where there was    *)
(* none, or fails and leaves things as they were                            *)
LEMMA StatCallKeeps ==
  ASSUME SessionInv, NEW r \in StatCall
  PROVE  /\ r.box \in Box /\ r.box.flag \subseteq 1 .. r.box.num
         /\ r.box.flag = box.flag
         /\ ~r.box.done => r.box.flag = {}
         /\ r.rc = "OK" \/ (r.rc \in PluginErr /\ r.box = box)
<1>1. box \in Box /\ box.flag \subseteq 1 .. box.num /\ (~box.done => box.flag = {})
  BY DEF SessionInv, TypeOK, BoxKept
<1>2. CASE box.done
  BY <1>1, <1>2 DEF StatCall
<1>3. CASE ~box.done /\ r \in {[rc |-> e, box |-> box] : e \in PluginErr}
  BY <1>1, <1>3
<1>4. CASE ~box.done /\ r \in {[rc |-> "OK", box |-> [num |-> n, flag |-> {}, done |-> TRUE]] : n \in 0 .. MaxMsg}
  <2>1. PICK n \in 0 .. MaxMsg : r = [rc |-> "OK", box |-> [num |-> n, flag |-> {}, done |-> TRUE]]
    BY <1>4
  <2>2. [num |-> n, flag |-> {}, done |-> TRUE] \in Box
    BY Bounds DEF Box
  <2> QED BY <1>1, <1>4, <2>1, <2>2
<1> QED BY <1>2, <1>3, <1>4 DEF StatCall

(* A command that leaves mailbox and plugin alone, or goes on to an error    *)
LEMMA GoKeeps ==
  ASSUME SessionInv, st \in {"AUTH", "TRANS"},
         NEW next \in {"LAST", "AUTH", "TRANS", "ERR", "END"}, Go(next)
  PROVE  /\ st' = IF next = "LAST" THEN st ELSE next
         /\ err' = IF next = "ERR" THEN 1 ELSE 0
BY DEF Go, SessionInv, TypeOK, Books

LEMMA ResultKeeps ==
  ASSUME SessionInv, st \in {"AUTH", "TRANS"}, NEW rc \in Rc,
         NEW next \in {"AUTH", "TRANS", "END"}, Result(rc, next)
  PROVE  /\ st' = IF rc = "OK" THEN next ELSE IF rc \in {"SYNTAX", "NOMSG"} THEN st ELSE "ERR"
         /\ err' = IF st' = "ERR" THEN 1 ELSE 0
         /\ sock' \in BOOLEAN
<1>1. sock' \in BOOLEAN
  BY DEF Result, Sent, SessionInv, TypeOK
<1>2. (IF rc = "OK" THEN next ELSE ErrState(rc)) \in {"LAST", "AUTH", "TRANS", "ERR", "END"}
  BY DEF ErrState
<1> QED BY <1>1, <1>2, GoKeeps DEF Result, ErrState

-----------------------------------------------------------------------------
(* What a step does, as far as the invariant and Maildrop can tell           *)

Mailbox == box' \in Box /\ box'.flag \subseteq 1 .. box'.num /\ (~box'.done => box'.flag = {})

Counted == errs' \in 0 .. MaxErrors /\ sock' \in BOOLEAN /\ err' = (IF st' = "ERR" THEN 1 ELSE 0) /\ ok' = ok

(* A command before the login.  A Lua state that could not be made is the    *)
(* end of the session.                                                       *)
AuthStep ==
  /\ st = "AUTH" /\ Counted /\ UNCHANGED <<box, gone>>
  /\ \/ st' \in {"AUTH", "ERR"} /\ lua' = lua /\ told' = told
     \/ st' = "TRANS" /\ lua' = lua /\ lua # "none" /\ told' = told
     \/ st' = "END" /\ lua' = lua /\ told' = (told \/ lua = "up")
     \/ st' = "ERR" /\ lua' = "null" /\ told' = told
     \/ st' \in {"AUTH", "ERR"} /\ lua' = "up" /\ told' = told

(* A command after it: marks change only while the session stays where it is *)
TransStep ==
  /\ st = "TRANS" /\ Counted /\ Mailbox /\ lua' = lua
  /\ \/ /\ st' \in {"TRANS", "ERR"} /\ told' = told /\ gone' = gone
        /\ \/ box'.flag = box.flag
           \/ st' = "TRANS" /\ \E n \in Message : box'.flag = box.flag \cup {n}
           \/ st' = "TRANS" /\ box'.flag = {}
     \/ st' = "END" /\ told' = TRUE /\ box'.flag = box.flag /\ gone' = box.flag
     \/ st' = "ERR" /\ told' \in BOOLEAN /\ box'.flag = box.flag /\ gone' \in SUBSET box.flag

LEMMA AuthStepKeeps ==
  ASSUME SessionInv, AuthStep
  PROVE  SessionInv' /\ [Drop!Next]_(Drop!vars)
<1>1. TypeOK'
  <2>1. st' \in {"AUTH", "TRANS", "ERR", "END", "DONE"} /\ lua' \in {"none", "null", "up"} /\ sock' \in BOOLEAN
    BY DEF SessionInv, TypeOK, AuthStep, Counted
  <2>2. errs' \in 0 .. MaxErrors /\ ok' \in 0 .. 1 /\ err' \in 0 .. 2
    BY DEF SessionInv, TypeOK, AuthStep, Counted
  <2>3. box' \in Box /\ box'.flag \subseteq 1 .. box'.num /\ gone' \subseteq Message
    BY DEF SessionInv, TypeOK, AuthStep
  <2>4. told' \in BOOLEAN
    BY Zenon DEF SessionInv, TypeOK, AuthStep
  <2> QED BY <2>1, <2>2, <2>3, <2>4 DEF TypeOK, Box, Message
<1>2. LuaReady' /\ PluginTold' /\ SessionCounted'
  BY DEF SessionInv, TypeOK, AuthStep, Counted, LuaReady, PluginTold, SessionCounted
<1>3. BoxKept' /\ Books'
  BY DEF SessionInv, TypeOK, AuthStep, Counted, BoxKept, Books, LuaReady
<1>4. [Drop!Next]_(Drop!vars)
  <2>1. Phase = "AUTHORIZATION" /\ box.flag = {} /\ gone = {} /\ UNCHANGED <<box, gone>>
    BY DEF AuthStep, SessionInv, BoxKept, Phase
  <2>2. Phase' \in {"AUTHORIZATION", "TRANSACTION", "UPDATE", "CLOSED"}
    BY DEF Phase
  <2>3. CASE Phase' = "AUTHORIZATION"
    BY <2>1, <2>3 DEF Drop!vars
  <2>4. CASE Phase' = "TRANSACTION"
    BY <2>1, <2>4 DEF Drop!Next, Drop!Login
  <2>5. CASE Phase' = "UPDATE"
    BY <2>1, <2>5 DEF Drop!Next, Drop!Quit
  <2>6. CASE Phase' = "CLOSED"
    BY <2>1, <2>6 DEF Drop!Next, Drop!Close
  <2> QED BY <2>2, <2>3, <2>4, <2>5, <2>6
<1> QED BY <1>1, <1>2, <1>3, <1>4 DEF SessionInv

LEMMA TransStepKeeps ==
  ASSUME SessionInv, TransStep
  PROVE  SessionInv' /\ [Drop!Next]_(Drop!vars)
<1>1. TypeOK'
  <2>1. box.flag \subseteq Message
    BY DEF SessionInv, TypeOK, Box
  <2>2. gone' \subseteq Message
    BY <2>1 DEF TransStep, SessionInv, TypeOK
  <2>3. st' \in {"AUTH", "TRANS", "ERR", "END", "DONE"} /\ lua' \in {"none", "null", "up"} /\ sock' \in BOOLEAN
    BY DEF SessionInv, TypeOK, TransStep, Counted
  <2>4. errs' \in 0 .. MaxErrors /\ ok' \in 0 .. 1 /\ err' \in 0 .. 2
    BY DEF SessionInv, TypeOK, TransStep, Counted
  <2>5. told' \in BOOLEAN
    BY Zenon DEF SessionInv, TypeOK, TransStep
  <2> QED BY <2>2, <2>3, <2>4, <2>5 DEF TransStep, Mailbox, TypeOK, Box, Message
<1>2. LuaReady' /\ PluginTold' /\ SessionCounted'
  BY DEF SessionInv, TypeOK, TransStep, Counted, LuaReady, PluginTold, SessionCounted
<1>3. BoxKept' /\ Books'
  BY DEF SessionInv, TypeOK, TransStep, Counted, Mailbox, BoxKept, Books, LuaReady
<1>4. [Drop!Next]_(Drop!vars)
  <2>1. Phase = "TRANSACTION" /\ gone = {}
    BY DEF TransStep, SessionInv, BoxKept, Phase
  <2>2. CASE st' \in {"TRANS", "ERR"} /\ gone' = gone /\ box'.flag = box.flag
    <3>1. Phase' = (IF st' = "TRANS" THEN "TRANSACTION" ELSE "CLOSED")
      BY <2>2 DEF Phase
    <3> QED BY <2>1, <2>2, <3>1 DEF Drop!Next, Drop!Close, Drop!vars
  <2>3. CASE st' = "TRANS" /\ gone' = gone /\ \E n \in Message : box'.flag = box.flag \cup {n}
    <3>1. Phase' = "TRANSACTION"
      BY <2>3 DEF Phase
    <3> QED BY <2>1, <2>3, <3>1 DEF Drop!Next, Drop!Dele
  <2>4. CASE st' = "TRANS" /\ gone' = gone /\ box'.flag = {}
    <3>1. Phase' = "TRANSACTION"
      BY <2>4 DEF Phase
    <3> QED BY <2>1, <2>4, <3>1 DEF Drop!Next, Drop!Rset
  <2>5. CASE st' = "END" /\ box'.flag = box.flag /\ gone' = box.flag
    <3>1. Phase' = "UPDATE"
      BY <2>5 DEF Phase
    <3> QED BY <2>1, <2>5, <3>1 DEF Drop!Next, Drop!Quit
  <2>6. CASE st' = "ERR" /\ box'.flag = box.flag /\ gone' \in SUBSET box.flag
    <3>1. Phase' = "CLOSED"
      BY <2>6 DEF Phase
    <3> QED BY <2>1, <2>6, <3>1 DEF Drop!Next, Drop!QuitFails
  <2> QED BY <2>2, <2>3, <2>4, <2>5, <2>6 DEF TransStep
<1> QED BY <1>1, <1>2, <1>3, <1>4 DEF SessionInv

-----------------------------------------------------------------------------
(* Every command is one of these steps                                       *)

(* What StatCallKeeps says of a result is what Mailbox asks for              *)
LEMMA MailboxFromStat ==
  ASSUME SessionInv, NEW r \in StatCall, box' = r.box
  PROVE  Mailbox /\ box'.flag = box.flag
BY StatCallKeeps DEF Mailbox

LEMMA SameMailbox ==
  ASSUME SessionInv, box' = box
  PROVE  Mailbox /\ box'.flag = box.flag
BY DEF SessionInv, TypeOK, BoxKept, Mailbox

(* A command that leaves the marks alone and goes on, or ends the session    *)
LEMMA Served ==
  ASSUME SessionInv, st = "TRANS", Mailbox, box'.flag = box.flag,
         NEW rc \in Rc, Result(rc, "TRANS"), Rest(<<lua, gone, told>>)
  PROVE  TransStep
<1>1. st' \in {"TRANS", "ERR"} /\ err' = (IF st' = "ERR" THEN 1 ELSE 0) /\ sock' \in BOOLEAN
  BY ResultKeeps
<1>2. Counted /\ lua' = lua /\ told' = told /\ gone' = gone
  BY <1>1 DEF Counted, Rest, SessionInv, TypeOK
<1> QED BY <1>1, <1>2 DEF TransStep

(* The same for a command that is not understood                             *)
LEMMA Refused ==
  ASSUME SessionInv, st \in {"AUTH", "TRANS"}, NEW next \in {"LAST", "ERR", "AUTH", "TRANS"},
         next \in {"LAST", "ERR", st}, Refuse(next),
         errs' \in 0 .. MaxErrors, UNCHANGED <<lua, box, gone, told, ok>>
  PROVE  AuthStep \/ TransStep
<1>1. st' \in {st, "ERR"} /\ err' = (IF st' = "ERR" THEN 1 ELSE 0)
  BY GoKeeps DEF Refuse
<1>2. sock' \in BOOLEAN
  BY DEF Refuse, Sent, SessionInv, TypeOK
<1>3. Counted
  BY <1>1, <1>2 DEF Counted
<1> QED BY <1>1, <1>3, SameMailbox DEF AuthStep, TransStep

LEMMA AuthCommand ==
  ASSUME SessionInv, AuthQuit \/ Pass \/ User
  PROVE  AuthStep
<1>0. errs \in 0 .. MaxErrors
  BY DEF SessionInv, TypeOK
<1>1. CASE AuthQuit
  <2>1. st' = "END" /\ err' = 0 /\ sock' \in BOOLEAN
    BY <1>1, ResultKeeps DEF AuthQuit, Reads, Rc
  <2>2. Counted /\ UNCHANGED <<box, gone>> /\ lua' = lua
    BY <1>0, <1>1, <2>1 DEF AuthQuit, Rest, Counted
  <2>3. told' = (told \/ lua = "up")
    BY <1>1 DEF AuthQuit, Quit
  <2> QED BY <1>1, <2>1, <2>2, <2>3 DEF AuthQuit, Reads, AuthStep
<1>2. CASE Pass
  <2>1. PICK rc \in IF lua = "none" THEN {"SYNTAX"} ELSE PluginErr \cup {"OK"} : Result(rc, "TRANS")
    BY <1>2 DEF Pass
  <2>2. rc \in Rc /\ (rc = "OK" => lua # "none") /\ st = "AUTH"
    BY <1>2, <2>1 DEF Pass, Reads, PluginErr, Rc
  <2>3. st' = (IF rc = "OK" THEN "TRANS" ELSE IF rc \in {"SYNTAX", "NOMSG"} THEN st ELSE "ERR")
        /\ err' = (IF st' = "ERR" THEN 1 ELSE 0) /\ sock' \in BOOLEAN
    BY <2>1, <2>2, ResultKeeps
  <2>4. Counted /\ UNCHANGED <<box, gone>> /\ lua' = lua /\ told' = told
    BY <1>0, <1>2, <2>3 DEF Pass, Rest, Counted
  <2> QED BY <2>2, <2>3, <2>4 DEF AuthStep
<1>3. CASE User
  <2>1. PICK rc \in PluginErr \cup {"OK"} :
          Result(rc, "AUTH") /\ (lua' = "up" \/ (lua' = "null" /\ rc = "UNKNOWN"))
    BY <1>3 DEF User, PluginErr
  <2>2. rc \in Rc /\ rc \notin {"SYNTAX", "NOMSG"} /\ st = "AUTH"
    BY <1>3, <2>1 DEF User, Reads, PluginErr, Rc
  <2>3. st' = (IF rc = "OK" THEN "AUTH" ELSE "ERR")
        /\ err' = (IF st' = "ERR" THEN 1 ELSE 0) /\ sock' \in BOOLEAN
    BY <2>1, <2>2, ResultKeeps
  <2>4. Counted /\ UNCHANGED <<box, gone>> /\ told' = told
    BY <1>0, <1>3, <2>3 DEF User, Rest, Counted
  <2> QED BY <2>1, <2>2, <2>3, <2>4 DEF AuthStep
<1> QED BY <1>1, <1>2, <1>3

LEMMA SimpleCommand ==
  ASSUME SessionInv, AuthWrongSyntax \/ TransWrongSyntax \/ Fixed \/ Unknown
  PROVE  AuthStep \/ TransStep
<1>0. errs \in 0 .. MaxErrors
  BY DEF SessionInv, TypeOK
<1>1. CASE AuthWrongSyntax \/ TransWrongSyntax
  BY <1>0, <1>1, Refused DEF AuthWrongSyntax, TransWrongSyntax, Reads, Rest
<1>2. CASE Fixed
  <2>1. st \in {"AUTH", "TRANS"} /\ Refuse(st)
    BY <1>2 DEF Fixed, Reads, Result, Refuse
  <2> QED BY <1>0, <1>2, <2>1, Refused DEF Fixed, Rest
<1>3. CASE Unknown
  <2>1. errs' \in 0 .. MaxErrors
    BY <1>0, <1>3, Bounds DEF Unknown
  <2> QED BY <1>3, <2>1, Refused DEF Unknown, Reads
<1> QED BY <1>1, <1>2, <1>3

LEMMA ListCommand ==
  ASSUME SessionInv, Stat \/ Noop \/ \E n \in Number : ListOne(n)
  PROVE  TransStep
<1>1. CASE Stat
  <2>1. PICK r \in StatCall : box' = r.box /\ Result(r.rc, "TRANS")
    BY <1>1 DEF Stat
  <2>2. r.rc \in Rc
    BY StatCallKeeps DEF Rc, PluginErr
  <2> QED BY <1>1, <2>1, <2>2, MailboxFromStat, Served DEF Stat, Reads
<1>2. CASE Noop
  BY <1>2, SameMailbox, Served DEF Noop, Reads, Rest, Rc
<1>3. ASSUME NEW n \in Number, ListOne(n) PROVE TransStep
  <2>1. CASE n \in box.flag
    BY <1>3, <2>1, SameMailbox, Served DEF ListOne, Reads, Rc
  <2>2. CASE n \notin box.flag
    <3>1. PICK r \in StatCall :
            box' = r.box /\ Result(IF r.rc = "OK" /\ n \notin 1 .. r.box.num THEN "NOMSG" ELSE r.rc, "TRANS")
      BY <1>3, <2>2 DEF ListOne
    <3>2. r.rc \in Rc /\ "NOMSG" \in Rc
      BY StatCallKeeps DEF Rc, PluginErr
    <3> QED BY <1>3, <3>1, <3>2, MailboxFromStat, Served DEF ListOne, Reads
  <2> QED BY <2>1, <2>2
<1> QED BY <1>1, <1>2, <1>3

(* RETR and TOP answer before they ask the plugin, and may fail after that   *)
LEMMA DeliverCommand ==
  ASSUME SessionInv, NEW n \in Number, Deliver(n)
  PROVE  TransStep
<1>1. st = "TRANS" /\ sock' \in BOOLEAN /\ errs' \in 0 .. MaxErrors /\ ok' = ok
      /\ lua' = lua /\ gone' = gone /\ told' = told
  BY DEF Deliver, Reads, Rest, Sent, SessionInv, TypeOK
<1>2. Mailbox /\ box'.flag = box.flag /\ \E next \in {"LAST", "TRANS", "ERR"} : Go(next)
  <2>1. CASE Go("ERR") /\ UNCHANGED box
    BY <2>1, SameMailbox
  <2>2. CASE \E r \in IF n \in box.flag THEN {[rc |-> "NOMSG", box |-> box]} ELSE StatCall :
             \E rc \in IF r.rc # "OK" THEN {r.rc}
                       ELSE IF n \notin 1 .. r.box.num THEN {"NOMSG", "UNKNOWN"}
                       ELSE {"OK", "NETWORK", "UNKNOWN"} :
               /\ box' = r.box
               /\ Go(IF rc # "OK" THEN ErrState(rc) ELSE IF sock' THEN "ERR" ELSE "TRANS")
    <3>1. PICK r \in IF n \in box.flag THEN {[rc |-> "NOMSG", box |-> box]} ELSE StatCall :
            /\ box' = r.box
            /\ \E rc : Go(IF rc # "OK" THEN ErrState(rc) ELSE IF sock' THEN "ERR" ELSE "TRANS")
      BY <2>2
    <3>2. \E next \in {"LAST", "TRANS", "ERR"} : Go(next)
      BY <3>1 DEF ErrState
    <3>3. CASE n \in box.flag
      BY <3>1, <3>2, <3>3, SameMailbox
    <3>4. CASE n \notin box.flag
      BY <3>1, <3>2, <3>4, MailboxFromStat
    <3> QED BY <3>3, <3>4
  <2> QED BY <2>1, <2>2 DEF Deliver
<1>3. st' \in {"TRANS", "ERR"} /\ err' = (IF st' = "ERR" THEN 1 ELSE 0)
  BY <1>1, <1>2, GoKeeps
<1> QED BY <1>1, <1>2, <1>3 DEF TransStep, Counted

(* DELE adds a message of the mailbox to the marks and stays where it is     *)
LEMMA DeleCommand ==
  ASSUME SessionInv, NEW n \in Number, Dele(n)
  PROVE  TransStep
<1>1. st = "TRANS" /\ Rest(<<lua, gone, told>>)
  BY DEF Dele, Reads
<1>2. PICK r \in StatCall :
        IF r.rc = "OK" /\ n \in 1 .. r.box.num
          THEN /\ box' = [r.box EXCEPT !.flag = @ \cup {n}]
               /\ Result("OK", "TRANS")
          ELSE /\ box' = r.box
               /\ Result(IF r.rc = "OK" THEN "NOMSG" ELSE r.rc, "TRANS")
  BY DEF Dele
<1>3. CASE r.rc = "OK" /\ n \in 1 .. r.box.num
  <2>1. r.box \in Box /\ r.box.flag = box.flag /\ r.box.flag \subseteq 1 .. r.box.num /\ r.box.done
    <3>1. CASE box.done
      BY <3>1, StatCallKeeps DEF StatCall
    <3>2. CASE ~box.done
      BY <1>3, <3>2, StatCallKeeps DEF StatCall, PluginErr
    <3> QED BY <3>1, <3>2
  <2>2. n \in Message
    BY <1>3, <2>1, Bounds DEF Box, Message
  <2>3. box' \in Box /\ box'.num = r.box.num /\ box'.flag = box.flag \cup {n} /\ box'.done
    BY <1>2, <1>3, <2>1, <2>2 DEF Box
  <2>4. st' = "TRANS" /\ err' = 0 /\ sock' \in BOOLEAN
    BY <1>1, <1>2, <1>3, ResultKeeps DEF Rc
  <2>5. Mailbox
    BY <1>3, <2>1, <2>3 DEF Mailbox
  <2>6. Counted
    BY <1>1, <2>4 DEF Counted, Rest, SessionInv, TypeOK
  <2> QED BY <1>1, <2>2, <2>3, <2>4, <2>5, <2>6 DEF TransStep, Rest
<1>4. CASE ~(r.rc = "OK" /\ n \in 1 .. r.box.num)
  <2>1. box' = r.box /\ Result(IF r.rc = "OK" THEN "NOMSG" ELSE r.rc, "TRANS")
    BY <1>2, <1>4
  <2>2. r.rc \in Rc /\ "NOMSG" \in Rc
    BY StatCallKeeps DEF Rc, PluginErr
  <2> QED BY <1>1, <2>1, <2>2, MailboxFromStat, Served
<1> QED BY <1>3, <1>4

(* RSET takes all marks away, or fails and leaves them                       *)
LEMMA RsetCommand ==
  ASSUME SessionInv, Rset
  PROVE  TransStep
<1>1. st = "TRANS" /\ Rest(<<lua, gone, told>>)
  BY DEF Rset, Reads
<1>2. PICK r \in StatCall :
        /\ box' = IF r.rc = "OK" THEN [r.box EXCEPT !.flag = {}] ELSE r.box
        /\ Result(r.rc, "TRANS")
  BY DEF Rset
<1>3. r.rc \in Rc
  BY StatCallKeeps DEF Rc, PluginErr
<1>4. CASE r.rc = "OK"
  <2>1. box' \in Box /\ box'.flag = {}
    BY <1>2, <1>4, StatCallKeeps DEF Box
  <2>2. st' = "TRANS" /\ err' = 0 /\ sock' \in BOOLEAN
    BY <1>1, <1>2, <1>3, <1>4, ResultKeeps
  <2>3. Mailbox /\ Counted
    BY <1>1, <2>1, <2>2 DEF Mailbox, Counted, Rest, SessionInv, TypeOK
  <2> QED BY <1>1, <2>1, <2>2, <2>3 DEF TransStep, Rest
<1>5. CASE r.rc # "OK"
  BY <1>1, <1>2, <1>3, <1>5, MailboxFromStat, Served
<1> QED BY <1>4, <1>5

(* QUIT removes what is marked before it says so                             *)
LEMMA QuitCommand ==
  ASSUME SessionInv, TransQuit
  PROVE  TransStep
<1>1. st = "TRANS" /\ errs' = errs /\ ok' = ok /\ lua' = lua /\ gone = {}
  BY DEF TransQuit, Reads, Rest, SessionInv, BoxKept
<1>2. PICK r \in StatCall :
        /\ box' = r.box
        /\ IF r.rc # "OK"
             THEN /\ Result(r.rc, "END")
                  /\ UNCHANGED <<gone, told>>
             ELSE \E u \in UpdateCall(r.box.flag) :
                    /\ gone' = u.gone
                    /\ told' = (u.rc = "OK")
                    /\ Result(u.rc, "END")
  BY DEF TransQuit
<1>3. Mailbox /\ box'.flag = box.flag /\ r.box.flag = box.flag
  BY <1>2, MailboxFromStat
<1>4. errs' \in 0 .. MaxErrors
  BY <1>1 DEF SessionInv, TypeOK
<1>5. CASE r.rc # "OK"
  <2>1. r.rc \in Rc /\ r.rc \notin {"OK", "SYNTAX", "NOMSG"}
    BY <1>5, StatCallKeeps DEF Rc, PluginErr
  <2>2. st' = "ERR" /\ err' = 1 /\ sock' \in BOOLEAN
    BY <1>1, <1>2, <1>5, <2>1, ResultKeeps
  <2>3. gone' = {} /\ told' = told
    BY <1>1, <1>2, <1>5
  <2> QED BY <1>1, <1>3, <1>4, <2>2, <2>3 DEF TransStep, Counted
<1>6. CASE r.rc = "OK"
  <2>1. PICK u \in UpdateCall(box.flag) :
          gone' = u.gone /\ told' = (u.rc = "OK") /\ Result(u.rc, "END")
    BY <1>2, <1>3, <1>6
  <2>2. \/ u.rc = "OK" /\ u.gone = box.flag
        \/ u.rc = "UNKNOWN" /\ u.gone \in SUBSET box.flag
    BY <2>1 DEF UpdateCall
  <2>3. CASE u.rc = "OK" /\ u.gone = box.flag
    <3>1. st' = "END" /\ err' = 0 /\ sock' \in BOOLEAN
      BY <1>1, <2>1, <2>3, ResultKeeps DEF Rc
    <3>2. told' = TRUE /\ gone' = box.flag
      BY <2>1, <2>3
    <3> QED BY <1>1, <1>3, <1>4, <3>1, <3>2 DEF TransStep, Counted
  <2>4. CASE u.rc = "UNKNOWN" /\ u.gone \in SUBSET box.flag
    <3>1. st' = "ERR" /\ err' = 1 /\ sock' \in BOOLEAN
      BY <1>1, <2>1, <2>4, ResultKeeps DEF Rc
    <3>2. told' = FALSE /\ gone' \in SUBSET box.flag
      BY <2>1, <2>4
    <3> QED BY <1>1, <1>3, <1>4, <3>1, <3>2 DEF TransStep, Counted
  <2> QED BY <2>2, <2>3, <2>4
<1> QED BY <1>5, <1>6

-----------------------------------------------------------------------------
(* The loop of pop3_thread, and the whole step                               *)

LEMMA LoopKeeps ==
  ASSUME SessionInv, ReceiveFails \/ Loop
  PROVE  SessionInv' /\ [Drop!Next]_(Drop!vars)
<1>1. CASE ReceiveFails
  <2>1. SessionInv'
    BY <1>1 DEF ReceiveFails, SessionInv, TypeOK, LuaReady, PluginTold, SessionCounted, BoxKept, Books, Box, Message
  <2>2. UNCHANGED Drop!vars
    BY <1>1 DEF ReceiveFails, Drop!vars, Phase
  <2> QED BY <2>1, <2>2
<1>2. CASE Loop
  <2>1. st # "DONE" /\ st' = "DONE" /\ UNCHANGED <<sock, lua, box, gone, errs>>
    BY <1>2 DEF Loop, NetworkError, StateErr, StateEnd, Reads
  <2>2. /\ ok' \in 0 .. 1 /\ err' \in 0 .. 2 /\ SessionCounted'
    BY <1>2 DEF Loop, NetworkError, StateErr, StateEnd, Reads, SessionInv, TypeOK, Books, SessionCounted
  <2>3. told' \in BOOLEAN
    BY <1>2, Zenon DEF Loop, NetworkError, StateErr, StateEnd, Reads, Quit, SessionInv, TypeOK
  <2>4. PluginTold'
    BY <1>2 DEF Loop, NetworkError, StateErr, StateEnd, Reads, Quit, SessionInv, Books, PluginTold
  <2>5. LuaReady' /\ BoxKept' /\ Books'
    BY <2>1 DEF SessionInv, LuaReady, BoxKept, Books
  <2>6. TypeOK'
    BY <2>1, <2>2, <2>3 DEF SessionInv, TypeOK, Box, Message
  <2>7. Phase' = "CLOSED" /\ UNCHANGED <<box, gone>>
    BY <2>1 DEF Phase
  <2>8. [Drop!Next]_(Drop!vars)
    BY <2>7 DEF Drop!Next, Drop!Close, Drop!vars
  <2> QED BY <2>2, <2>4, <2>5, <2>6, <2>8 DEF SessionInv
<1> QED BY <1>1, <1>2

LEMMA StepKeeps == SessionInv /\ [Next]_vars => SessionInv' /\ [Drop!Next]_(Drop!vars)
<1> SUFFICES ASSUME SessionInv, [Next]_vars
             PROVE  SessionInv' /\ [Drop!Next]_(Drop!vars)
  OBVIOUS
<1>1. CASE Command
  <2>1. AuthStep \/ TransStep
    BY <1>1, AuthCommand, SimpleCommand, ListCommand, DeliverCommand, DeleCommand,
       RsetCommand, QuitCommand DEF Command
  <2> QED BY <2>1, AuthStepKeeps, TransStepKeeps
<1>2. CASE ReceiveFails \/ Loop
  BY <1>2, LoopKeeps
<1>3. CASE UNCHANGED vars
  <2>1. SessionInv'
    BY <1>3 DEF vars, SessionInv, TypeOK, LuaReady, PluginTold, SessionCounted, BoxKept, Books, Box, Message
  <2>2. UNCHANGED Drop!vars
    BY <1>3 DEF vars, Drop!vars, Phase
  <2> QED BY <2>1, <2>2
<1> QED BY <1>1, <1>2, <1>3 DEF Next

(* The strengthening, from which all that follows is read: the properties    *)
(* the runs check, what is known of the mailbox before it is read, and where *)
(* the books stand while the session runs (popserver.c, pop3_thread).        *)
THEOREM SessionInvariant == Spec => []SessionInv
<1>1. SessionInv /\ [Next]_vars => SessionInv'
  BY StepKeeps
<1> QED BY SessionInvInit, <1>1, PTL DEF Spec

(* Types, and the marks are messages of the mailbox (popstate.c,             *)
(* common.lua).                                                              *)
THEOREM TypeCorrect == Spec => []TypeOK
<1>1. SessionInv => TypeOK
  BY DEF SessionInv
<1> QED BY SessionInvariant, <1>1, PTL

(* The engine never calls into a Lua state it does not have (engine.c).      *)
THEOREM EngineIsReady == Spec => []LuaReady
<1>1. SessionInv => LuaReady
  BY DEF SessionInv
<1> QED BY SessionInvariant, <1>1, PTL

(* A plugin that was started is told of the end, however the session ends    *)
(* (popserver.c, pop3_thread).                                               *)
THEOREM PluginsAreTold == Spec => []PluginTold
<1>1. SessionInv => PluginTold
  BY DEF SessionInv
<1> QED BY SessionInvariant, <1>1, PTL

(* A session that is over is in the statistics, as good or as bad and not as *)
(* both (popserver.c, the calls of stats_lua).                               *)
THEOREM SessionsAreCounted == Spec => []SessionCounted
<1>1. SessionInv => SessionCounted
  BY DEF SessionInv
<1> QED BY SessionInvariant, <1>1, PTL

(* The session implements the mailbox RFC 1939 describes: messages go with   *)
(* a QUIT after the login, only marked ones, and all of them if it is        *)
(* answered +OK (popserver.c, common.lua, libero.lua).                       *)
THEOREM SessionRefinesMaildrop == Spec => RefinesMaildrop
<1>1. Init => Drop!Init
  BY DEF Init, Drop!Init, Phase
<1>2. SessionInv /\ [Next]_vars => [Drop!Next]_(Drop!vars)
  BY StepKeeps
<1> QED BY SessionInvariant, <1>1, <1>2, PTL DEF Spec, RefinesMaildrop, Drop!Spec
=============================================================================
