----------------------------- MODULE PopForward -----------------------------
(***************************************************************************)
(* A POP3 session served by the plugin that forwards it to another POP3    *)
(* server (src/lua/popforward.lua): the automaton of popserver.c, the      *)
(* plugin's commands and answers on its own connection (psock.lua), the    *)
(* number of messages popstate.c keeps, and the other server, with either  *)
(* connection lost at any point.                                           *)
(***************************************************************************)
EXTENDS Integers, FiniteSets, SequencesExt

CONSTANTS
  MaxMsg,    \* messages in the mailbox of the other server
  MaxLines,  \* lines of a message
  MaxCalls   \* bound: commands the client gives after USER

ASSUME Bounds == {MaxMsg, MaxLines, MaxCalls} \subseteq Nat

VARIABLES
  st,       \* state of pop3_thread, DONE once the thread is over
  lost,     \* the client's connection is lost
  calls,    \* commands the client has given
  acked,    \* messages whose DELE was answered +OK, and no RSET since
  asked,    \* messages the client gave a DELE for, and no answered RSET since
  quit,     \* has the client given QUIT, in the TRANSACTION state?
  reply,    \* the last answer: its status, was it the start of a message?
  call,     \* the command the plugin works on, "none" if it does not
  todo,     \* the commands it has still to give the other server for it
  pc,       \* send, status, lines: what single_line or f is waiting for
  pf,       \* pf_state, without what is never changed or read
  num,      \* p->num_msgs
  wild,     \* has popstate.c freed what is not an element of its list?
  link,     \* is the connection to the other server up?
  nsent,    \* commands given to the other server
  request,  \* what it has not read of them
  answer,   \* the lines it has answered and the plugin has not read
  remote    \* its state, its marks, the messages it has removed

client  == <<lost, calls, acked, asked, quit, reply>>
plugin  == <<call, todo, pc, pf, num, wild>>
other   == <<link, request, answer, remote>>
vars    == <<st, client, plugin, nsent, other>>

Message == 1 .. MaxMsg
Single  == {"USER", "PASS", "STAT", "RSET", "NOOP", "QUIT"}
OnMsg   == {"LIST_ONE", "RETR", "DELE"}
Command == [name : Single \cup {"LIST"}, msg : {0}] \cup [name : OnMsg, msg : Message]
None    == [name |-> "none", msg |-> 0]
Cmd(n)  == [name |-> n, msg |-> 0]

(* A line: the command it answers; +OK, -ERR, a line of a list or of a     *)
(* message, or "."; the number it holds                                    *)
Line == [to : Nat, text : {"+OK", "-ERR", "item", "."}, val : Nat]

TypeOK ==
  /\ st \in {"AUTH", "TRANS", "ERR", "END", "DONE", "ABORTED"}
  /\ lost \in BOOLEAN /\ quit \in BOOLEAN /\ wild \in BOOLEAN /\ link \in BOOLEAN
  /\ calls \in 0 .. MaxCalls
  /\ acked \subseteq asked /\ asked \subseteq Message
  /\ reply \in [status : {"+OK", "-ERR"}, cut : BOOLEAN]
  /\ call \in Command \cup {None}
  /\ todo \in Seq(Command)
  /\ pc \in {"idle", "send", "status", "lines"}
  /\ pf \in [up : BOOLEAN, stat_done : BOOLEAN, is_freepops : BOOLEAN, pipe : BOOLEAN]
  /\ num \in -1 .. MaxMsg
  /\ nsent \in Nat
  /\ request \in Seq(Command) /\ Len(request) <= 1
  /\ answer \in Seq(Line)
  /\ remote \in [st : {"AUTH", "TRANS", "CLOSED"}, marks : SUBSET Message, gone : SUBSET Message]
  /\ (call = None) = (pc = "idle")

Init ==
  /\ st = "AUTH"
  /\ lost = FALSE
  /\ calls = 0
  /\ acked = {} /\ asked = {}
  /\ quit = FALSE
  /\ reply = [status |-> "+OK", cut |-> FALSE]
  /\ call = None /\ todo = <<>> /\ pc = "idle"
  /\ pf \in [up : {FALSE}, stat_done : {FALSE}, is_freepops : BOOLEAN, pipe : BOOLEAN]
  /\ num = -1
  /\ wild = FALSE
  /\ link = FALSE
  /\ nsent = 0
  /\ request = <<>> /\ answer = <<>>
  /\ remote = [st |-> "CLOSED", marks |-> {}, gone |-> {}]

-----------------------------------------------------------------------------
(* The plugin begins on a command of the client's *)

(* Fault: STAT each time, what stat_done was brought in against             *)
EnsureStat_Always == <<Cmd("STAT")>>

(* ensure_stat *)
EnsureStat == IF pf.stat_done THEN <<>> ELSE <<Cmd("STAT")>>

(* Fault: rset returns what ensure_stat returned                           *)
Plan_RsetForgotten(c) ==
  IF c.name = "RSET" THEN <<Cmd("STAT")>>
  ELSE IF c.name \in {"LIST", "LIST_ONE"} THEN EnsureStat \o <<c>> ELSE <<c>>

(* The functions that begin with ensure_stat                               *)
Plan(c) == IF c.name \in {"LIST", "LIST_ONE", "RSET"} THEN EnsureStat \o <<c>> ELSE <<c>>

Begin(c) == pc = "idle" /\ pc' = "send" /\ call' = c /\ todo' = Plan(c)

(* USER: the plugin connects and reads the welcome.  A second USER starts   *)
(* the plugin anew (PopSession).                                           *)
User ==
  /\ st = "AUTH" /\ ~lost /\ ~pf.up
  /\ Begin(Cmd("USER"))
  /\ link' = TRUE
  /\ pf' = [pf EXCEPT !.up = TRUE]
  /\ remote' = [remote EXCEPT !.st = "AUTH"]
  /\ UNCHANGED <<st, client, num, wild, nsent, request, answer>>

(* Again and again, while the other server finds nothing but its syntax     *)
(* wrong                                                                   *)
Pass ==
  /\ st = "AUTH" /\ ~lost /\ pf.up
  /\ calls < MaxCalls
  /\ calls' = calls + 1
  /\ Begin(Cmd("PASS"))
  /\ UNCHANGED <<st, lost, acked, asked, quit, reply, pf, num, wild, nsent, other>>

(* A command of the TRANSACTION state; RETR stands for TOP as well, LIST for *)
(* UIDL                                                                    *)
Give ==
  /\ st = "TRANS" /\ ~lost
  /\ calls < MaxCalls
  /\ calls' = calls + 1
  /\ \E c \in Command :
       /\ c.name \notin {"USER", "PASS"}
       /\ Begin(c)
       /\ asked' = IF c.name = "DELE" THEN asked \cup {c.msg} ELSE asked
       /\ quit' = (c.name = "QUIT")
  /\ UNCHANGED <<st, lost, acked, reply, pf, num, wild, nsent, other>>

(* pop3_thread calls quit when the client's connection is lost and in the   *)
(* ERR state                                                               *)
Leave ==
  /\ st = "ERR" \/ (lost /\ st \in {"AUTH", "TRANS"})
  /\ Begin(Cmd("QUIT"))
  /\ st' = "ERR"
  /\ UNCHANGED <<client, pf, num, wild, nsent, other>>

-----------------------------------------------------------------------------
(* The answer to the client *)

(* POPSERVER_ERR_STA *)
ErrState(rc) == IF rc \in {"SYNTAX", "NOMSG"} THEN "LAST" ELSE "ERR"

(* The end of a stream is no error of a message                            *)
Next_st(rc) ==
  IF rc # "OK" /\ ~(rc = "EOF" /\ call.name = "RETR")
    THEN IF ErrState(rc) = "LAST" THEN st ELSE "ERR"
  ELSE CASE call.name = "PASS" -> "TRANS" [] call.name = "QUIT" -> "END" [] OTHER -> st

(* Some of the message may have been read, but not its end                 *)
Cut == /\ pc = "lines" /\ call.name = "RETR"
       /\ answer = <<>> \/ Head(answer).text # "."

(* The command is over: send_result_simple, send_result_multiline,         *)
(* send_result_callback (which has said +OK before), or quit, whose result  *)
(* nobody looks at                                                         *)
Finish(rc) ==
  /\ call' = None /\ todo' = <<>> /\ pc' = "idle"
  /\ IF st = "ERR"
       THEN st' = "DONE" /\ UNCHANGED <<reply, acked, asked>>
       ELSE /\ st' = Next_st(rc)
            /\ reply' = [status |-> IF rc = "OK" \/ call.name = "RETR" THEN "+OK" ELSE "-ERR",
                         cut    |-> Cut]
            /\ acked' = IF rc # "OK" THEN acked
                        ELSE CASE call.name = "DELE" -> acked \cup {call.msg}
                               [] call.name = "RSET" -> {}
                               [] OTHER -> acked
            /\ asked' = IF rc = "OK" /\ call.name = "RSET" THEN {} ELSE asked
  /\ UNCHANGED <<lost, calls, quit>>

(* single_line returns rc to the function that called it *)
Step(rc) ==
  IF rc = "OK" /\ Len(todo) > 1
    THEN /\ todo' = Tail(todo) /\ pc' = "send"
         /\ UNCHANGED <<st, client, call>>
    ELSE Finish(rc)

(* With a pipe the result of RETR is not looked at: what there is of the    *)
(* message goes through the filter, and OK is returned                     *)
Piped == pf.pipe /\ Head(todo).name = "RETR"
StepMessage(rc) ==
  IF Piped /\ rc # "OK"
    THEN /\ call' = None /\ todo' = <<>> /\ pc' = "idle"
         /\ reply' = [status |-> "+OK", cut |-> Cut]
         /\ UNCHANGED <<st, lost, calls, acked, asked, quit>>
    ELSE Step(rc)

-----------------------------------------------------------------------------
(* single_line *)

SizeError == Piped /\ Head(todo).msg > num

(* stat_done is set before the command is sent.  With a pipe RETR asks for *)
(* the size of the message first, an error if there is no such message.    *)
Send ==
  /\ pc = "send" /\ ~SizeError
  /\ pf' = [pf EXCEPT !.stat_done = @ \/ Head(todo).name = "STAT"]
  /\ pc' = "status"
  /\ nsent' = nsent + 1
  /\ request' = IF link THEN <<Head(todo)>> ELSE request
  /\ UNCHANGED <<st, client, call, todo, num, wild, link, answer, remote>>

SendFails ==
  /\ pc = "send" /\ ~SizeError
  /\ ~link
  /\ pf' = [pf EXCEPT !.stat_done = @ \/ Head(todo).name = "STAT"]
  /\ StepMessage("NETWORK")
  /\ UNCHANGED <<num, wild, nsent, other>>

SendNothing ==
  /\ pc = "send" /\ SizeError
  /\ Finish("UNKNOWN")
  /\ UNCHANGED <<pf, num, wild, nsent, other>>

Read == answer # <<>> /\ answer' = Tail(answer) /\ UNCHANGED <<link, request, remote>>

(* Anything but +OK: an error, also a line left over from an earlier        *)
(* command.  What a FreePOPs says is understood: UNKNOWN stands for the     *)
(* errors that end the session too.                                        *)
StatusErr ==
  /\ pc = "status"
  /\ Read
  /\ Head(answer).text # "+OK"
  /\ \E rc \in {"UNKNOWN", "SYNTAX", "NOMSG", "EOF"} :
       /\ rc # "UNKNOWN" => pf.is_freepops /\ Head(answer).text = "-ERR"
       /\ StepMessage(rc)
  /\ UNCHANGED <<pf, num, wild, nsent>>

(* recv returns nil: the answer is taken for -ERR *)
StatusNil ==
  /\ pc = "status"
  /\ ~link /\ answer = <<>>
  /\ StepMessage("UNKNOWN")
  /\ UNCHANGED <<pf, num, wild, nsent, other>>

(* A command with an answer of one line.  set_mailmessage_size of a message *)
(* popstate.c does not have raises a Lua error.                            *)
StatusOk ==
  /\ pc = "status"
  /\ Read
  /\ Head(answer).text = "+OK"
  /\ Head(todo).name \notin {"STAT", "LIST", "RETR"}
  /\ IF Head(todo).name = "LIST_ONE" /\ Head(answer).val > num THEN Finish("UNKNOWN") ELSE Step("OK")
  /\ UNCHANGED <<pf, num, wild, nsent>>

(* stat: set_popstate_nummesg.  A smaller number makes it free the pointer  *)
(* behind the last element, whatever there is, once for each message that  *)
(* is gone: the process is aborted, or goes on.                            *)
StatOk ==
  /\ pc = "status"
  /\ Read
  /\ Head(answer).text = "+OK"
  /\ Head(todo).name = "STAT"
  /\ num' = Head(answer).val
  /\ wild' = (wild \/ Head(answer).val < num)
  /\ \/ Step("OK")
     \/ /\ wild'
        /\ st' = "ABORTED" /\ call' = None /\ todo' = <<>> /\ pc' = "idle"
        /\ UNCHANGED client
  /\ UNCHANGED <<pf, nsent>>

(* LIST, RETR: the lines follow *)
StatusLines ==
  /\ pc = "status"
  /\ Read
  /\ Head(answer).text = "+OK"
  /\ Head(todo).name \in {"LIST", "RETR"}
  /\ pc' = "lines"
  /\ UNCHANGED <<st, client, call, todo, pf, num, wild, nsent>>

(* Fault: the loop returns what f has returned, as the others do           *)
Item_Returns ==
  /\ pc = "lines"
  /\ Read
  /\ Head(answer).text # "."
  /\ Finish("OK")
  /\ UNCHANGED <<pf, num, wild, nsent>>

(* do_repeat, do_pipe: a line.  The Lua error of set_mailmessage_size leaves *)
(* the rest of the answer unread.                                          *)
Item ==
  /\ pc = "lines"
  /\ Read
  /\ Head(answer).text # "."
  /\ IF Head(todo).name = "LIST" /\ Head(answer).val > num
       THEN Finish("UNKNOWN")
       ELSE UNCHANGED <<st, client, call, todo, pc>>
  /\ UNCHANGED <<pf, num, wild, nsent>>

LastLine ==
  /\ pc = "lines"
  /\ Read
  /\ Head(answer).text = "."
  /\ Step("OK")
  /\ UNCHANGED <<pf, num, wild, nsent>>

(* Fault: the end of the connection is taken for the end of the message    *)
LinesNil_Ok ==
  /\ pc = "lines"
  /\ ~link /\ answer = <<>>
  /\ StepMessage("OK")
  /\ UNCHANGED <<pf, num, wild, nsent, other>>

(* Fault: nil is not looked at, and recv is called again                   *)
LinesNil_Again ==
  /\ pc = "lines"
  /\ ~link /\ answer = <<>>
  /\ UNCHANGED vars

LinesNil ==
  /\ pc = "lines"
  /\ ~link /\ answer = <<>>
  /\ StepMessage("NETWORK")
  /\ UNCHANGED <<pf, num, wild, nsent, other>>

-----------------------------------------------------------------------------
(* The other server (rfc1939) *)

Says(text, v) == [to |-> nsent, text |-> text, val |-> v]
Items(s)      == [i \in DOMAIN s |-> Says("item", s[i])]
Stays         == UNCHANGED <<remote, link>>

Answers(c) ==
  LET left == Message \ remote.marks IN
  CASE c.name \in {"USER", "NOOP"} -> answer' = answer \o <<Says("+OK", 0)>> /\ Stays
    [] c.name = "PASS" ->
         /\ answer' = answer \o <<Says("+OK", 0)>>
         /\ remote' = [remote EXCEPT !.st = "TRANS"] /\ UNCHANGED link
    [] c.name = "STAT" -> answer' = answer \o <<Says("+OK", Cardinality(left))>> /\ Stays
    [] c.name = "LIST" ->
         /\ \E s \in SetToSeqs(left) :
              answer' = answer \o <<Says("+OK", 0)>> \o Items(s) \o <<Says(".", 0)>>
         /\ Stays
    [] c.name = "LIST_ONE" -> c.msg \in left /\ answer' = answer \o <<Says("+OK", c.msg)>> /\ Stays
    [] c.name = "RETR" ->
         /\ c.msg \in left
         /\ answer' = answer \o <<Says("+OK", 0)>> \o Items([i \in 1 .. MaxLines |-> i]) \o <<Says(".", 0)>>
         /\ Stays
    [] c.name = "DELE" ->
         /\ c.msg \in left
         /\ answer' = answer \o <<Says("+OK", 0)>>
         /\ remote' = [remote EXCEPT !.marks = @ \cup {c.msg}] /\ UNCHANGED link
    [] c.name = "RSET" ->
         /\ answer' = answer \o <<Says("+OK", 0)>>
         /\ remote' = [remote EXCEPT !.marks = {}] /\ UNCHANGED link
    [] c.name = "QUIT" ->
         /\ answer' = answer \o <<Says("+OK", 0)>>
         /\ remote' = [remote EXCEPT !.st = "CLOSED", !.gone = IF remote.st = "TRANS" THEN remote.marks ELSE {}]
         /\ link' = FALSE

Serve ==
  /\ request # <<>>
  /\ request' = <<>>
  /\ Answers(Head(request))
  /\ UNCHANGED <<st, client, plugin, nsent>>

(* It may refuse any command but QUIT *)
Refuse ==
  /\ request # <<>> /\ Head(request).name # "QUIT"
  /\ request' = <<>>
  /\ answer' = Append(answer, Says("-ERR", 0))
  /\ Stays
  /\ UNCHANGED <<st, client, plugin, nsent>>

(* The connection breaks: a command on its way is lost, the end of an       *)
(* answer too; nothing is removed                                          *)
Break ==
  /\ link
  /\ link' = FALSE
  /\ request' = <<>>
  /\ \E n \in 0 .. Len(answer) : answer' = SubSeq(answer, 1, n)
  /\ remote' = [remote EXCEPT !.st = "CLOSED"]
  /\ UNCHANGED <<st, client, plugin, nsent>>

(* The client has gone, or is silent for too long *)
ClientLost ==
  /\ ~lost /\ st \in {"AUTH", "TRANS"}
  /\ lost' = TRUE
  /\ UNCHANGED <<st, calls, acked, asked, quit, reply, plugin, nsent, other>>

Over ==
  /\ st = "END"
  /\ st' = "DONE"
  /\ UNCHANGED <<client, plugin, nsent, other>>

SingleLine == Send \/ SendFails \/ SendNothing \/ StatusErr \/ StatusNil \/ StatusOk \/ StatOk \/ StatusLines
Lines      == Item \/ LastLine \/ LinesNil
Thread     == Leave \/ SingleLine \/ Lines \/ Over
Network    == Serve \/ Refuse \/ Break

Next == User \/ Pass \/ Give \/ ClientLost \/ Thread \/ Network

(* The thread runs when it can; neither the other server nor the client     *)
(* need do anything                                                        *)
Spec     == Init /\ [][Next]_vars
FairSpec == Spec /\ WF_vars(Thread)

-----------------------------------------------------------------------------
(* What is removed: whatever ends the session, nothing the client has not   *)
(* asked for; and after a QUIT answered +OK exactly the messages whose DELE *)
(* was answered +OK, through refusals, lost answers and resets             *)
RemovedHonestly ==
  /\ remote.gone \subseteq asked
  /\ quit /\ st = "END" => remote.gone = acked

(* The client's commands and the other server's answers stay in step: what  *)
(* the plugin reads was said to the command it has just given, as long as  *)
(* the client is served; a list that is given up unread ends the session   *)
InStep == st \in {"AUTH", "TRANS"} => \A i \in DOMAIN answer : pc # "idle" /\ answer[i].to = nsent

(* Without a pipe a message that is not whole is the last thing the client  *)
(* gets: the session does not go on as if it had been delivered             *)
CutEndsSession == ~pf.pipe /\ reply.cut => st \in {"ERR", "DONE"}

(* STAT counts the messages that are not marked.  popstate.c frees only     *)
(* what it has allocated, unless the client gives STAT after a DELE.       *)
FreesItsOwn ==
  [][wild' => wild \/ (call.name = "STAT" /\ acked # {})]_vars

(* recv waits for a line of the other server: the socket has no timeout    *)
(* (psock.lua), so it may wait for ever                                    *)
Waiting == pc \in {"status", "lines"} /\ link /\ answer = <<>>

(* Each command is answered, whichever connection breaks, unless the other  *)
(* server keeps its connection and says nothing any more: nothing but that *)
(* silence holds up the thread for ever                                    *)
Answered == []<>~Waiting => (pc # "idle" ~> pc = "idle")

(* "Must quit without updating" (popforward.lua:237): messages are removed  *)
(* only if the client gave QUIT                                            *)
RemovedOnlyByQuit == remote.gone # {} => quit
=============================================================================
