-------------------------- MODULE PopForward_proofs --------------------------
(***************************************************************************)
(* What holds of the forwarding plugin for a mailbox of any size, messages *)
(* of any length and any number of commands, whatever the other server     *)
(* refuses and whenever a connection is lost.  ForwardInv relates the      *)
(* command the plugin works on to what is on the connection, the marks and *)
(* the removed messages of the other server to what the client was told.   *)
(***************************************************************************)
EXTENDS PopForward, FiniteSetTheorems, SequenceTheorems, TLAPS

Served == st \in {"AUTH", "TRANS"}
Now    == Head(todo)

(* What the plugin has to do: the command, STAT before some of them until   *)
(* one has been answered                                                   *)
Plans ==
  pc # "idle" =>
    \/ todo = <<call>>
    \/ todo = <<Cmd("STAT"), call>> /\ call.name \in {"LIST", "LIST_ONE", "RSET"} /\ num = -1

(* Which commands there are in a state of pop3_thread                       *)
Calls ==
  /\ pc # "idle" => \/ st = "AUTH" /\ call.name \in {"USER", "PASS"}
                    \/ st = "TRANS" /\ call.name \notin {"USER", "PASS"}
                    \/ st = "ERR" /\ call.name = "QUIT"
  /\ call.name = "DELE" => call.msg \in asked
  /\ pc = "lines" => Now.name \in {"LIST", "RETR"}

(* An answer that is begun, and the rest of one                             *)
Whole   == answer = <<>> \/ Len(answer) = 1 \/ (Head(answer).text = "+OK" /\ Now.name \in {"LIST", "RETR"})
DotEnds == \A i \in DOMAIN answer : answer[i].text = "." => i = Len(answer)

(* Of a client that is served at most the current command and its answer   *)
(* are on the connection, and else at most the plugin's own QUIT           *)
Wire ==
  /\ request # <<>> => link
  /\ ~Served => request = <<>> \/ (request = <<Cmd("QUIT")>> /\ st \in {"ERR", "DONE"})
  /\ Served /\ pc \in {"idle", "send"} => request = <<>> /\ answer = <<>>
  /\ Served /\ pc = "status" => \/ request = <<Now>> /\ answer = <<>>
                                \/ request = <<>> /\ Whole /\ DotEnds
  /\ Served /\ pc = "lines" => request = <<>> /\ DotEnds
  /\ Served => \A i \in DOMAIN answer : answer[i].to = nsent

(* What a command makes of the marks                                        *)
After(c, S) == CASE c.name = "DELE" -> S \cup {c.msg} [] c.name = "RSET" -> {} [] OTHER -> S
Done        == answer # <<>> /\ Head(answer).text = "+OK"

(* The marks are the messages whose DELE was answered, but for a command    *)
(* that the other server has read, whose answer the plugin has not read or  *)
(* will never read                                                         *)
Marks ==
  /\ remote.marks \subseteq asked
  /\ Served /\ ~(pc = "status" /\ request = <<>>) => remote.marks = acked
  /\ Served /\ pc = "status" /\ request = <<>> =>
       /\ Done => remote.marks = After(Now, acked)
       /\ answer # <<>> /\ ~Done => remote.marks = acked
       /\ answer = <<>> => remote.marks \in {acked, After(Now, acked)}

(* Only a QUIT removes, in the TRANSACTION state, and what is marked        *)
Gone ==
  /\ remote.gone \subseteq remote.marks
  /\ Served /\ call.name # "QUIT" => remote.gone = {}
  /\ Served /\ pc = "status" /\ call.name = "QUIT" /\ answer # <<>> => Done
  /\ st = "TRANS" /\ pc = "status" /\ call.name = "QUIT" /\ Done => remote.gone = remote.marks
  /\ st = "END" => remote.gone = acked

(* The other server is in the TRANSACTION state when the client is          *)
Agree ==
  link /\ (st = "TRANS" \/ (st = "AUTH" /\ pc = "status" /\ call.name = "PASS" /\ Done))
    => remote.st = "TRANS"

(* The number of messages popstate.c keeps, and the one about to be read    *)
Stat ==
  /\ num # -1 \/ (pc = "status" /\ Now.name = "STAT") => pf.stat_done
  /\ Served /\ pc = "status" /\ Now.name = "STAT" /\ Done =>
       Head(answer).val = Cardinality(Message \ acked)

ForwardInv == TypeOK /\ Plans /\ Calls /\ Wire /\ Marks /\ Gone /\ Agree /\ Stat /\ CutEndsSession

-----------------------------------------------------------------------------
(* Commands and lines *)

LEMMA Commands ==
  /\ None \notin Command
  /\ \A n \in Single \cup {"LIST"} : Cmd(n) \in Command /\ Cmd(n).name = n
  /\ \A c \in Command : /\ c.name = "QUIT" => c = Cmd("QUIT")
                        /\ c.name = "STAT" => c = Cmd("STAT")
                        /\ c.name \in OnMsg => c.msg \in Message
                        /\ c.name # "none"
BY DEF None, Command, Cmd, Single, OnMsg

LEMMA TwoInARow ==
  ASSUME NEW S, NEW a \in S, NEW b \in S
  PROVE  <<>> \o <<b>> = <<b>> /\ <<a>> \o <<b>> = <<a, b>>
<1> DEFINE r == <<a>> \o <<b>>
<1>1. r \in Seq(S) /\ Len(r) = 2 /\ r[1] = a /\ r[2] = b
  OBVIOUS
<1>2. <<a, b>> \in Seq(S) /\ Len(<<a, b>>) = 2
  OBVIOUS
<1> HIDE DEF r
<1>3. r = <<a, b>>
  BY <1>1, <1>2, SeqEqual
<1> QED
  BY <1>3 DEF r

LEMMA PlanOf ==
  ASSUME NEW c \in Command
  PROVE  /\ Plan(c) \in Seq(Command)
         /\ \/ Plan(c) = <<c>>
            \/ /\ Plan(c) = <<Cmd("STAT"), c>>
               /\ c.name \in {"LIST", "LIST_ONE", "RSET"} /\ ~pf.stat_done
<1>1. Cmd("STAT") \in Command
  BY Commands DEF Single
<1>2. <<>> \o <<c>> = <<c>> /\ <<Cmd("STAT")>> \o <<c>> = <<Cmd("STAT"), c>>
  BY <1>1, TwoInARow
<1>3. \/ Plan(c) = <<c>>
      \/ /\ Plan(c) = <<Cmd("STAT"), c>>
         /\ c.name \in {"LIST", "LIST_ONE", "RSET"} /\ ~pf.stat_done
  BY <1>2 DEF Plan, EnsureStat
<1>4. <<c>> \in Seq(Command) /\ <<Cmd("STAT"), c>> \in Seq(Command)
  BY <1>1
<1> QED
  BY <1>3, <1>4

LEMMA LeftToCount ==
  ASSUME NEW S
  PROVE  /\ Cardinality(Message \ S) \in 0 .. MaxMsg
         /\ S = {} => Cardinality(Message \ S) = MaxMsg
<1>1. IsFiniteSet(Message) /\ Cardinality(Message) = MaxMsg
  BY Bounds, FS_Interval DEF Message
<1>2. IsFiniteSet(Message \ S) /\ Cardinality(Message \ S) <= Cardinality(Message)
  BY <1>1, FS_Subset
<1>3. Cardinality(Message \ S) \in Nat
  BY <1>2, FS_CardinalityType
<1>4. S = {} => Message \ S = Message
  OBVIOUS
<1> QED
  BY <1>1, <1>2, <1>3, <1>4, Bounds

(* A list or a message on the connection                                    *)
LEMMA Listing ==
  ASSUME NEW S, NEW a \in S, NEW b \in S, NEW s \in Seq(S)
  PROVE  LET r == <<>> \o <<a>> \o s \o <<b>> IN
         /\ r \in Seq(S) /\ r # <<>> /\ Head(r) = a /\ Len(r) = Len(s) + 2
         /\ \A i \in DOMAIN r : r[i] = IF i = 1 THEN a ELSE IF i = Len(r) THEN b ELSE s[i - 1]
         /\ \A i \in DOMAIN r : i # 1 /\ i # Len(r) => i - 1 \in DOMAIN s
OBVIOUS

LEMMA ItemsAreLines ==
  ASSUME NEW n \in Nat, NEW s \in [1 .. n -> Nat], nsent \in Nat
  PROVE  /\ Items(s) \in Seq(Line)
         /\ \A i \in DOMAIN Items(s) : Items(s)[i].text = "item" /\ Items(s)[i].to = nsent
<1>1. \A i \in 1 .. n : Says("item", s[i]) \in Line
  BY DEF Says, Line
<1>2. Items(s) = [i \in 1 .. n |-> Says("item", s[i])]
  BY DEF Items
<1>3. Items(s) \in Seq(Line)
  BY <1>1, <1>2
<1> QED
  BY <1>2, <1>3 DEF Says

-----------------------------------------------------------------------------
(* How the work on a command can end: the session stops, the client is told *)
(* of an error and goes on, the command has succeeded, or STAT has and the  *)
(* command is next                                                         *)

Idle == pc # "idle" /\ call' = None /\ todo' = <<>> /\ pc' = "idle"

Reply == [status : {"+OK", "-ERR"}, cut : BOOLEAN]
State == [up : BOOLEAN, stat_done : BOOLEAN, is_freepops : BOOLEAN, pipe : BOOLEAN]

Untouched ==
  /\ UNCHANGED <<lost, calls, quit, link, request, remote, nsent>>
  /\ answer' \in Seq(Line) /\ reply' \in Reply
  /\ pf' \in State /\ pf'.pipe = pf.pipe
  /\ wild' \in BOOLEAN /\ num' \in -1 .. MaxMsg /\ (num' # -1 => pf'.stat_done)

Stops ==
  /\ Idle /\ UNCHANGED <<acked, asked>>
  /\ st' = IF st = "ERR" THEN "DONE" ELSE "ERR"
  /\ Served => request = <<>>

Skips ==
  /\ Idle /\ Served /\ UNCHANGED <<st, acked, asked>>
  /\ call.name # "QUIT" /\ request = <<>> /\ answer' = <<>> /\ remote.marks = acked
  /\ ~pf.pipe => ~reply'.cut

Succeeds ==
  /\ Idle /\ Served
  /\ st' = IF call.name = "PASS" THEN "TRANS" ELSE IF call.name = "QUIT" THEN "END" ELSE st
  /\ acked' = After(call, acked) /\ asked' = (IF call.name = "RSET" THEN {} ELSE asked)
  /\ request = <<>> /\ answer' = <<>> /\ remote.marks = After(call, acked)
  /\ call.name = "QUIT" => remote.gone = remote.marks
  /\ call.name = "PASS" /\ link => remote.st = "TRANS"
  /\ ~reply'.cut

GoesOn ==
  /\ pc # "idle" /\ Served /\ todo = <<Cmd("STAT"), call>> /\ todo' = <<call>> /\ pc' = "send"
  /\ UNCHANGED <<st, acked, asked, reply, call>>
  /\ request = <<>> /\ answer' = <<>> /\ remote.marks = acked

LEMMA StopKeeps == ASSUME ForwardInv, Untouched, Stops PROVE ForwardInv'
<1> USE DEF ForwardInv, Untouched, Stops, Idle
<1>1. st \in {"AUTH", "TRANS", "ERR"} /\ st' \in {"ERR", "DONE"} /\ ~Served'
  BY DEF Calls, Served
<1>2. TypeOK'
  BY <1>1 DEF TypeOK, Reply, State, Message, Command, Single, OnMsg, None, Line
<1>3. Plans' /\ Calls'
  BY <1>1 DEF Plans, Calls, None
<1>4. Wire'
  BY <1>1 DEF Wire, Served
<1>5. Marks' /\ Gone' /\ Agree' /\ Stat' /\ CutEndsSession'
  BY <1>1 DEF Marks, Gone, Agree, Stat, CutEndsSession
<1> QED
  BY <1>2, <1>3, <1>4, <1>5

LEMMA SkipKeeps == ASSUME ForwardInv, Untouched, Skips PROVE ForwardInv'
<1> USE DEF ForwardInv, Untouched, Skips, Idle
<1>1. Served' /\ st' \in {"AUTH", "TRANS"}
  BY DEF Served
<1>2. TypeOK'
  BY <1>1 DEF TypeOK, Reply, State, Message, Command, Single, OnMsg, None, Line
<1>3. Plans' /\ Calls'
  BY <1>1 DEF Plans, Calls, None
<1>4. Wire'
  BY <1>1 DEF Wire, Whole, DotEnds
<1>5. Marks' /\ Gone' /\ Agree' /\ Stat' /\ CutEndsSession'
  BY <1>1 DEF Marks, Gone, Agree, Stat, CutEndsSession, None
<1> QED
  BY <1>2, <1>3, <1>4, <1>5

LEMMA SuccessKeeps == ASSUME ForwardInv, Untouched, Succeeds PROVE ForwardInv'
<1> USE DEF ForwardInv, Untouched, Succeeds, Idle
<1>1. st' \in {"AUTH", "TRANS", "END"}
  BY DEF Served
<1>2. acked' \subseteq asked' /\ asked' \subseteq Message /\ remote.marks \subseteq asked'
  BY DEF TypeOK, Calls, After, Marks
<1>3. TypeOK'
  BY <1>1, <1>2 DEF TypeOK, Reply, State, Message, Command, Single, OnMsg, None, Line
<1>4. Plans' /\ Calls'
  BY <1>1 DEF Plans, Calls, None
<1>5. Wire'
  <2>1. request' = <<>> /\ answer' = <<>> /\ pc' = "idle" /\ DOMAIN answer' = {}
    OBVIOUS
  <2> QED
    BY ONLY <2>1 DEF Wire, Served
<1>6. Marks'
  BY <1>2 DEF Marks
<1>7. Gone'
  BY <1>1 DEF Gone, Served, None, After, Calls
<1>8. Agree'
  BY DEF Agree, Calls, Served
<1>9. Stat' /\ CutEndsSession'
  BY DEF Stat, CutEndsSession
<1> QED
  BY <1>3, <1>4, <1>5, <1>6, <1>7, <1>8, <1>9

LEMMA GoOnKeeps == ASSUME ForwardInv, Untouched, GoesOn PROVE ForwardInv'
<1> USE DEF ForwardInv, Untouched, GoesOn
<1>1. call \in Command /\ call.name \in {"LIST", "LIST_ONE", "RSET"} /\ num = -1
  <2>1. todo # <<call>>
    OBVIOUS
  <2>2. call # None
    BY DEF TypeOK
  <2> QED
    BY <2>1, <2>2 DEF Plans, TypeOK
<1>2. TypeOK'
  BY <1>1 DEF TypeOK, Reply, State, Message, Command, Single, OnMsg, None, Line
<1>3. Plans' /\ Calls'
  BY <1>1 DEF Plans, Calls
<1>4. Wire'
  BY DEF Wire, Served
<1>5. Marks' /\ Gone' /\ Agree' /\ Stat' /\ CutEndsSession'
  BY <1>1 DEF Marks, Gone, Agree, Stat, CutEndsSession, Served
<1> QED
  BY <1>2, <1>3, <1>4, <1>5

-----------------------------------------------------------------------------
(* What the plugin is doing while it works on a command                     *)

LEMMA NowIs ==
  ASSUME ForwardInv, pc # "idle"
  PROVE  /\ call \in Command /\ Now \in Command
         /\ \/ todo = <<call>> /\ Now = call /\ Len(todo) = 1
            \/ /\ todo = <<Cmd("STAT"), call>> /\ Now = Cmd("STAT") /\ Len(todo) = 2
               /\ Tail(todo) = <<call>>
               /\ call.name \in {"LIST", "LIST_ONE", "RSET"} /\ num = -1
         /\ Now.name = "STAT" \/ (Now = call /\ todo = <<call>> /\ Len(todo) = 1)
         /\ \/ st = "AUTH" /\ call.name \in {"USER", "PASS"}
            \/ st = "TRANS" /\ call.name \notin {"USER", "PASS"}
            \/ st = "ERR" /\ call.name = "QUIT"
         /\ Now.name \notin {"QUIT", "USER", "PASS"} => st = "TRANS"
<1>1. call \in Command
  BY DEF ForwardInv, TypeOK
<1>2. Cmd("STAT") \in Command /\ Cmd("STAT").name = "STAT"
  BY Commands DEF Single
<1>3. /\ Head(<<call>>) = call /\ Len(<<call>>) = 1
      /\ Head(<<Cmd("STAT"), call>>) = Cmd("STAT") /\ Len(<<Cmd("STAT"), call>>) = 2
      /\ Tail(<<Cmd("STAT"), call>>) = <<call>>
  BY <1>1, <1>2
<1>4. \/ todo = <<call>> /\ Now = call /\ Len(todo) = 1
      \/ /\ todo = <<Cmd("STAT"), call>> /\ Now = Cmd("STAT") /\ Len(todo) = 2
         /\ Tail(todo) = <<call>>
         /\ call.name \in {"LIST", "LIST_ONE", "RSET"} /\ num = -1
  BY <1>3 DEF ForwardInv, Plans, Now
<1>5. \/ st = "AUTH" /\ call.name \in {"USER", "PASS"}
      \/ st = "TRANS" /\ call.name \notin {"USER", "PASS"}
      \/ st = "ERR" /\ call.name = "QUIT"
  BY DEF ForwardInv, Calls
<1> QED
  BY <1>1, <1>2, <1>4, <1>5

(* The results that stop the session                                        *)
Fatal(rc) == rc \notin {"OK", "SYNTAX", "NOMSG"} /\ ~(rc = "EOF" /\ call.name = "RETR")

LEMMA FinishDoes ==
  ASSUME NEW rc, Finish(rc), pc # "idle"
  PROVE  /\ Idle /\ UNCHANGED <<lost, calls, quit>>
         /\ st = "ERR" \/ Fatal(rc) =>
              st' = (IF st = "ERR" THEN "DONE" ELSE "ERR") /\ UNCHANGED <<acked, asked>>
         /\ st = "ERR" => reply' = reply
         /\ st # "ERR" => reply' \in Reply /\ (Cut \/ ~reply'.cut)
         /\ st # "ERR" /\ ~Fatal(rc) /\ rc # "OK" => UNCHANGED <<st, acked, asked>>
         /\ st # "ERR" /\ rc = "OK" =>
              /\ st' = IF call.name = "PASS" THEN "TRANS" ELSE IF call.name = "QUIT" THEN "END" ELSE st
              /\ acked' = After(call, acked) /\ asked' = IF call.name = "RSET" THEN {} ELSE asked
<1>1. Idle /\ UNCHANGED <<lost, calls, quit>>
  BY DEF Finish, Idle
<1>2. CASE st = "ERR"
  BY <1>1, <1>2 DEF Finish
<1>3. CASE st # "ERR"
  <2>1. reply' = [status |-> IF rc = "OK" \/ call.name = "RETR" THEN "+OK" ELSE "-ERR", cut |-> Cut]
    BY <1>3 DEF Finish
  <2>2. Cut \in BOOLEAN
    BY DEF Cut
  <2>3. reply' \in Reply
    BY <2>1, <2>2 DEF Reply
  <2>4. Cut \/ ~reply'.cut
    BY <2>1, <2>2
  <2>5. st' = Next_st(rc)
    BY <1>3 DEF Finish
  <2>6. rc # "OK" => UNCHANGED <<acked, asked>>
    BY <1>3 DEF Finish
  <2>7. rc = "OK" =>
          acked' = After(call, acked) /\ asked' = IF call.name = "RSET" THEN {} ELSE asked
    BY <1>3 DEF Finish, After
  <2> QED
    BY <1>1, <1>3, <2>3, <2>4, <2>5, <2>6, <2>7 DEF Next_st, ErrState, Fatal
<1> QED
  BY <1>2, <1>3

(* The rest of an answer                                                    *)
LEMMA ReadDoes ==
  ASSUME ForwardInv, pc \in {"status", "lines"}, Read
  PROVE  /\ Head(answer) \in Line /\ answer' \in Seq(Line) /\ answer # <<>>
         /\ UNCHANGED <<link, request, remote>>
         /\ \A i \in DOMAIN answer' : i + 1 \in DOMAIN answer /\ answer'[i] = answer[i + 1]
         /\ Len(answer) = 1 => answer' = <<>>
         /\ Len(answer') = Len(answer) - 1
         /\ Served => request = <<>> /\ DotEnds /\ DotEnds'
         /\ Served => \A i \in DOMAIN answer' : answer'[i].to = nsent
         /\ Served /\ Head(answer).text = "." => answer' = <<>>
         /\ Served /\ pc = "status" =>
              Len(answer) = 1 \/ (Head(answer).text = "+OK" /\ Now.name \in {"LIST", "RETR"})
<1>1. answer \in Seq(Line) /\ answer # <<>> /\ answer' = Tail(answer) /\ UNCHANGED <<link, request, remote>>
  BY DEF Read, ForwardInv, TypeOK
<1>2. Head(answer) = answer[1] /\ answer[1] \in Line /\ 1 \in DOMAIN answer
  BY <1>1
<1>3. answer' \in Seq(Line) /\ Len(answer') = Len(answer) - 1 /\ (Len(answer) = 1 => answer' = <<>>)
  BY <1>1
<1>4. \A i \in DOMAIN answer' : i + 1 \in DOMAIN answer /\ answer'[i] = answer[i + 1]
  BY <1>1
<1>5. Served => request = <<>> /\ DotEnds /\ \A i \in DOMAIN answer : answer[i].to = nsent
  BY <1>1 DEF ForwardInv, Wire
<1>6. DotEnds => DotEnds'
  BY <1>1, <1>3, <1>4 DEF DotEnds
<1>7. Served /\ pc = "status" => Whole
  BY <1>1 DEF ForwardInv, Wire
<1>8. Served /\ Head(answer).text = "." => Len(answer) = 1
  BY <1>2, <1>5 DEF DotEnds
<1> QED
  BY <1>1, <1>2, <1>3, <1>4, <1>5, <1>6, <1>7, <1>8 DEF Whole

(* What was there stays                                                     *)
LEMMA UntouchedFacts ==
  ASSUME ForwardInv
  PROVE  /\ reply \in Reply /\ pf \in State /\ wild \in BOOLEAN /\ num \in -1 .. MaxMsg
         /\ answer \in Seq(Line) /\ (num # -1 => pf.stat_done)
         /\ LET q == [pf EXCEPT !.stat_done = @ \/ Now.name = "STAT"] IN
              /\ q \in State /\ q.pipe = pf.pipe /\ q.up = pf.up
              /\ (pf.stat_done \/ Now.name = "STAT") => q.stat_done
<1>1. /\ reply \in Reply /\ pf \in State /\ wild \in BOOLEAN /\ num \in -1 .. MaxMsg
      /\ answer \in Seq(Line)
  BY DEF ForwardInv, TypeOK, Reply, State
<1>2. num # -1 => pf.stat_done
  BY DEF ForwardInv, Stat
<1>3. (pf.stat_done \/ Now.name = "STAT") \in BOOLEAN
  BY <1>1
<1> QED
  BY <1>1, <1>2, <1>3 DEF State

-----------------------------------------------------------------------------
(* Each step that ends the work on a command ends it in one of these ways   *)

Outcome == Untouched /\ (Stops \/ Skips \/ Succeeds \/ GoesOn)

LEMMA OutcomeKeeps == ASSUME ForwardInv, Outcome PROVE ForwardInv'
BY StopKeeps, SkipKeeps, SuccessKeeps, GoOnKeeps DEF Outcome

(* An error: the session stops, but for a RETR with a pipe                  *)
LEMMA ErrorOutcome ==
  ASSUME ForwardInv, pc # "idle", NEW rc, Fatal(rc), StepMessage(rc),
         UNCHANGED <<link, request, remote, nsent, num, wild>>, answer' \in Seq(Line),
         pf' \in State, pf'.pipe = pf.pipe, pf.stat_done => pf'.stat_done,
         Served => request = <<>>,
         Served /\ Now.name = "RETR" => answer' = <<>> /\ remote.marks = acked
  PROVE  Outcome
<1>1. reply \in Reply /\ wild \in BOOLEAN /\ num \in -1 .. MaxMsg /\ (num # -1 => pf.stat_done)
  BY UntouchedFacts
<1>2. CASE Piped
  <2>1. Now = call /\ st = "TRANS" /\ call.name = "RETR"
    BY <1>2, NowIs DEF Piped, Now
  <2>2. /\ call' = None /\ todo' = <<>> /\ pc' = "idle"
        /\ reply' = [status |-> "+OK", cut |-> Cut]
        /\ UNCHANGED <<st, lost, calls, acked, asked, quit>>
    BY <1>2 DEF StepMessage, Fatal
  <2>3. Cut \in BOOLEAN
    BY DEF Cut
  <2>4. reply' \in Reply
    BY <2>2, <2>3 DEF Reply
  <2>5. Untouched
    BY <1>1, <2>2, <2>4 DEF Untouched
  <2>6. Skips
    BY <1>2, <2>1, <2>2 DEF Skips, Idle, Served, Piped
  <2> QED
    BY <2>5, <2>6 DEF Outcome
<1>3. CASE ~Piped
  <2>1. Finish(rc)
    BY <1>3 DEF StepMessage, Step, Fatal
  <2>2. Untouched
    BY <1>1, <2>1, FinishDoes DEF Untouched
  <2>3. Stops
    BY <2>1, FinishDoes DEF Stops
  <2> QED
    BY <2>2, <2>3 DEF Outcome
<1> QED
  BY <1>2, <1>3

LEMMA SendFailsOutcome == ASSUME ForwardInv, SendFails PROVE Outcome
<1>1. pc = "send" /\ ~link /\ StepMessage("NETWORK") /\ UNCHANGED <<num, wild, nsent, other>>
  BY DEF SendFails
<1>2. pf' = [pf EXCEPT !.stat_done = @ \/ Now.name = "STAT"]
  BY DEF SendFails, Now
<1>3. pf' \in State /\ pf'.pipe = pf.pipe /\ (pf.stat_done => pf'.stat_done) /\ answer \in Seq(Line)
  BY <1>2, UntouchedFacts
<1>4. Served => request = <<>> /\ answer = <<>> /\ remote.marks = acked
  BY <1>1 DEF ForwardInv, Wire, Marks
<1>5. UNCHANGED <<link, request, answer, remote>>
  BY <1>1 DEF other
<1> QED
  BY <1>1, <1>3, <1>4, <1>5, ErrorOutcome DEF Fatal

LEMMA SendNothingOutcome == ASSUME ForwardInv, SendNothing PROVE Outcome
<1>1. pc = "send" /\ Finish("UNKNOWN") /\ UNCHANGED <<pf, num, wild, nsent, link, request, answer, remote>>
  BY DEF SendNothing, other
<1>2. (Served => request = <<>>) /\ Fatal("UNKNOWN")
  BY <1>1 DEF ForwardInv, Wire, Fatal
<1>3. Untouched
  BY <1>1, UntouchedFacts, FinishDoes DEF Untouched
<1>4. Stops
  BY <1>1, <1>2, FinishDoes DEF Stops
<1> QED
  BY <1>3, <1>4 DEF Outcome

LEMMA StatusErrOutcome == ASSUME ForwardInv, StatusErr PROVE Outcome
<1>1. pc = "status" /\ Read /\ Head(answer).text # "+OK" /\ UNCHANGED <<pf, num, wild, nsent>>
  BY DEF StatusErr
<1>2. UNCHANGED <<link, request, remote>> /\ answer' \in Seq(Line) /\ answer # <<>>
  BY <1>1, ReadDoes
<1>3. Served => request = <<>> /\ answer' = <<>> /\ remote.marks = acked
  BY <1>1, <1>2, ReadDoes DEF ForwardInv, Marks, Done
<1>4. PICK rc \in {"UNKNOWN", "SYNTAX", "NOMSG", "EOF"} : StepMessage(rc)
  BY DEF StatusErr
<1>5. CASE Fatal(rc)
  BY <1>1, <1>2, <1>3, <1>4, <1>5, ErrorOutcome, UntouchedFacts
<1>6. CASE ~Fatal(rc) /\ Piped
  <2>1. /\ call' = None /\ todo' = <<>> /\ pc' = "idle"
        /\ reply' = [status |-> "+OK", cut |-> Cut]
        /\ UNCHANGED <<st, lost, calls, acked, asked, quit>>
    BY <1>4, <1>6 DEF StepMessage
  <2>2. Now = call /\ st = "TRANS" /\ call.name = "RETR"
    BY <1>1, <1>6, NowIs DEF Piped, Now
  <2>3. Cut \in BOOLEAN
    BY DEF Cut
  <2>4. reply' \in Reply
    BY <2>1, <2>3 DEF Reply
  <2>5. Untouched
    BY <1>1, <1>2, <2>1, <2>4, UntouchedFacts DEF Untouched
  <2>6. Skips
    BY <1>1, <1>3, <1>6, <2>1, <2>2 DEF Skips, Idle, Served, Piped
  <2> QED
    BY <2>5, <2>6 DEF Outcome
<1>7. CASE ~Fatal(rc) /\ ~Piped
  <2>1. Finish(rc) /\ rc # "OK"
    BY <1>4, <1>7 DEF StepMessage, Step
  <2>2. ~Cut
    BY <1>1 DEF Cut
  <2>3. Untouched
    BY <1>1, <1>2, <2>1, UntouchedFacts, FinishDoes DEF Untouched
  <2>4. CASE st = "ERR"
    <3>1. Stops
      BY <1>1, <2>1, <2>4, FinishDoes DEF Stops, Served
    <3> QED
      BY <2>3, <3>1 DEF Outcome
  <2>5. CASE st # "ERR"
    <3>1. Served
      BY <1>1, <2>5, NowIs DEF Served
    <3>2. call.name # "QUIT"
      BY <1>1, <1>2, <3>1 DEF ForwardInv, Gone, Done
    <3>3. Skips
      BY <1>1, <1>3, <1>7, <2>1, <2>2, <2>5, <3>1, <3>2, FinishDoes DEF Skips
    <3> QED
      BY <2>3, <3>3 DEF Outcome
  <2> QED
    BY <2>4, <2>5
<1> QED
  BY <1>5, <1>6, <1>7

LEMMA NilOutcome == ASSUME ForwardInv, StatusNil \/ LinesNil PROVE Outcome
<1>1. pc \in {"status", "lines"} /\ ~link /\ answer = <<>>
  BY DEF StatusNil, LinesNil
<1>2. PICK rc \in {"UNKNOWN", "NETWORK"} : StepMessage(rc)
  BY DEF StatusNil, LinesNil
<1>3. UNCHANGED <<pf, num, wild, nsent, link, request, answer, remote>>
  BY DEF StatusNil, LinesNil, other
<1>4. Served => request = <<>>
  BY <1>1 DEF ForwardInv, Wire
<1>5. Served /\ Now.name = "RETR" => remote.marks = acked
  BY <1>1, <1>4 DEF ForwardInv, Marks, After
<1> QED
  BY <1>1, <1>2, <1>3, <1>4, <1>5, ErrorOutcome, UntouchedFacts DEF Fatal

LEMMA StatusOkOutcome == ASSUME ForwardInv, StatusOk PROVE Outcome
<1>1. /\ pc = "status" /\ Read /\ Head(answer).text = "+OK" /\ UNCHANGED <<pf, num, wild, nsent>>
      /\ Now.name \notin {"STAT", "LIST", "RETR"}
      /\ Step("OK") \/ (Now.name = "LIST_ONE" /\ Finish("UNKNOWN"))
  BY DEF StatusOk, Now
<1>2. UNCHANGED <<link, request, remote>> /\ answer' \in Seq(Line) /\ answer # <<>>
  BY <1>1, ReadDoes
<1>3. Now = call /\ Len(todo) = 1 /\ st \in {"AUTH", "TRANS", "ERR"}
  BY <1>1, NowIs
<1>4. Finish("OK") \/ (call.name = "LIST_ONE" /\ Finish("UNKNOWN"))
  BY <1>1, <1>3 DEF Step
<1>5. Served => request = <<>> /\ answer' = <<>>
  BY <1>1, ReadDoes
<1>6. Served => remote.marks = After(call, acked)
  BY <1>1, <1>2, <1>3, <1>5 DEF ForwardInv, Marks, Done
<1>7. Untouched
  BY <1>1, <1>2, <1>4, UntouchedFacts, FinishDoes DEF Untouched
<1>8. CASE st = "ERR" \/ Finish("UNKNOWN")
  <2>1. Stops
    BY <1>1, <1>4, <1>5, <1>8, FinishDoes DEF Stops, Served, Fatal
  <2> QED
    BY <1>7, <2>1 DEF Outcome
<1>9. CASE Served /\ Finish("OK")
  <2>1. call.name = "QUIT" => remote.gone = remote.marks
    BY <1>1, <1>2, <1>9, NowIs DEF ForwardInv, Gone, Done, Served
  <2>2. call.name = "PASS" /\ link => remote.st = "TRANS"
    BY <1>1, <1>2, <1>9, NowIs DEF ForwardInv, Agree, Done, Served
  <2>3. ~Cut /\ st # "ERR"
    BY <1>1, <1>9 DEF Cut, Served
  <2>4. Succeeds
    BY <1>1, <1>4, <1>5, <1>6, <1>9, <2>1, <2>2, <2>3, FinishDoes DEF Succeeds
  <2> QED
    BY <1>7, <2>4 DEF Outcome
<1> QED
  BY <1>3, <1>4, <1>8, <1>9 DEF Served

LEMMA LastLineOutcome == ASSUME ForwardInv, LastLine PROVE Outcome
<1>1. /\ pc = "lines" /\ Read /\ Head(answer).text = "." /\ UNCHANGED <<pf, num, wild, nsent>>
      /\ Step("OK")
  BY DEF LastLine
<1>2. Now.name \in {"LIST", "RETR"}
  BY <1>1 DEF ForwardInv, Calls
<1>3. Now = call /\ Len(todo) = 1 /\ st = "TRANS" /\ Served
  BY <1>1, <1>2, NowIs DEF Served
<1>4. Finish("OK")
  BY <1>1, <1>3 DEF Step
<1>5. /\ UNCHANGED <<link, request, remote>> /\ answer' \in Seq(Line) /\ answer # <<>>
      /\ request = <<>> /\ answer' = <<>>
  BY <1>1, <1>3, ReadDoes
<1>6. remote.marks = After(call, acked)
  BY <1>1, <1>2, <1>3 DEF ForwardInv, Marks, After
<1>7. Untouched
  BY <1>1, <1>4, <1>5, UntouchedFacts, FinishDoes DEF Untouched
<1>8. ~Cut
  BY <1>1, <1>5 DEF Cut
<1>9. Succeeds
  BY <1>1, <1>2, <1>3, <1>4, <1>5, <1>6, <1>8, FinishDoes DEF Succeeds
<1> QED
  BY <1>7, <1>9 DEF Outcome

(* STAT, answered: the number is that of the messages not marked            *)
LEMMA StatAnswered ==
  ASSUME ForwardInv, StatOk
  PROVE  /\ pc = "status" /\ st = "TRANS" /\ Served /\ request = <<>> /\ answer' = <<>>
         /\ UNCHANGED <<pf, nsent, link, request, remote>>
         /\ Now.name = "STAT" /\ pf.stat_done /\ remote.marks = acked
         /\ num' = Cardinality(Message \ acked) /\ num' \in 0 .. MaxMsg
         /\ wild' = (wild \/ num' < num) /\ wild' \in BOOLEAN
         /\ \/ todo = <<call>> /\ call.name = "STAT" /\ Len(todo) = 1
            \/ /\ todo = <<Cmd("STAT"), call>> /\ Tail(todo) = <<call>> /\ Len(todo) = 2
               /\ num = -1 /\ call.name # "STAT"
<1>1. /\ pc = "status" /\ Read /\ Head(answer).text = "+OK" /\ UNCHANGED <<pf, nsent>>
      /\ Now.name = "STAT" /\ num' = Head(answer).val /\ wild' = (wild \/ Head(answer).val < num)
  BY DEF StatOk, Now
<1>2. st = "TRANS" /\ Served
  BY <1>1, NowIs DEF Served
<1>3. answer # <<>> /\ request = <<>> /\ answer' = <<>> /\ UNCHANGED <<link, request, remote>>
  BY <1>1, <1>2, ReadDoes
<1>4. pf.stat_done /\ Head(answer).val = Cardinality(Message \ acked)
  BY <1>1, <1>2, <1>3 DEF ForwardInv, Stat, Done
<1>5. remote.marks = acked
  BY <1>1, <1>2, <1>3 DEF ForwardInv, Marks, Done, After
<1>6. num' \in 0 .. MaxMsg
  BY <1>1, <1>4, LeftToCount
<1>7. wild' \in BOOLEAN
  BY <1>1
<1>8. \/ todo = <<call>> /\ call.name = "STAT" /\ Len(todo) = 1
      \/ /\ todo = <<Cmd("STAT"), call>> /\ Tail(todo) = <<call>> /\ Len(todo) = 2
         /\ num = -1 /\ call.name # "STAT"
  BY <1>1, NowIs
<1> QED
  BY <1>1, <1>2, <1>3, <1>4, <1>5, <1>6, <1>7, <1>8

LEMMA StatOkKeeps == ASSUME ForwardInv, StatOk PROVE ForwardInv'
<1>1. \/ Step("OK")
      \/ st' = "ABORTED" /\ call' = None /\ todo' = <<>> /\ pc' = "idle" /\ UNCHANGED client
  BY DEF StatOk
<1>2. reply \in Reply /\ pf \in State /\ <<>> \in Seq(Line)
  BY UntouchedFacts
<1>3. ASSUME UNCHANGED <<lost, calls, quit>>, reply' \in Reply PROVE Untouched
  BY <1>2, <1>3, StatAnswered DEF Untouched
<1>4. CASE Step("OK") /\ Len(todo) = 2
  <2>1. GoesOn
    <3>1. todo = <<Cmd("STAT"), call>> /\ Tail(todo) = <<call>>
      BY <1>4, StatAnswered
    <3>2. todo' = Tail(todo) /\ pc' = "send" /\ UNCHANGED <<st, call>> /\ UNCHANGED client
      BY <1>4 DEF Step
    <3>3. UNCHANGED <<acked, asked, reply>>
      BY <3>2 DEF client
    <3> QED
      BY <3>1, <3>2, <3>3, StatAnswered DEF GoesOn
  <2>2. Untouched
    BY <1>2, <1>3, <1>4 DEF Step, client
  <2> QED
    BY <2>1, <2>2, GoOnKeeps
<1>5. CASE Step("OK") /\ Len(todo) = 1
  <2>1. Finish("OK")
    BY <1>5 DEF Step
  <2>2. ~Cut /\ st # "ERR" /\ pc # "idle" /\ call.name = "STAT"
    BY <1>5, StatAnswered DEF Cut
  <2>3. remote.marks = After(call, acked)
    BY <2>2, StatAnswered DEF After
  <2>4. Succeeds
    BY <2>1, <2>2, <2>3, FinishDoes, StatAnswered DEF Succeeds
  <2>5. Untouched
    BY <1>3, <2>1, <2>2, FinishDoes
  <2> QED
    BY <2>4, <2>5, SuccessKeeps
<1>6. CASE st' = "ABORTED" /\ call' = None /\ todo' = <<>> /\ pc' = "idle" /\ UNCHANGED client
  <2>1. ~Served' /\ st' = "ABORTED" /\ request' = <<>>
    BY <1>6, StatAnswered DEF Served
  <2>2. UNCHANGED <<lost, calls, acked, asked, quit, reply>>
    BY <1>6 DEF client
  <2>3. TypeOK'
    BY <1>2, <1>6, <2>2, StatAnswered
    DEF ForwardInv, TypeOK, Reply, State, Message, Command, Single, OnMsg, None, Line
  <2>4. Plans' /\ Calls' /\ Wire'
    BY <1>6, <2>1 DEF Plans, Calls, Wire, None
  <2>5. Marks' /\ Gone' /\ Agree'
    BY <2>1, <2>2, StatAnswered DEF ForwardInv, Marks, Gone, Agree
  <2>6. Stat' /\ CutEndsSession'
    BY <2>1, <2>2, StatAnswered DEF ForwardInv, Stat, CutEndsSession
  <2> QED
    BY <2>3, <2>4, <2>5, <2>6 DEF ForwardInv
<1> QED
  BY <1>1, <1>4, <1>5, <1>6, StatAnswered

(* A line is read and there are more                                        *)
LEMMA ReadOnKeeps ==
  ASSUME ForwardInv, pc \in {"status", "lines"}, Read, Served, pc' = "lines",
         Now.name \in {"LIST", "RETR"}, pc = "status" => Done,
         UNCHANGED <<st, client, call, todo, pf, num, wild, nsent>>
  PROVE  ForwardInv'
<1>1. /\ answer' \in Seq(Line) /\ UNCHANGED <<link, request, remote>> /\ request = <<>> /\ DotEnds'
      /\ \A i \in DOMAIN answer' : answer'[i].to = nsent
  BY ReadDoes
<1>2. UNCHANGED <<lost, calls, acked, asked, quit, reply>> /\ pc # "idle"
  BY DEF client
<1>3. remote.marks = acked
  BY <1>1 DEF ForwardInv, Marks, After, Done
<1>4. Now = call /\ call.name \in {"LIST", "RETR"}
  BY <1>2, NowIs
<1>5. TypeOK'
  BY <1>1, <1>2 DEF ForwardInv, TypeOK, Message, Command, Single, OnMsg, None, Line
<1>6. Plans' /\ Calls'
  BY <1>2 DEF ForwardInv, Plans, Calls, Now
<1>7. Wire'
  BY <1>1 DEF Wire, Served
<1>8. Marks' /\ Gone' /\ Agree'
  BY <1>1, <1>2, <1>3, <1>4 DEF ForwardInv, Marks, Gone, Agree, Served
<1>9. Stat' /\ CutEndsSession'
  BY <1>2 DEF ForwardInv, Stat, CutEndsSession
<1> QED
  BY <1>5, <1>6, <1>7, <1>8, <1>9 DEF ForwardInv

LEMMA StatusLinesKeeps == ASSUME ForwardInv, StatusLines PROVE ForwardInv'
<1>1. /\ pc = "status" /\ Read /\ Head(answer).text = "+OK" /\ Now.name \in {"LIST", "RETR"}
      /\ pc' = "lines" /\ UNCHANGED <<st, client, call, todo, pf, num, wild, nsent>>
  BY DEF StatusLines, Now
<1>2. Served /\ Done
  BY <1>1, NowIs, ReadDoes DEF Served, Done
<1> QED
  BY <1>1, <1>2, ReadOnKeeps

LEMMA ItemKeeps == ASSUME ForwardInv, Item PROVE ForwardInv'
<1>1. /\ pc = "lines" /\ Read /\ UNCHANGED <<pf, num, wild, nsent>>
      /\ Finish("UNKNOWN") \/ UNCHANGED <<st, client, call, todo, pc>>
  BY DEF Item
<1>2. Now.name \in {"LIST", "RETR"}
  BY <1>1 DEF ForwardInv, Calls
<1>3. st = "TRANS" /\ Served
  BY <1>1, <1>2, NowIs DEF Served
<1>4. CASE Finish("UNKNOWN")
  <2>1. Untouched
    BY <1>1, <1>3, <1>4, ReadDoes, FinishDoes, UntouchedFacts DEF Untouched
  <2>2. Stops
    BY <1>1, <1>3, <1>4, ReadDoes, FinishDoes DEF Stops, Fatal
  <2> QED
    BY <2>1, <2>2, StopKeeps
<1>5. CASE UNCHANGED <<st, client, call, todo, pc>>
  BY <1>1, <1>2, <1>3, <1>5, ReadOnKeeps
<1> QED
  BY <1>1, <1>4, <1>5

LEMMA SendKeeps == ASSUME ForwardInv, Send PROVE ForwardInv'
<1>1. /\ pc = "send" /\ pc' = "status" /\ nsent' = nsent + 1
      /\ request' = (IF link THEN <<Now>> ELSE request)
      /\ pf' = [pf EXCEPT !.stat_done = @ \/ Now.name = "STAT"]
      /\ UNCHANGED <<st, lost, calls, acked, asked, quit, reply, call, todo, num, wild, link, answer, remote>>
  BY DEF Send, Now, client
<1>2. /\ pf' \in State /\ pf'.pipe = pf.pipe /\ (pf.stat_done \/ Now.name = "STAT" => pf'.stat_done)
      /\ (num # -1 => pf'.stat_done)
  BY <1>1, UntouchedFacts
<1>3. Now \in Command /\ st \in {"AUTH", "TRANS", "ERR"} /\ (st = "ERR" => Now = Cmd("QUIT"))
  BY <1>1, NowIs, Commands
<1>4. Now' = Now
  BY <1>1 DEF Now
<1>5. Served => request = <<>> /\ answer = <<>> /\ remote.marks = acked
  BY <1>1 DEF ForwardInv, Wire, Marks
<1>6. request' = <<Now>> \/ request' = request
  BY <1>1
<1>7. request' \in Seq(Command) /\ Len(request') <= 1
  <2>1. <<Now>> \in Seq(Command) /\ Len(<<Now>>) <= 1
    BY <1>3
  <2>2. request \in Seq(Command) /\ Len(request) <= 1
    BY DEF ForwardInv, TypeOK
  <2> QED
    BY <1>6, <2>1, <2>2, Zenon
<1>8. nsent' \in Nat
  BY <1>1 DEF ForwardInv, TypeOK
<1>9. TypeOK'
  BY <1>1, <1>2, <1>7, <1>8 DEF ForwardInv, TypeOK, State, Message, Command, Single, OnMsg, None, Line
<1>10. Plans' /\ Calls'
  BY <1>1 DEF ForwardInv, Plans, Calls
<1>11. request' # <<>> => link
  BY <1>1 DEF ForwardInv, Wire
<1>12. Wire'
  <2>1. CASE Served
    <3>1. answer' = <<>> /\ DOMAIN answer' = {} /\ (request' = <<Now>> \/ request' = <<>>)
      BY <1>1, <1>5, <1>6, <2>1
    <3> QED
      BY <1>1, <1>4, <1>11, <2>1, <3>1 DEF Wire, Served, Whole, DotEnds
  <2>2. CASE ~Served
    BY <1>1, <1>3, <1>6, <1>11, <2>2 DEF ForwardInv, Wire, Served
  <2> QED
    BY <2>1, <2>2
<1>13. Marks' /\ Gone' /\ Agree'
  BY <1>1, <1>5 DEF ForwardInv, Marks, Gone, Agree, Served, Done
<1>14. Stat'
  BY <1>1, <1>2, <1>4, <1>5 DEF Stat, Served, Done
<1>15. CutEndsSession'
  BY <1>1, <1>2 DEF ForwardInv, CutEndsSession
<1> QED
  BY <1>9, <1>10, <1>12, <1>13, <1>14, <1>15 DEF ForwardInv

-----------------------------------------------------------------------------
(* The client gives a command, or the session is left                       *)

LEMMA BeginDoes ==
  ASSUME ForwardInv, NEW c \in Command, Begin(c), UNCHANGED <<num, wild>>
  PROVE  /\ pc = "idle" /\ pc' = "send" /\ call' = c /\ todo' \in Seq(Command)
         /\ Plans' /\ c # None
         /\ Served => request = <<>> /\ answer = <<>> /\ remote.marks = acked /\ remote.gone = {}
<1>1. pc = "idle" /\ pc' = "send" /\ call' = c /\ todo' = Plan(c)
  BY DEF Begin
<1>2. ~pf.stat_done => num = -1
  BY DEF ForwardInv, Stat
<1>3. Plans'
  BY <1>1, <1>2, PlanOf DEF Plans
<1>4. call = None
  BY <1>1 DEF ForwardInv, TypeOK
<1>5. Served => request = <<>> /\ answer = <<>> /\ remote.marks = acked /\ remote.gone = {}
  BY <1>1, <1>4 DEF ForwardInv, Wire, Marks, Gone, None
<1> QED
  BY <1>1, <1>3, <1>5, PlanOf, Commands

LEMMA UserKeeps == ASSUME ForwardInv, User PROVE ForwardInv'
<1>1. Cmd("USER") \in Command /\ Cmd("USER").name = "USER"
  BY Commands DEF Single
<1>2. /\ st = "AUTH" /\ Begin(Cmd("USER")) /\ link' = TRUE /\ Served
      /\ pf' = [pf EXCEPT !.up = TRUE] /\ remote' = [remote EXCEPT !.st = "AUTH"]
      /\ UNCHANGED <<st, lost, calls, acked, asked, quit, reply, num, wild, nsent, request, answer>>
  BY DEF User, client, Served
<1>3. /\ pc' = "send" /\ call' = Cmd("USER") /\ todo' \in Seq(Command) /\ Plans' /\ call' # None
      /\ request = <<>> /\ answer = <<>> /\ remote.marks = acked /\ remote.gone = {}
  BY <1>1, <1>2, BeginDoes
<1>4. /\ pf' \in State /\ pf'.pipe = pf.pipe /\ pf'.stat_done = pf.stat_done
      /\ remote' \in [st : {"AUTH", "TRANS", "CLOSED"}, marks : SUBSET Message, gone : SUBSET Message]
      /\ remote'.marks = remote.marks /\ remote'.gone = remote.gone
  BY <1>2 DEF ForwardInv, TypeOK, State
<1>5. TypeOK'
  BY <1>1, <1>2, <1>3, <1>4 DEF ForwardInv, TypeOK, State, Message, Command, Single, OnMsg, None, Line
<1>6. Calls'
  BY <1>1, <1>2, <1>3 DEF Calls
<1>7. Wire'
  BY <1>2, <1>3 DEF Wire, Served
<1>8. Marks' /\ Gone' /\ Agree' /\ Stat' /\ CutEndsSession'
  BY <1>2, <1>3, <1>4 DEF ForwardInv, Marks, Gone, Agree, Stat, CutEndsSession, Served
<1> QED
  BY <1>3, <1>5, <1>6, <1>7, <1>8 DEF ForwardInv

(* The commands given on a connection there is, and that of leaving         *)
LEMMA GivenKeeps ==
  ASSUME ForwardInv, NEW c \in Command, Begin(c),
         UNCHANGED <<lost, acked, reply, pf, num, wild, nsent, link, request, answer, remote>>,
         calls' \in 0 .. MaxCalls, quit' \in BOOLEAN,
         asked \subseteq asked', asked' \subseteq Message, c.name = "DELE" => c.msg \in asked',
         \/ st = "AUTH" /\ st' = "AUTH" /\ c.name = "PASS"
         \/ st = "TRANS" /\ st' = "TRANS" /\ c.name \notin {"USER", "PASS"}
         \/ st \in {"AUTH", "TRANS", "ERR"} /\ st' = "ERR" /\ c.name = "QUIT"
  PROVE  ForwardInv'
<1>1. /\ pc = "idle" /\ pc' = "send" /\ call' = c /\ todo' \in Seq(Command) /\ Plans' /\ c # None
      /\ Served => request = <<>> /\ answer = <<>> /\ remote.marks = acked /\ remote.gone = {}
  BY BeginDoes
<1>2. Served' => Served
  BY DEF Served
<1>3. acked \subseteq asked'
  BY DEF ForwardInv, TypeOK
<1>4. st' \in {"AUTH", "TRANS", "ERR"} /\ reply' = reply /\ pf' = pf
  OBVIOUS
<1>5. TypeOK'
  BY <1>1, <1>3, <1>4 DEF ForwardInv, TypeOK, Message, Command, Single, OnMsg, None, Line
<1>6. Calls'
  BY <1>1 DEF Calls
<1>7. Wire'
  <2>1. CASE Served
    BY <1>1, <2>1 DEF Wire, Served
  <2>2. CASE ~Served
    BY <1>2, <2>2 DEF ForwardInv, Wire, Served
  <2> QED
    BY <2>1, <2>2
<1>8. Marks' /\ Gone'
  BY <1>1, <1>2, <1>4 DEF ForwardInv, Marks, Gone
<1>9. Agree' /\ Stat' /\ CutEndsSession'
  BY <1>1, <1>2, <1>4 DEF ForwardInv, Agree, Stat, CutEndsSession, Served
<1> QED
  BY <1>1, <1>5, <1>6, <1>7, <1>8, <1>9 DEF ForwardInv

LEMMA PassKeeps == ASSUME ForwardInv, Pass PROVE ForwardInv'
<1>1. Cmd("PASS") \in Command /\ Cmd("PASS").name = "PASS"
  BY Commands DEF Single
<1>2. asked \subseteq Message /\ calls \in 0 .. MaxCalls /\ quit \in BOOLEAN
  BY DEF ForwardInv, TypeOK
<1>3. /\ st = "AUTH" /\ Begin(Cmd("PASS")) /\ calls < MaxCalls /\ calls' = calls + 1
      /\ UNCHANGED <<st, lost, acked, asked, quit, reply, pf, num, wild, nsent, link, request, answer, remote>>
  BY DEF Pass, other
<1>4. calls' \in 0 .. MaxCalls
  BY <1>2, <1>3, Bounds
<1> QED
  BY <1>1, <1>2, <1>3, <1>4, GivenKeeps

LEMMA GiveKeeps == ASSUME ForwardInv, Give PROVE ForwardInv'
<1>1. PICK c \in Command :
        /\ c.name \notin {"USER", "PASS"} /\ Begin(c)
        /\ asked' = IF c.name = "DELE" THEN asked \cup {c.msg} ELSE asked
        /\ quit' = (c.name = "QUIT")
  BY DEF Give
<1>2. /\ st = "TRANS" /\ calls < MaxCalls /\ calls' = calls + 1
      /\ UNCHANGED <<st, lost, acked, reply, pf, num, wild, nsent, link, request, answer, remote>>
  BY DEF Give, other
<1>3. asked \subseteq Message /\ calls \in 0 .. MaxCalls
  BY DEF ForwardInv, TypeOK
<1>4. calls' \in 0 .. MaxCalls
  BY <1>2, <1>3, Bounds
<1>5. c.name = "DELE" => c.msg \in Message
  BY Commands DEF OnMsg
<1>6. quit' \in BOOLEAN
  BY <1>1
<1>7. asked \subseteq asked' /\ asked' \subseteq Message /\ (c.name = "DELE" => c.msg \in asked')
  BY <1>1, <1>3, <1>5
<1> QED
  BY <1>1, <1>2, <1>4, <1>6, <1>7, GivenKeeps

LEMMA LeaveKeeps == ASSUME ForwardInv, Leave PROVE ForwardInv'
<1>1. Cmd("QUIT") \in Command /\ Cmd("QUIT").name = "QUIT"
  BY Commands DEF Single
<1>2. asked \subseteq Message /\ calls \in 0 .. MaxCalls /\ quit \in BOOLEAN
  BY DEF ForwardInv, TypeOK
<1>3. /\ st \in {"AUTH", "TRANS", "ERR"} /\ st' = "ERR" /\ Begin(Cmd("QUIT"))
      /\ UNCHANGED <<lost, calls, acked, asked, quit, reply, pf, num, wild, nsent, link, request, answer, remote>>
  BY DEF Leave, client, other
<1> QED
  BY <1>1, <1>2, <1>3, GivenKeeps

LEMMA ClientLostKeeps == ASSUME ForwardInv, ClientLost PROVE ForwardInv'
<1>1. /\ lost' = TRUE
      /\ UNCHANGED <<st, calls, acked, asked, quit, reply, call, todo, pc, pf, num, wild, nsent, link, request, answer, remote>>
  BY DEF ClientLost, plugin, other
<1>2. TypeOK'
  BY <1>1 DEF ForwardInv, TypeOK
<1>3. Plans' /\ Calls' /\ Wire'
  BY <1>1 DEF ForwardInv, Plans, Calls, Wire, Served, Now, Whole, DotEnds
<1>4. Marks' /\ Gone' /\ Agree' /\ Stat' /\ CutEndsSession'
  BY <1>1 DEF ForwardInv, Marks, Gone, Agree, Stat, CutEndsSession, Served, Now, Done
<1> QED
  BY <1>2, <1>3, <1>4 DEF ForwardInv

LEMMA OverKeeps == ASSUME ForwardInv, Over PROVE ForwardInv'
<1>1. /\ st = "END" /\ st' = "DONE"
      /\ UNCHANGED <<lost, calls, acked, asked, quit, reply, call, todo, pc, pf, num, wild, nsent, link, request, answer, remote>>
  BY DEF Over, client, plugin, other
<1>2. pc = "idle"
  BY <1>1 DEF ForwardInv, Calls
<1>3. TypeOK'
  BY <1>1 DEF ForwardInv, TypeOK
<1>4. Plans' /\ Calls' /\ Wire'
  BY <1>1, <1>2 DEF ForwardInv, Plans, Calls, Wire, Served
<1>5. Marks' /\ Gone' /\ Agree' /\ Stat' /\ CutEndsSession'
  BY <1>1, <1>2 DEF ForwardInv, Marks, Gone, Agree, Stat, CutEndsSession, Served
<1> QED
  BY <1>3, <1>4, <1>5 DEF ForwardInv

-----------------------------------------------------------------------------
(* The other server, and the connection to it                               *)

(* These change nothing but the connection and the server                   *)
Remotely == UNCHANGED <<st, client, plugin, nsent>>

LEMMA RemoteFrame ==
  ASSUME ForwardInv, Remotely, link' \in BOOLEAN, request' = <<>>, answer' \in Seq(Line),
         remote' \in [st : {"AUTH", "TRANS", "CLOSED"}, marks : SUBSET Message, gone : SUBSET Message]
  PROVE  /\ TypeOK' /\ Plans' /\ Calls' /\ CutEndsSession'
         /\ UNCHANGED <<lost, calls, acked, asked, quit, reply, call, todo, pc, pf, num, wild>>
         /\ Now' = Now /\ (Served' <=> Served)
<1>1. UNCHANGED <<lost, calls, acked, asked, quit, reply, call, todo, pc, pf, num, wild>>
  BY DEF Remotely, client, plugin
<1>2. TypeOK'
  <2>1. <<>> \in Seq(Command) /\ Len(<<>>) <= 1
    OBVIOUS
  <2> QED
    BY <1>1, <2>1 DEF Remotely, ForwardInv, TypeOK, Message, Command, Single, OnMsg, None, Line
<1>3. Plans' /\ Calls' /\ CutEndsSession' /\ Now' = Now
  BY <1>1 DEF Remotely, ForwardInv, Plans, Calls, CutEndsSession, Now
<1> QED
  BY <1>1, <1>2, <1>3 DEF Remotely, Served

(* A request of a client that is served                                     *)
LEMMA RequestIs ==
  ASSUME ForwardInv, request # <<>>
  PROVE  /\ link /\ (Served => pc = "status" /\ request = <<Now>> /\ Head(request) = Now /\ answer = <<>>)
         /\ ~Served => Head(request) = Cmd("QUIT") /\ Head(request).name = "QUIT" /\ st \in {"ERR", "DONE"}
         /\ Served => remote.marks = acked
         /\ Head(request) \in Command /\ nsent \in Nat /\ answer \in Seq(Line)
<1>1. request \in Seq(Command) /\ nsent \in Nat /\ answer \in Seq(Line) /\ pc \in {"idle", "send", "status", "lines"}
  BY DEF ForwardInv, TypeOK
<1>2. link /\ (Served => pc = "status" /\ request = <<Now>> /\ answer = <<>>)
  BY <1>1 DEF ForwardInv, Wire
<1>3. ~Served => request = <<Cmd("QUIT")>> /\ st \in {"ERR", "DONE"}
  BY DEF ForwardInv, Wire
<1>4. Cmd("QUIT").name = "QUIT"
  BY DEF Cmd
<1>5. Served => remote.marks = acked
  BY <1>2 DEF ForwardInv, Marks
<1> QED
  BY <1>1, <1>2, <1>3, <1>4, <1>5

(* An answer to it                                                          *)
LEMMA AnswerWire ==
  ASSUME ForwardInv, request # <<>>, Remotely, link' \in BOOLEAN, request' = <<>>,
         answer' \in Seq(Line), answer' # <<>>,
         remote' \in [st : {"AUTH", "TRANS", "CLOSED"}, marks : SUBSET Message, gone : SUBSET Message],
         Served => Whole' /\ DotEnds' /\ \A i \in DOMAIN answer' : answer'[i].to = nsent
  PROVE  TypeOK' /\ Plans' /\ Calls' /\ Wire' /\ CutEndsSession'
<1>1. TypeOK' /\ Plans' /\ Calls' /\ CutEndsSession' /\ (Served' <=> Served) /\ pc' = pc /\ nsent' = nsent
  BY RemoteFrame DEF Remotely
<1>2. Served => pc = "status"
  BY RequestIs
<1>3. Wire'
  BY <1>1, <1>2 DEF Wire
<1> QED
  BY <1>1, <1>3

LEMMA RefuseKeeps == ASSUME ForwardInv, Refuse PROVE ForwardInv'
<1>1. /\ request # <<>> /\ Head(request).name # "QUIT" /\ request' = <<>>
      /\ answer' = Append(answer, Says("-ERR", 0)) /\ UNCHANGED <<remote, link>> /\ Remotely
  BY DEF Refuse, Stays, Remotely
<1>2. Served /\ pc = "status" /\ Head(request) = Now /\ answer = <<>> /\ remote.marks = acked /\ nsent \in Nat
  BY <1>1, RequestIs
<1>3. Says("-ERR", 0) \in Line /\ Says("-ERR", 0).text = "-ERR" /\ Says("-ERR", 0).to = nsent
  BY <1>2 DEF Says, Line
<1>4. /\ answer' \in Seq(Line) /\ answer' # <<>> /\ Len(answer') = 1 /\ DOMAIN answer' = {1}
      /\ answer'[1] = Says("-ERR", 0) /\ Head(answer') = Says("-ERR", 0)
  BY <1>1, <1>2, <1>3
<1>5. Whole' /\ DotEnds' /\ \A i \in DOMAIN answer' : answer'[i].to = nsent
  BY <1>3, <1>4 DEF Whole, DotEnds
<1>6. link \in BOOLEAN /\ remote \in [st : {"AUTH", "TRANS", "CLOSED"}, marks : SUBSET Message, gone : SUBSET Message]
  BY DEF ForwardInv, TypeOK
<1>7. TypeOK' /\ Plans' /\ Calls' /\ Wire' /\ CutEndsSession'
  BY <1>1, <1>4, <1>5, <1>6, AnswerWire
<1>8. /\ UNCHANGED <<acked, asked, call, pc, num, pf>> /\ st' = st /\ (Served' <=> Served) /\ Now' = Now
      /\ ~Done'
  BY <1>1, <1>3, <1>4, <1>6, RemoteFrame DEF Remotely, Done
<1>9. Marks'
  BY <1>1, <1>2, <1>8 DEF ForwardInv, Marks
<1>10. call.name # "QUIT"
  BY <1>1, <1>2, NowIs
<1>11. Gone' /\ Agree' /\ Stat'
  BY <1>1, <1>8, <1>10 DEF ForwardInv, Gone, Agree, Stat
<1> QED
  BY <1>7, <1>9, <1>11 DEF ForwardInv

LEMMA BreakKeeps == ASSUME ForwardInv, Break PROVE ForwardInv'
<1>1. /\ ~link' /\ link' \in BOOLEAN /\ request' = <<>> /\ remote' = [remote EXCEPT !.st = "CLOSED"] /\ Remotely
  BY DEF Break, Remotely
<1>2. answer \in Seq(Line) /\ request \in Seq(Command)
      /\ remote \in [st : {"AUTH", "TRANS", "CLOSED"}, marks : SUBSET Message, gone : SUBSET Message]
  BY DEF ForwardInv, TypeOK
<1>3. /\ remote' \in [st : {"AUTH", "TRANS", "CLOSED"}, marks : SUBSET Message, gone : SUBSET Message]
      /\ remote'.marks = remote.marks /\ remote'.gone = remote.gone
  BY <1>1, <1>2
<1>4. PICK n \in 0 .. Len(answer) : answer' = SubSeq(answer, 1, n)
  BY DEF Break
<1>5. /\ answer' \in Seq(Line) /\ Len(answer') = n /\ DOMAIN answer' \subseteq DOMAIN answer
      /\ \A i \in DOMAIN answer' : answer'[i] = answer[i]
  BY <1>2, <1>4
<1>6. answer' # <<>> => answer # <<>> /\ Head(answer') = Head(answer)
  BY <1>2, <1>5
<1>7. /\ TypeOK' /\ Plans' /\ Calls' /\ CutEndsSession' /\ Now' = Now /\ (Served' <=> Served)
      /\ UNCHANGED <<acked, asked, call, pc, num, pf, st, nsent>>
  BY <1>1, <1>3, <1>5, RemoteFrame DEF Remotely
<1>8. DotEnds => DotEnds'
  BY <1>2, <1>5 DEF DotEnds
<1>9. Whole => Whole'
  BY <1>2, <1>5, <1>6, <1>7 DEF Whole
<1>10. answer = <<>> => answer' = <<>> /\ Whole' /\ DotEnds'
  BY <1>2, <1>5 DEF Whole, DotEnds
<1>11. Wire'
  BY <1>1, <1>5, <1>7, <1>8, <1>9, <1>10 DEF ForwardInv, Wire
<1>12. Done' => Done
  BY <1>6 DEF Done
<1>13. Marks'
  <2>1. answer' # <<>> => (Done' <=> Done) /\ answer # <<>>
    BY <1>6 DEF Done
  <2>2. Served /\ pc = "status" => remote.marks \in {acked, After(Now, acked)}
    BY DEF ForwardInv, Marks
  <2>3. request # <<>> => answer' = <<>> \/ ~Served
    BY <1>10, RequestIs
  <2> QED
    BY <1>1, <1>3, <1>7, <2>1, <2>2, <2>3 DEF ForwardInv, Marks, Done
<1>14. Gone' /\ Agree'
  BY <1>1, <1>3, <1>6, <1>7, <1>12 DEF ForwardInv, Gone, Agree, Done
<1>15. Stat'
  BY <1>6, <1>7, <1>12 DEF ForwardInv, Stat, Done
<1> QED
  BY <1>7, <1>11, <1>13, <1>14, <1>15 DEF ForwardInv

RemoteState == [st : {"AUTH", "TRANS", "CLOSED"}, marks : SUBSET Message, gone : SUBSET Message]

(* An answer of one line to the current command                             *)
LEMMA OneLine ==
  ASSUME NEW v \in Nat, nsent \in Nat, answer = <<>>, answer' = answer \o <<Says("+OK", v)>>,
         UNCHANGED <<todo, nsent>>
  PROVE  /\ answer' \in Seq(Line) /\ answer' # <<>> /\ Head(answer') = Says("+OK", v)
         /\ Head(answer').text = "+OK" /\ Head(answer').val = v
         /\ Whole' /\ DotEnds' /\ \A i \in DOMAIN answer' : answer'[i].to = nsent
<1>1. /\ Says("+OK", v) \in Line /\ Says("+OK", v).to = nsent /\ Says("+OK", v).text = "+OK"
      /\ Says("+OK", v).val = v
  BY DEF Says, Line
<1>2. answer' = <<Says("+OK", v)>>
  BY <1>1, TwoInARow
<1>3. /\ answer' \in Seq(Line) /\ answer' # <<>> /\ Head(answer') = Says("+OK", v) /\ Len(answer') = 1
      /\ \A i \in DOMAIN answer' : i = 1 /\ answer'[i] = Says("+OK", v)
  BY <1>1, <1>2
<1> QED
  BY <1>1, <1>3 DEF Whole, DotEnds

(* One of several                                                           *)
LEMMA ManyLines ==
  ASSUME NEW n \in Nat, NEW s \in [1 .. n -> Nat], nsent \in Nat, answer = <<>>,
         Now.name \in {"LIST", "RETR"}, UNCHANGED <<todo, nsent>>,
         answer' = answer \o <<Says("+OK", 0)>> \o Items(s) \o <<Says(".", 0)>>
  PROVE  /\ answer' \in Seq(Line) /\ answer' # <<>> /\ Head(answer').text = "+OK"
         /\ Whole' /\ DotEnds' /\ \A i \in DOMAIN answer' : answer'[i].to = nsent
<1>1. /\ Says("+OK", 0) \in Line /\ Says("+OK", 0).to = nsent /\ Says("+OK", 0).text = "+OK"
      /\ Says(".", 0) \in Line /\ Says(".", 0).to = nsent
  BY DEF Says, Line
<1>2. /\ Items(s) \in Seq(Line)
      /\ \A i \in DOMAIN Items(s) : Items(s)[i].text = "item" /\ Items(s)[i].to = nsent
  BY ItemsAreLines
<1>3. /\ answer' \in Seq(Line) /\ answer' # <<>> /\ Head(answer') = Says("+OK", 0)
      /\ \A i \in DOMAIN answer' :
           answer'[i] = IF i = 1 THEN Says("+OK", 0)
                        ELSE IF i = Len(answer') THEN Says(".", 0) ELSE Items(s)[i - 1]
      /\ \A i \in DOMAIN answer' : i # 1 /\ i # Len(answer') => i - 1 \in DOMAIN Items(s)
  BY <1>1, <1>2, Listing
<1>4. \A i \in DOMAIN answer' : i # Len(answer') => answer'[i].text # "."
  BY <1>1, <1>2, <1>3
<1>5. DotEnds'
  BY <1>4 DEF DotEnds
<1>6. \A i \in DOMAIN answer' : answer'[i].to = nsent
  BY <1>1, <1>2, <1>3
<1>7. Whole'
  BY <1>1, <1>3 DEF Whole, Now
<1> QED
  BY <1>1, <1>3, <1>5, <1>6, <1>7

(* What the other server does for a command, and what it says to the one    *)
(* the plugin works on                                                     *)
LEMMA AnswersDo ==
  ASSUME ForwardInv, Serve
  PROVE  LET c == Head(request) IN
         /\ Remotely /\ request # <<>> /\ request' = <<>> /\ c \in Command
         /\ remote' \in RemoteState /\ link' \in BOOLEAN
         /\ remote'.marks = After(c, remote.marks)
         /\ c.name = "QUIT" => remote'.gone = IF remote.st = "TRANS" THEN remote.marks ELSE {}
         /\ c.name = "QUIT" => ~link'
         /\ c.name # "QUIT" => remote'.gone = remote.gone /\ link' = link
         /\ c.name = "PASS" => remote'.st = "TRANS"
         /\ c.name \notin {"PASS", "QUIT"} => remote'.st = remote.st
         /\ answer' \in Seq(Line) /\ answer' # <<>>
         /\ Served => /\ c = Now /\ Head(answer').text = "+OK"
                      /\ Whole' /\ DotEnds' /\ \A i \in DOMAIN answer' : answer'[i].to = nsent
                      /\ c.name = "STAT" =>
                           Head(answer').val = Cardinality(Message \ remote.marks)
<1> DEFINE c == Head(request)
           Left == Message \ remote.marks
           Told == /\ answer' \in Seq(Line) /\ answer' # <<>> /\ Head(answer').text = "+OK"
                   /\ Whole' /\ DotEnds' /\ \A i \in DOMAIN answer' : answer'[i].to = nsent
<1>1. request # <<>> /\ request' = <<>> /\ Answers(c) /\ Remotely
  BY DEF Serve, Remotely
<1>2. /\ c \in Command /\ nsent \in Nat /\ answer \in Seq(Line) /\ link
      /\ Served => c = Now /\ answer = <<>>
      /\ ~Served => c.name = "QUIT"
  BY <1>1, RequestIs
<1>3. remote \in RemoteState
  BY DEF ForwardInv, TypeOK, RemoteState
<1>4. UNCHANGED <<todo, nsent>>
  BY <1>1 DEF Remotely, plugin
<1>5. Cardinality(Left) \in Nat
  BY LeftToCount
<1> HIDE DEF c
<1>6. CASE c.name \in {"USER", "NOOP", "LIST_ONE"}
  <2>1. Served
    BY <1>2, <1>6
  <2>2. UNCHANGED <<remote, link>> /\ \E v \in Nat : answer' = answer \o <<Says("+OK", v)>>
    <3>1. c.name = "LIST_ONE" => c.msg \in Nat
      BY <1>2, Commands DEF OnMsg, Message
    <3> QED
      BY <1>1, <1>6, <3>1 DEF Answers, Stays
  <2>3. Told
    BY <1>2, <1>4, <2>1, <2>2, OneLine
  <2> QED
    BY <1>1, <1>2, <1>3, <1>6, <2>1, <2>2, <2>3 DEF RemoteState, After, c
<1>7. CASE c.name = "STAT"
  <2>1. Served
    BY <1>2, <1>7
  <2>2. UNCHANGED <<remote, link>> /\ answer' = answer \o <<Says("+OK", Cardinality(Left))>>
    BY <1>1, <1>7 DEF Answers, Stays
  <2>3. Told /\ Head(answer').val = Cardinality(Left)
    BY <1>2, <1>4, <1>5, <2>1, <2>2, OneLine
  <2> QED
    BY <1>1, <1>2, <1>3, <1>7, <2>1, <2>2, <2>3 DEF RemoteState, After, c
<1>8. CASE c.name \in {"LIST", "RETR"}
  <2>1. Served
    BY <1>2, <1>8
  <2>2. UNCHANGED <<remote, link>>
    BY <1>1, <1>8 DEF Answers, Stays
  <2>3. \E n \in Nat : \E s \in [1 .. n -> Nat] :
          answer' = answer \o <<Says("+OK", 0)>> \o Items(s) \o <<Says(".", 0)>>
    <3>1. CASE c.name = "LIST"
      <4>1. PICK s \in SetToSeqs(Left) :
              answer' = answer \o <<Says("+OK", 0)>> \o Items(s) \o <<Says(".", 0)>>
        BY <1>1, <3>1 DEF Answers
      <4>2. s \in [1 .. Cardinality(Left) -> Nat]
        <5>1. s \in [1 .. Cardinality(Left) -> Left]
          BY <4>1 DEF SetToSeqs
        <5>2. Left \subseteq Nat
          BY DEF Message
        <5> HIDE DEF Left
        <5> QED
          BY <5>1, <5>2
      <4> QED
        BY <1>5, <4>1, <4>2
    <3>2. CASE c.name = "RETR"
      <4>1. answer' = answer \o <<Says("+OK", 0)>> \o Items([i \in 1 .. MaxLines |-> i]) \o <<Says(".", 0)>>
        BY <1>1, <3>2 DEF Answers
      <4>2. [i \in 1 .. MaxLines |-> i] \in [1 .. MaxLines -> Nat] /\ MaxLines \in Nat
        BY Bounds
      <4> QED
        BY <4>1, <4>2
    <3> QED
      BY <1>8, <3>1, <3>2
  <2>4. Told
    BY <1>2, <1>4, <1>8, <2>1, <2>3, ManyLines
  <2> QED
    BY <1>1, <1>2, <1>3, <1>8, <2>1, <2>2, <2>4 DEF RemoteState, After, c
<1>9. CASE c.name \in {"PASS", "DELE", "RSET"}
  <2>1. Served
    BY <1>2, <1>9
  <2>2. /\ answer' = answer \o <<Says("+OK", 0)>> /\ link' = link
        /\ c.name = "PASS" => remote' = [remote EXCEPT !.st = "TRANS"]
        /\ c.name = "DELE" => remote' = [remote EXCEPT !.marks = @ \cup {c.msg}]
        /\ c.name = "RSET" => remote' = [remote EXCEPT !.marks = {}]
    BY <1>1, <1>9 DEF Answers
  <2>3. Told
    BY <1>2, <1>4, <2>1, <2>2, OneLine
  <2>4. c.name = "DELE" => c.msg \in Message
    BY <1>2, Commands DEF OnMsg
  <2>5. /\ remote' \in RemoteState /\ remote'.marks = After(c, remote.marks)
        /\ remote'.gone = remote.gone
        /\ c.name = "PASS" => remote'.st = "TRANS"
        /\ c.name # "PASS" => remote'.st = remote.st
    <3>1. CASE c.name = "PASS"
      BY <1>3, <2>2, <3>1 DEF RemoteState, After
    <3>2. CASE c.name = "DELE"
      BY <1>3, <2>2, <2>4, <3>2 DEF RemoteState, After
    <3>3. CASE c.name = "RSET"
      BY <1>3, <2>2, <3>3 DEF RemoteState, After
    <3> QED
      BY <1>9, <3>1, <3>2, <3>3
  <2> QED
    BY <1>1, <1>2, <1>9, <2>1, <2>2, <2>3, <2>5 DEF c
<1>10. CASE c.name = "QUIT"
  <2>1. /\ answer' = answer \o <<Says("+OK", 0)>> /\ ~link' /\ link' \in BOOLEAN
        /\ remote' = [remote EXCEPT !.st = "CLOSED", !.gone = IF remote.st = "TRANS" THEN remote.marks ELSE {}]
    BY <1>1, <1>10 DEF Answers
  <2>2. /\ remote' \in RemoteState /\ remote'.marks = After(c, remote.marks)
        /\ remote'.gone = IF remote.st = "TRANS" THEN remote.marks ELSE {}
    BY <1>3, <1>10, <2>1 DEF RemoteState, After
  <2>3. Says("+OK", 0) \in Line
    BY <1>2 DEF Says, Line
  <2>4. answer' \in Seq(Line) /\ answer' # <<>>
    BY <1>2, <2>1, <2>3
  <2>5. Served => Told
    BY <1>2, <1>4, <2>1, OneLine
  <2> QED
    BY <1>1, <1>2, <1>10, <2>1, <2>2, <2>4, <2>5 DEF c
<1>11. c.name \in {"USER", "NOOP", "LIST_ONE", "STAT", "LIST", "RETR", "PASS", "DELE", "RSET", "QUIT"}
  BY <1>2 DEF Command, Single, OnMsg
<1> QED
  BY <1>6, <1>7, <1>8, <1>9, <1>10, <1>11

LEMMA ServeKeeps == ASSUME ForwardInv, Serve PROVE ForwardInv'
<1> DEFINE c == Head(request)
<1>1. request # <<>> /\ request' = <<>> /\ Remotely /\ remote' \in RemoteState /\ link' \in BOOLEAN
  BY AnswersDo
<1>2. answer' \in Seq(Line) /\ answer' # <<>> /\ c \in Command
  BY AnswersDo
<1>3. Served => Whole' /\ DotEnds' /\ \A i \in DOMAIN answer' : answer'[i].to = nsent
  BY AnswersDo
<1>4. TypeOK' /\ Plans' /\ Calls' /\ Wire' /\ CutEndsSession'
  BY <1>1, <1>2, <1>3, AnswerWire DEF RemoteState
<1>5. /\ UNCHANGED <<acked, asked, call, pc, num, pf>> /\ st' = st /\ (Served' <=> Served) /\ Now' = Now
  BY <1>1, <1>2, RemoteFrame DEF Remotely, RemoteState
<1>6. remote'.marks = After(c, remote.marks)
  BY AnswersDo
<1>7. /\ c.name = "QUIT" => remote'.gone = IF remote.st = "TRANS" THEN remote.marks ELSE {}
      /\ c.name = "QUIT" => ~link'
      /\ c.name # "QUIT" => remote'.gone = remote.gone /\ link' = link
      /\ c.name = "PASS" => remote'.st = "TRANS"
      /\ c.name \notin {"PASS", "QUIT"} => remote'.st = remote.st
  BY AnswersDo
<1>8. /\ link /\ (Served => pc = "status" /\ c = Now /\ remote.marks = acked)
      /\ ~Served => c.name = "QUIT" /\ st \in {"ERR", "DONE"}
  BY <1>1, RequestIs
<1>9. Served => Done'
  BY <1>2, AnswersDo DEF Done
<1>10. Served => (c = call \/ (c.name = "STAT" /\ call.name # "QUIT"))
  BY <1>8, NowIs
<1>11. c.name = "DELE" => c.msg \in asked
  BY <1>8, <1>10 DEF ForwardInv, Calls
<1> HIDE DEF c
<1>12. Marks'
  <2>1. remote'.marks \subseteq asked
    BY <1>6, <1>11 DEF ForwardInv, Marks, After
  <2>2. Served => remote'.marks = After(Now, acked) /\ pc = "status"
    BY <1>6, <1>8
  <2> QED
    BY <1>1, <1>2, <1>5, <1>9, <2>1, <2>2 DEF Marks
<1>13. Gone'
  <2>1. remote.gone \subseteq remote.marks /\ (Served /\ call.name # "QUIT" => remote.gone = {})
    BY DEF ForwardInv, Gone
  <2>2. c.name = "QUIT" => remote'.marks = remote.marks
    BY <1>6 DEF After
  <2>3. remote'.gone \subseteq remote'.marks
    <3>1. CASE c.name = "QUIT"
      BY <1>7, <2>2, <3>1
    <3>2. CASE c.name # "QUIT"
      <4>1. Served /\ call.name # "QUIT"
        BY <1>8, <1>10, <3>2
      <4> QED
        BY <1>7, <2>1, <3>2, <4>1
    <3> QED
      BY <3>1, <3>2
  <2>4. Served /\ call.name # "QUIT" => remote'.gone = {}
    BY <1>7, <1>10, <2>1
  <2>5. st = "TRANS" /\ call.name = "QUIT" => remote'.gone = remote'.marks
    <3> SUFFICES ASSUME st = "TRANS", call.name = "QUIT" PROVE remote'.gone = remote'.marks
      OBVIOUS
    <3>1. remote.st = "TRANS"
      BY <1>8 DEF ForwardInv, Agree
    <3>2. c.name = "QUIT"
      BY <1>10 DEF Served
    <3> QED
      BY <1>7, <2>2, <3>1, <3>2
  <2>6. st # "END"
    BY <1>8 DEF Served
  <2> QED
    BY <1>5, <1>9, <2>3, <2>4, <2>5, <2>6 DEF Gone
<1>14. Agree'
  <2> SUFFICES ASSUME link', st = "TRANS" \/ (st = "AUTH" /\ call.name = "PASS") PROVE remote'.st = "TRANS"
    BY <1>5 DEF Agree
  <2>1. Served /\ c.name # "QUIT"
    BY <1>7 DEF Served
  <2>2. CASE st = "TRANS"
    <3>1. remote.st = "TRANS"
      BY <1>8, <2>2 DEF ForwardInv, Agree
    <3> QED
      BY <1>7, <2>1, <3>1
  <2>3. CASE st = "AUTH" /\ call.name = "PASS"
    <3>1. c = call
      BY <1>8, <2>1, <2>3, NowIs
    <3> QED
      BY <1>7, <2>3, <3>1
  <2> QED
    BY <2>2, <2>3
<1>15. Stat'
  <2>1. Served /\ Now.name = "STAT" => Head(answer').val = Cardinality(Message \ acked)
    BY <1>8, AnswersDo DEF c
  <2> QED
    BY <1>5, <2>1 DEF ForwardInv, Stat
<1> QED
  BY <1>4, <1>12, <1>13, <1>14, <1>15 DEF ForwardInv

-----------------------------------------------------------------------------
(* The inductive invariant *)

(* The plugin's command, what is on its connection, the other server's      *)
(* marks and what the client was told fit together, for any mailbox.        *)
THEOREM ForwardInvariant == Spec => []ForwardInv
<1>1. Init => ForwardInv
  <2> SUFFICES ASSUME Init PROVE ForwardInv
    OBVIOUS
  <2>1. TypeOK
    <3>1. reply \in [status : {"+OK", "-ERR"}, cut : BOOLEAN]
      BY DEF Init
    <3>2. pf \in [up : BOOLEAN, stat_done : BOOLEAN, is_freepops : BOOLEAN, pipe : BOOLEAN]
      BY DEF Init
    <3>3. remote \in [st : {"AUTH", "TRANS", "CLOSED"}, marks : SUBSET Message, gone : SUBSET Message]
      BY DEF Init
    <3>4. calls \in 0 .. MaxCalls /\ num \in -1 .. MaxMsg
      BY Bounds DEF Init
    <3>5. todo \in Seq(Command) /\ request \in Seq(Command) /\ Len(request) <= 1 /\ answer \in Seq(Line)
      BY DEF Init
    <3>6. (call = None) = (pc = "idle")
      BY DEF Init
    <3> HIDE DEF None, Command, Line
    <3> QED
      BY <3>1, <3>2, <3>3, <3>4, <3>5, <3>6 DEF Init, TypeOK
  <2>2. Plans /\ Calls /\ Wire
    BY DEF Init, Plans, Calls, Wire, None, Served
  <2>3. Marks /\ Gone /\ Agree /\ Stat /\ CutEndsSession
    BY DEF Init, Marks, Gone, Agree, Stat, CutEndsSession
  <2> QED
    BY <2>1, <2>2, <2>3 DEF ForwardInv
<1>2. ForwardInv /\ [Next]_vars => ForwardInv'
  <2> SUFFICES ASSUME ForwardInv, [Next]_vars PROVE ForwardInv'
    OBVIOUS
  <2>1. CASE User \/ Pass \/ Give \/ Leave
    BY <2>1, UserKeeps, PassKeeps, GiveKeeps, LeaveKeeps
  <2>2. CASE ClientLost \/ Over
    BY <2>2, ClientLostKeeps, OverKeeps
  <2>3. CASE SingleLine
    BY <2>3, SendKeeps, StatOkKeeps, StatusLinesKeeps, OutcomeKeeps,
       SendFailsOutcome, SendNothingOutcome, StatusErrOutcome, NilOutcome, StatusOkOutcome
    DEF SingleLine
  <2>4. CASE Lines
    BY <2>4, ItemKeeps, LastLineOutcome, NilOutcome, OutcomeKeeps DEF Lines
  <2>5. CASE Network
    BY <2>5, ServeKeeps, RefuseKeeps, BreakKeeps DEF Network
  <2>6. CASE UNCHANGED vars
    <3>1. UNCHANGED <<st, lost, calls, acked, asked, quit, reply, call, todo, pc, pf, num, wild, nsent, link, request, answer, remote>>
      BY <2>6 DEF vars, client, plugin, other
    <3>2. TypeOK'
      BY <3>1 DEF ForwardInv, TypeOK
    <3>3. Plans' /\ Calls' /\ Wire'
      BY <3>1 DEF ForwardInv, Plans, Calls, Wire, Served, Now, Whole, DotEnds
    <3>4. Marks' /\ Gone' /\ Agree' /\ Stat' /\ CutEndsSession'
      BY <3>1 DEF ForwardInv, Marks, Gone, Agree, Stat, CutEndsSession, Served, Now, Done
    <3> QED
      BY <3>2, <3>3, <3>4 DEF ForwardInv
  <2> QED
    BY <2>1, <2>2, <2>3, <2>4, <2>5, <2>6 DEF Next, Thread
<1> QED
  BY <1>1, <1>2, PTL DEF Spec

(* The types of the variables.                                              *)
THEOREM TypeCorrect == Spec => []TypeOK
<1>1. ForwardInv => TypeOK
  BY DEF ForwardInv
<1> QED
  BY <1>1, ForwardInvariant, PTL

(* What is removed is what the client asked for, and after a QUIT answered  *)
(* +OK it is what the client was told is marked.                            *)
THEOREM RemovalIsHonest == Spec => []RemovedHonestly
<1>1. ForwardInv => RemovedHonestly
  BY DEF ForwardInv, Marks, Gone, RemovedHonestly
<1> QED
  BY <1>1, ForwardInvariant, PTL

(* Commands and answers stay in step while the client is served.            *)
THEOREM AnswersStayInStep == Spec => []InStep
<1>1. ForwardInv => InStep
  BY DEF ForwardInv, TypeOK, Wire, Served, InStep
<1> QED
  BY <1>1, ForwardInvariant, PTL

(* Without a pipe a message cut short is the last answer of the session.    *)
THEOREM CutsEndTheSession == Spec => []CutEndsSession
<1>1. ForwardInv => CutEndsSession
  BY DEF ForwardInv
<1> QED
  BY <1>1, ForwardInvariant, PTL

(* popstate.c frees what it has not allocated only at a STAT after a DELE.  *)
THEOREM OnlyItsOwnIsFreed == Spec => FreesItsOwn
<1>1. ForwardInv /\ [Next]_vars => [wild' => wild \/ (call.name = "STAT" /\ acked # {})]_vars
  <2> SUFFICES ASSUME ForwardInv, Next, wild', ~wild PROVE call.name = "STAT" /\ acked # {}
    OBVIOUS
  <2>1. StatOk \/ UNCHANGED wild
    BY DEF Next, User, Pass, Give, ClientLost, Thread, Leave, SingleLine, Lines, Over, Network,
           Send, SendFails, SendNothing, StatusErr, StatusNil, StatusOk, StatusLines,
           Item, LastLine, LinesNil, Serve, Refuse, Break, plugin
  <2>2. StatOk
    BY <2>1
  <2>3. num' < num /\ num' \in 0 .. MaxMsg /\ num \in -1 .. MaxMsg
    BY <2>2, StatAnswered DEF ForwardInv, TypeOK
  <2>4. call.name = "STAT"
    BY <2>2, <2>3, StatAnswered
  <2>5. acked # {}
    <3>1. num' = Cardinality(Message \ acked) /\ MaxMsg \in Nat
      BY <2>2, StatAnswered, Bounds
    <3>2. Cardinality(Message \ {}) = MaxMsg
      BY LeftToCount
    <3> QED
      BY <2>3, <3>1, <3>2
  <2> QED
    BY <2>4, <2>5
<1> QED
  BY <1>1, ForwardInvariant, PTL DEF Spec, FreesItsOwn
=============================================================================
