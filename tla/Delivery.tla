------------------------------ MODULE Delivery ------------------------------
(***************************************************************************)
(* The answer to RETR and to TOP, from the pieces a website delivers to    *)
(* the bytes on the client's connection: send_result_callback and          *)
(* popserver_callback (pop3server/popserver.c), retr_cb, top_cb and top    *)
(* (commonimpl_lua/common.lua), sock_send and sock_sendraw                 *)
(* (portablesocket/socketcommon.c), senddata and senddata_raw              *)
(* (portablesocket/altsocklib.c).                                          *)
(***************************************************************************)
EXTENDS StringHack

CONSTANTS
  Message,     \* the messages of a mailbox: a header, a blank line, a body
  Size,        \* the sizes the website's page may give for one, rounded
  Retr,        \* a request for the whole message, instead of a number of lines
  MaxLines,    \* bound: lines a TOP asks for
  MaxPartial,  \* bound: calls of send that send less than they are asked to
  Ok           \* "+OK ANSWER FOLLOW"

ASSUME MessageSet == Message \subseteq Seq(Byte)
ASSUME Sizes      == Size \subseteq Nat
ASSUME Requests   == MaxLines \in Nat /\ Retr \notin Nat /\ MaxPartial \in Nat
ASSUME OkIsNoByte == Ok \notin Byte
ASSUME Mails      == \A m \in Message : Matches(BlankLine, m) # {} /\ m[1] # Dot

VARIABLES
  msg,      \* the message
  lines,    \* what the client asked for
  size,     \* what the page gave for it
  pc,       \* where send_result_callback is
  result,   \* its result
  range,    \* do_until: which retrieval of a TOP this is
  rest,     \* what the website has not delivered yet
  cut,      \* how the pieces have cut it
  strhack,  \* struct strhack_t
  purge,    \* top_cb: the client has got what it asked for
  err,      \* error_occurred
  queue,    \* the strings being sent
  rc,       \* what the last send of the first of them returned
  partial,  \* how many calls of send have not sent everything
  told,     \* what sock_send and sock_sendraw have been given
  wire      \* what has been sent

request == <<msg, lines, size>>
plugin  == <<range, rest, cut, strhack, purge>>
socket  == <<err, queue, rc, partial, told, wire>>
vars    == <<request, pc, result, plugin, socket>>

Kept == UNION {[1 .. n -> Byte] : n \in {0, 3}}

(* Types; the rest of the message is a suffix of it                        *)
TypeOK ==
  /\ msg \in Message
  /\ lines \in 0 .. MaxLines \cup {Retr}
  /\ size \in Size
  /\ pc \in {"start", "answered", "callback", "dot", "over"}
  /\ result \in {"none", "ok", "failed"}
  /\ range \in {"first", "later", "failed"}
  /\ rest \in Seq(Byte)
  /\ cut \in {"fine", "rough", "short"}
  /\ strhack \in [header_done : BOOLEAN, current_lines : Nat, last3 : Kept, last4 : Kept]
  /\ purge \in BOOLEAN
  /\ err \in BOOLEAN
  /\ queue \in Seq(Seq(Byte \cup {Ok}))
  /\ rc \in Nat
  /\ partial \in 0 .. MaxPartial
  /\ told \in Seq(Byte \cup {Ok})
  /\ wire \in Seq(Byte \cup {Ok})
  /\ queue # <<>> => ~err /\ rc < Len(Head(queue))

Init ==
  /\ msg \in Message
  /\ lines \in 0 .. MaxLines \cup {Retr}
  /\ size \in Size
  /\ pc = "start"
  /\ result = "none"
  /\ range = "first"
  /\ rest = msg
  /\ cut = "fine"
  /\ strhack = [header_done |-> FALSE, current_lines |-> 0, last3 |-> <<>>, last4 |-> <<>>]
  /\ purge = FALSE
  /\ err = FALSE
  /\ queue = <<>>
  /\ rc = 0
  /\ partial = 0
  /\ told = <<>>
  /\ wire = <<>>

-----------------------------------------------------------------------------
(* One string or two                                                       *)
Joined(strings) == IF Len(strings) = 1 THEN strings[1] ELSE strings[1] \o strings[2]

(* sock_send and sock_sendraw: nothing is sent once an error has occurred  *)
Say(strings) ==
  IF err THEN UNCHANGED <<queue, told>>
  ELSE /\ queue' = strings
       /\ told' = told \o Joined(strings)

(* A call of send; the loop of senddata goes on while the last call        *)
(* returned less than the length, whatever the ones before have sent       *)
Send ==
  /\ queue # <<>>
  /\ \E n \in 1 .. Len(Head(queue)) - rc :
       /\ wire' = wire \o SubSeq(Head(queue), rc + 1, rc + n)
       /\ IF n = Len(Head(queue))
            THEN queue' = Tail(queue) /\ rc' = 0 /\ UNCHANGED partial
            ELSE /\ partial < MaxPartial
                 /\ partial' = partial + 1
                 /\ rc' = n
                 /\ UNCHANGED queue
  /\ UNCHANGED <<request, pc, result, plugin, err, told>>

(* Fault: a failure after something has been sent is taken for success     *)
SendFails_Lenient ==
  /\ queue # <<>>
  /\ IF rc = 0 THEN err' = TRUE /\ queue' = <<>> ELSE UNCHANGED err /\ queue' = Tail(queue)
  /\ rc' = 0
  /\ UNCHANGED <<request, pc, result, plugin, partial, told, wire>>

(* send returns -1: the client has gone                                    *)
SendFails ==
  /\ queue # <<>>
  /\ err' = TRUE
  /\ queue' = <<>>
  /\ rc' = 0
  /\ UNCHANGED <<request, pc, result, plugin, partial, told, wire>>

-----------------------------------------------------------------------------
(* A statement of send_result_callback or of a callback runs once the      *)
(* strings before it have been sent or have failed                         *)
Goto(from, to) == pc = from /\ queue = <<>> /\ pc' = to

Answer ==
  /\ Goto("start", "answered")
  /\ Say(<<<<Ok>>, Crlf>>)
  /\ UNCHANGED <<request, result, plugin, err, rc, partial, wire>>

(* Lost before the plugin is asked                                         *)
AnswerFails ==
  /\ Goto("answered", "over")
  /\ err
  /\ result' = "failed"
  /\ UNCHANGED <<request, plugin, socket>>

Marshaller ==
  /\ Goto("answered", "callback")
  /\ ~err
  /\ UNCHANGED <<request, result, plugin, socket>>

(* retr_cb                                                                 *)
RetrPiece(s) ==
  /\ lines = Retr
  /\ LET out == dothack(strhack.last4, s) IN
       /\ Say(<<out>>)
       /\ \E l4 \in KeepLast(out) : strhack' = [strhack EXCEPT !.last4 = l4]
  /\ UNCHANGED purge

(* tophack on the counters of strhack                                      *)
TopCount(s) ==
  LET a == strhack IN
  IF a.header_done THEN [a EXCEPT !.current_lines = @ + Lines(s)]
  ELSE IF HeaderEnds(a.last3, s)
    THEN [a EXCEPT !.header_done = TRUE, !.current_lines = BodyLines(a.last3, s)]
    ELSE a

(* top_cb.  The "\0" it has appended to the piece makes it miss the line    *)
(* end there may be: another one always follows the last piece.            *)
TopPiece(s) ==
  /\ lines # Retr
  /\ LET a    == TopCount(s)
         stop == check_stop(a.header_done, a.current_lines, lines)
         kept == IF stop THEN TopCut(s, a.current_lines, lines) ELSE s
         out  == dothack(a.last4, kept)
     IN /\ Say(IF stop THEN <<out, Crlf>> ELSE <<out>>)
        /\ \E l3 \in KeepLast(s), l4 \in KeepLast(out) :
             strhack' = [a EXCEPT !.last3 = IF strhack.header_done THEN @ ELSE l3,
                                  !.last4 = l4]
        /\ purge' = stop

(* A piece of less than three characters; or the line of a single dot is   *)
(* cut while dothack still sees an earlier dot, which it takes for the one  *)
(* it looks for                                                            *)
Cut(n) ==
  LET c == Len(msg) - Len(rest) + n IN
  IF n < 3 THEN "short"
  ELSE IF \E i \in Matches(LoneDot, msg) : c \in i .. i + 2 /\ Dot \in {msg[j] : j \in c - 2 .. i - 1}
    THEN "rough" ELSE "fine"
Worse(a, b) == IF "short" \in {a, b} THEN "short" ELSE IF "rough" \in {a, b} THEN "rough" ELSE "fine"

(* The website delivers a piece of any length; the callback asks for more  *)
(* whether or not the client is still there                                *)
Piece ==
  /\ Goto("callback", "callback")
  /\ ~purge
  /\ \E n \in 1 .. Len(rest) :
       /\ RetrPiece(SubSeq(rest, 1, n)) \/ TopPiece(SubSeq(rest, 1, n))
       /\ rest' = SubSeq(rest, n + 1, Len(rest))
       /\ cut' = Worse(cut, Cut(n))
  /\ UNCHANGED <<request, range, result, err, rc, partial, wire>>

(* TOP retrieves the message range by range, and looks whether it may stop  *)
(* behind each: at the lines asked for, or at the size the page gave        *)
Delivered == Len(msg) - Len(rest)
MayStop   == purge \/ Delivered >= size

RangeEnds ==
  /\ Goto("callback", "callback")
  /\ lines # Retr /\ Delivered > 0
  /\ ~MayStop
  /\ range' = "later"
  /\ UNCHANGED <<request, result, rest, cut, strhack, purge, socket>>

(* The plugin is content: RETR with all there is, TOP where it may stop     *)
PluginEnds ==
  /\ Goto("callback", "dot")
  /\ IF lines = Retr THEN rest = <<>> ELSE Delivered > 0 /\ MayStop
  /\ Say(<<<<Dot>>, Crlf>>)
  /\ UNCHANGED <<request, result, plugin, err, rc, partial, wire>>

(* A range after the first fails, in the middle or past the end of the     *)
(* message: do_until breaks and returns what the range before it was       *)
LaterRangeFails ==
  /\ Goto("callback", "dot")
  /\ range = "later"
  /\ range' = "failed"
  /\ Say(<<<<Dot>>, Crlf>>)
  /\ UNCHANGED <<request, result, rest, cut, strhack, purge, err, rc, partial, wire>>

(* The only retrieval of a RETR or the first of a TOP fails, before the     *)
(* first piece or after any: the answer is closed as if it were complete   *)
PluginFails ==
  /\ Goto("callback", "dot")
  /\ range = "first"
  /\ result' = "failed"
  /\ Say(<<<<Dot>>, Crlf>>)
  /\ UNCHANGED <<request, plugin, err, rc, partial, wire>>

Over ==
  /\ Goto("dot", "over")
  /\ result' = IF result = "failed" \/ err THEN "failed" ELSE "ok"
  /\ UNCHANGED <<request, plugin, socket>>

Next ==
  \/ Send \/ SendFails
  \/ Answer \/ AnswerFails \/ Marshaller
  \/ Piece \/ RangeEnds \/ PluginEnds \/ LaterRangeFails \/ PluginFails \/ Over

Spec == Init /\ [][Next]_vars

-----------------------------------------------------------------------------
(* What the client makes of it (doc/rfc/rfc1939.txt, section 3): the lines   *)
(* after the first, up to one that is a single dot, without the first dot  *)
(* of those that begin with one                                            *)
Ends(w)   == Matches(Crlf \o <<Dot>> \o Crlf, w)
Answered(w) == SubSeq(w, 4, First(Ends(w)) + 1)
Unstuffed(b) ==
  FlattenSeq([i \in 1 .. Len(b) |->
    IF b[i] = Dot /\ (i = 1 \/ i - 2 \in Matches(Crlf, b)) THEN <<>> ELSE <<b[i]>>])
Received == Unstuffed(Answered(wire))

(* A message that ends with a line; one whose lines begin with a dot only   *)
(* if they are that dot                                                    *)
Whole(m) == Len(m) - 1 \in Matches(Crlf, m)
Plain(m) ==
  \A i \in Matches(Crlf \o <<Dot>>, m) : i \in Matches(LoneDot, m)

Succeeded == pc = "over" /\ result = "ok"

(* An answer that was given successfully has been sent to the last byte:   *)
(* the loop that forgets what it has sent ends in an error, never short    *)
SuccessMeansSent == Succeeded => wire = told

(* A TOP that stopped before the end of the message and before it had      *)
(* counted the lines: the size on the page was smaller than the message,   *)
(* or a range after the first failed                                       *)
StoppedShort == ~purge /\ rest # <<>> /\ (size < Len(msg) \/ range = "failed")

(* After a successful answer client and server agree where it ended, so    *)
(* the next command is read as one: no line of the message is taken for    *)
(* the end and the line that is the end is seen.  This of messages that    *)
(* end with a line and come in pieces of three bytes or more, none of      *)
(* which cuts a line of a single dot close behind another dot ("fine"):     *)
(* dothack is not right for every cut, though lstringhack.c:70 says so.    *)
(* Of TOP, for messages without a line that begins with a dot (a piece     *)
(* that ends after that dot and is not cut is followed by the line end of  *)
(* top_cb) and if it did not stop short, in the middle of a line.          *)
InStep ==
  Succeeded /\ cut = "fine" /\ Whole(msg)
  /\ (lines = Retr \/ (Matches(Crlf \o <<Dot>>, msg) = {} /\ ~StoppedShort))
    => Ends(wire) = {Len(wire) - 4}

(* RETR: the client gets the message, if its pieces are fine as above and   *)
(* no line begins with a dot but those that are only that (Plain): dothack  *)
(* stuffs no others, and the client takes their dot away                   *)
DeliveredWhole ==
  Succeeded /\ lines = Retr /\ cut = "fine" /\ Whole(msg) /\ Plain(msg)
    => Received = msg

Body(m)  == SubSeq(m, First(Matches(BlankLine, m)) + 4, Len(m))
FirstLines(k, b) ==
  Cardinality({i \in DOMAIN b : Cardinality({j \in Matches(Crlf, b) : j + 1 < i}) < k})

(* TOP that did not stop short, of messages without a line that begins with *)
(* a dot, in fine pieces: the client gets the header and at least the      *)
(* lines it asked for, and nothing that is not in the message but the line *)
(* end top_cb adds.  It may get more: a piece that goes too far is sent     *)
(* whole when the ones before had all the lines.  TOP 0 drops the blank    *)
(* line.                                                                   *)
TopEnough ==
  Succeeded /\ lines # Retr /\ cut = "fine" /\ Whole(msg) /\ ~StoppedShort
  /\ Matches(Crlf \o <<Dot>>, msg) = {}
    => /\ IsPrefix(Received, msg) \/ IsPrefix(SubSeq(Received, 1, Len(Received) - 2), msg)
       /\ Len(Received) >= Len(msg) - Len(Body(msg)) + FirstLines(lines, Body(msg))
                             - (IF lines = 0 THEN 2 ELSE 0)
=============================================================================
