---------------------------- MODULE LineReceiver ----------------------------
(***************************************************************************)
(* How a POP3 session gets its next command: recvstring_with_timeout       *)
(* (modules/src/portablesocket/altsocklib.c) cuts the bytes of a socket    *)
(* into lines.  Each session has its own receive buffer, but the state of  *)
(* the parser is a static variable that all of them share.                 *)
(***************************************************************************)
EXTENDS Integers, SequencesExt

CONSTANTS
  Session,     \* the POP3 sessions, each in a thread of its own
  Char,        \* what a command is made of, bytes other than the line ends
  Cr, Lf,      \* the ends of a line
  Line,        \* what a client may send as a line
  MaxSize,     \* maxsize, the size of the command's buffer
  BufSize,     \* rb->size, the size of the receive buffer
  MaxLines,    \* bound: lines a client sends
  MaxCalls     \* bound: commands a session reads

ASSUME Separators == Cr \notin Char /\ Lf \notin Char /\ Cr # Lf
ASSUME LineSet    == Line \subseteq Seq(Char \cup {Cr})
ASSUME Sizes      == MaxSize \in Nat \ {0} /\ BufSize \in Nat \ {0}
ASSUME Bounds     == MaxLines \in Nat /\ MaxCalls \in Nat

VARIABLES
  state,   \* the state of the parser
  rpc,     \* where each session is; in the switch, the state it has read
  rb,      \* what has been received and not parsed: bufp to bufe
  dst,     \* the command so far: buffer to dst
  got,     \* the commands returned so far
  sent,    \* the lines the client has sent
  wire,    \* what of them has not been received
  open     \* is the client still there?

session == <<rpc, rb, dst, got>>
client  == <<sent, wire, open>>
vars    == <<state, session, client>>

ParserState == {"stData", "stCr", "stCopy"}
Byte        == Char \cup {Cr, Lf}
Place       == {"command", "loop", "over"} \cup ParserState

(* Types, and the two buffers: neither is written past its end, whatever    *)
(* the other sessions do to the parser's state (altsocklib.c:646, 673)      *)
TypeOK ==
  /\ state \in ParserState
  /\ rpc \in [Session -> Place]
  /\ rb \in [Session -> Seq(Byte)]
  /\ dst \in [Session -> Seq(Byte)]
  /\ got \in [Session -> Seq(Seq(Byte))]
  /\ sent \in [Session -> Seq(Line)]
  /\ wire \in [Session -> Seq(Byte)]
  /\ open \in [Session -> BOOLEAN]
  /\ \A s \in Session : Len(rb[s]) <= BufSize /\ Len(dst[s]) < MaxSize

Init ==
  /\ state = "stData"
  /\ rpc = [s \in Session |-> "command"]
  /\ rb = [s \in Session |-> <<>>]
  /\ dst = [s \in Session |-> <<>>]
  /\ got = [s \in Session |-> <<>>]
  /\ sent = [s \in Session |-> <<>>]
  /\ wire = [s \in Session |-> <<>>]
  /\ open = [s \in Session |-> TRUE]

-----------------------------------------------------------------------------
Goto(s, from, to) == rpc[s] = from /\ rpc' = [rpc EXCEPT ![s] = to]
Advance(s)        == rb' = [rb EXCEPT ![s] = Tail(@)]
Put(s, c)         == dst' = [dst EXCEPT ![s] = Append(@, c)]
Return(s)         == got' = [got EXCEPT ![s] = Append(@, dst[s])]

(* Nothing more will come from the client; its last line may be cut off    *)
Gone(s) ==
  /\ open' = [open EXCEPT ![s] = FALSE]
  /\ wire' = [wire EXCEPT ![s] = <<>>]
  /\ UNCHANGED sent

(* The client need not wait for the answer to one line to send another     *)
Send(s) ==
  /\ open[s]
  /\ Len(sent[s]) < MaxLines
  /\ \E l \in Line :
       /\ sent' = [sent EXCEPT ![s] = Append(@, l)]
       /\ wire' = [wire EXCEPT ![s] = @ \o l \o <<Cr, Lf>>]
  /\ UNCHANGED <<state, session, open>>

(* Fault: the receive buffer belongs to the call, not to the session       *)
Call_NewBuffer(s) ==
  /\ Goto(s, "command", "loop")
  /\ Len(got[s]) < MaxCalls
  /\ dst' = [dst EXCEPT ![s] = <<>>]
  /\ rb' = [rb EXCEPT ![s] = <<>>]
  /\ UNCHANGED <<state, got, client>>

(* The session is ready for its next command                               *)
Call(s) ==
  /\ Goto(s, "command", "loop")
  /\ Len(got[s]) < MaxCalls
  /\ dst' = [dst EXCEPT ![s] = <<>>]
  /\ UNCHANGED <<state, rb, got, client>>

(* Fault: no room is kept for the final '\0'                               *)
Room_OneMore(s) == Len(dst[s]) < MaxSize

Room(s) == Len(dst[s]) < MaxSize - 1

(* The buffer is full: the rest of the line is left for the next call      *)
Full(s) ==
  /\ ~Room(s)
  /\ Goto(s, "loop", "command")
  /\ Return(s)
  /\ UNCHANGED <<state, rb, dst, client>>

(* bufp == bufe: the session waits in select                               *)
Waits(s) == rpc[s] = "loop" /\ Room(s) /\ rb[s] = <<>>

(* What has arrived comes in pieces of any size                            *)
Recv(s) ==
  /\ Waits(s)
  /\ \E n \in 1 .. BufSize :
       /\ n <= Len(wire[s])
       /\ rb' = [rb EXCEPT ![s] = SubSeq(wire[s], 1, n)]
       /\ wire' = [wire EXCEPT ![s] = SubSeq(wire[s], n + 1, Len(wire[s]))]
  /\ UNCHANGED <<state, rpc, dst, got, sent, open>>

(* recv returns 0: what there is is returned as if it were a line, and     *)
(* so it is if recv fails and there is something                           *)
Eof(s) ==
  /\ Waits(s)
  /\ Goto(s, "loop", "command")
  /\ Return(s)
  /\ Gone(s)
  /\ UNCHANGED <<state, rb, dst>>

(* recv fails and there is nothing                                         *)
RecvFails(s) ==
  /\ Waits(s)
  /\ dst[s] = <<>>
  /\ Goto(s, "loop", "over")
  /\ Gone(s)
  /\ UNCHANGED <<state, rb, dst, got>>

(* Nothing arrives for timeout seconds, or select fails: the session ends, *)
(* the parser's state stays as it is                                       *)
Timeout(s) ==
  /\ Waits(s)
  /\ Goto(s, "loop", "over")
  /\ UNCHANGED <<state, rb, dst, got, client>>

(* switch (state); what follows it is another step, since the variable is  *)
(* not protected                                                           *)
Switch(s) ==
  /\ Room(s)
  /\ rb[s] # <<>>
  /\ Goto(s, "loop", state)
  /\ UNCHANGED <<state, rb, dst, got, client>>

Data(s) ==
  /\ Goto(s, "stData", "loop")
  /\ Advance(s)
  /\ IF Head(rb[s]) = Cr
       THEN state' = "stCr" /\ UNCHANGED dst
       ELSE Put(s, Head(rb[s])) /\ UNCHANGED state
  /\ UNCHANGED <<got, client>>

(* Fault: state is not set back to stData                                  *)
EndOfLine_KeepsState(s) ==
  /\ Goto(s, "stCr", "command")
  /\ Head(rb[s]) = Lf
  /\ Advance(s)
  /\ Return(s)
  /\ UNCHANGED <<state, dst, client>>

EndOfLine(s) ==
  /\ Goto(s, "stCr", "command")
  /\ Head(rb[s]) = Lf
  /\ Advance(s)
  /\ state' = "stData"
  /\ Return(s)
  /\ UNCHANGED <<dst, client>>

(* A carriage return that ends no line is part of it                       *)
LoneCr(s) ==
  /\ Goto(s, "stCr", "loop")
  /\ Head(rb[s]) # Lf
  /\ Put(s, Cr)
  /\ state' = "stCopy"
  /\ UNCHANGED <<rb, got, client>>

(* dst is not advanced: what comes next overwrites this character          *)
Copy(s) ==
  /\ Goto(s, "stCopy", "loop")
  /\ Advance(s)
  /\ state' = "stData"
  /\ UNCHANGED <<dst, got, client>>

Parse(s)   == Switch(s) \/ Data(s) \/ EndOfLine(s) \/ LoneCr(s) \/ Copy(s)
Receive(s) == Recv(s) \/ Eof(s) \/ RecvFails(s) \/ Timeout(s)

Next == \E s \in Session : Send(s) \/ Call(s) \/ Full(s) \/ Receive(s) \/ Parse(s)

Spec == Init /\ [][Next]_vars

-----------------------------------------------------------------------------
Plain(s) == \A i \in DOMAIN sent[s] : ToSet(sent[s][i]) \subseteq Char
Short(s) == \A i \in DOMAIN sent[s] : Len(sent[s][i]) < MaxSize - 1

(* "works with fragmented socket stream" (altsocklib.c:543): each command   *)
(* is the line the client sent at its place, however the network cuts or    *)
(* joins them; once the client has gone the last may be shorter, and        *)
(* nothing but empty commands follows.  Lines without a lone carriage       *)
(* return that fit into the buffer.                                         *)
RecordsAreLines ==
  \A s \in Session : Plain(s) /\ Short(s) => \A i \in DOMAIN got[s] :
    IF i <= Len(sent[s])
      THEN \/ got[s][i] = sent[s][i]
           \/ ~open[s] /\ IsPrefix(got[s][i], sent[s][i])
      ELSE ~open[s] /\ got[s][i] = <<>>

Partial(s) == IF rpc[s] = "command" THEN <<>> ELSE dst[s]
Chars(u)   == FlattenSeq([i \in DOMAIN u |-> IF u[i] \in Char THEN <<u[i]>> ELSE <<>>])
Unread(s)  == Chars(rb[s] \o wire[s])

(* "fragments returned records correctly if sent size > maxsize"            *)
(* (altsocklib.c:544): of the characters of a client that is still there    *)
(* none is lost, doubled or moved, those of a line that is too long, or     *)
(* that have come with an earlier one, included                             *)
NoCharLost ==
  \A s \in Session : Plain(s) /\ open[s] =>
    FlattenSeq(got[s]) \o Partial(s) \o Unread(s) = FlattenSeq(sent[s])
=============================================================================
