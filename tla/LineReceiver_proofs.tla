------------------------ MODULE LineReceiver_proofs ------------------------
(***************************************************************************)
(* The buffers of the line receiver are never overrun: for any number of   *)
(* sessions, any sizes and any lines, although the state of the parser is  *)
(* shared and no step of one session is protected from the others.  And    *)
(* while one session alone uses it, what it reads are the lines its client *)
(* has sent, however they arrive, and no character of them is lost.        *)
(***************************************************************************)
EXTENDS LineReceiver, SequenceTheorems, WellFoundedInduction, TLAPS

(* A session in the switch has a character to parse and room for it, since  *)
(* only the session itself touches its buffers                              *)
InSwitch == \A s \in Session : rpc[s] \in ParserState => Room(s) /\ rb[s] # <<>>

LineInv == TypeOK /\ InSwitch

(* What TypeOK says of the session that takes a step *)
LEMMA SessionTypes ==
  ASSUME TypeOK, NEW s \in Session
  PROVE  /\ rpc[s] \in Place /\ rb[s] \in Seq(Byte) /\ dst[s] \in Seq(Byte)
         /\ got[s] \in Seq(Seq(Byte)) /\ wire[s] \in Seq(Byte) /\ sent[s] \in Seq(Line)
         /\ Len(rb[s]) <= BufSize /\ Len(dst[s]) < MaxSize
         /\ Len(rb[s]) \in Nat /\ Len(dst[s]) \in Nat /\ Len(wire[s]) \in Nat
         /\ MaxSize \in Nat /\ BufSize \in Nat
BY Sizes DEF TypeOK

(* The commands returned so far remain commands *)
LEMMA AppendType ==
  ASSUME NEW S, NEW q \in Seq(S), NEW e \in S
  PROVE  Append(q, e) \in Seq(S)
OBVIOUS

(* ... when one more is returned *)
LEMMA ReturnType ==
  ASSUME TypeOK, NEW s \in Session, got' = [got EXCEPT ![s] = Append(@, dst[s])]
  PROVE  got' \in [Session -> Seq(Seq(Byte))]
<1> DEFINE R == Seq(Byte)
<1>1. got \in [Session -> Seq(R)] /\ dst[s] \in R
  BY DEF TypeOK
<1> HIDE DEF R
<1>2. Append(got[s], dst[s]) \in Seq(R)
  BY <1>1, AppendType
<1>3. got' \in [Session -> Seq(R)]
  BY <1>1, <1>2
<1> QED BY <1>3 DEF R

(* The buffers are empty *)
LEMMA LineInvInit == Init => LineInv
BY Sizes DEF Init, LineInv, TypeOK, InSwitch, ParserState, Place

(* The client's steps touch neither of the buffers *)
LEMMA LineInvSend ==
  ASSUME LineInv, NEW s \in Session, Send(s)
  PROVE  LineInv'
<1>1. TypeOK /\ InSwitch
  BY DEF LineInv
<1>2. PICK l \in Line : /\ sent' = [sent EXCEPT ![s] = Append(@, l)]
                        /\ wire' = [wire EXCEPT ![s] = @ \o l \o <<Cr, Lf>>]
  BY DEF Send
<1>3. l \in Seq(Byte) /\ <<Cr, Lf>> \in Seq(Byte)
  BY LineSet DEF Byte
<1>4. wire' \in [Session -> Seq(Byte)]
  <2>1. wire[s] \o l \o <<Cr, Lf>> \in Seq(Byte)
    BY <1>1, <1>3, SessionTypes
  <2> QED BY <1>1, <1>2, <2>1 DEF TypeOK
<1>5. sent' \in [Session -> Seq(Line)]
  BY <1>1, <1>2 DEF TypeOK
<1>6. UNCHANGED <<state, rpc, rb, dst, got, open>>
  BY DEF Send, session
<1> QED
  BY <1>1, <1>4, <1>5, <1>6 DEF LineInv, TypeOK, InSwitch, Room

(* The buffer of a command is empty when it is asked for *)
LEMMA LineInvCall ==
  ASSUME LineInv, NEW s \in Session, Call(s)
  PROVE  LineInv'
<1>1. TypeOK /\ InSwitch
  BY DEF LineInv
<1>2. /\ rpc' = [rpc EXCEPT ![s] = "loop"] /\ dst' = [dst EXCEPT ![s] = <<>>]
      /\ UNCHANGED <<state, rb, got, sent, wire, open>>
  BY DEF Call, Goto, client
<1>3. TypeOK'
  BY <1>1, <1>2, Sizes DEF TypeOK, Place
<1>4. InSwitch'
  BY <1>1, <1>2 DEF TypeOK, InSwitch, Room, ParserState
<1> QED
  BY <1>3, <1>4 DEF LineInv

(* Full, Eof, RecvFails and Timeout leave both buffers and the loop *)
LEMMA LineInvLeave ==
  ASSUME LineInv, NEW s \in Session, Full(s) \/ Eof(s) \/ RecvFails(s) \/ Timeout(s)
  PROVE  LineInv'
<1>1. TypeOK /\ InSwitch
  BY DEF LineInv
<1>2. PICK p \in {"command", "over"} : rpc' = [rpc EXCEPT ![s] = p]
  BY DEF Full, Eof, RecvFails, Timeout, Goto
<1>3. UNCHANGED <<state, rb, dst, sent>>
  BY DEF Full, Eof, RecvFails, Timeout, Gone, client
<1>4. got' \in [Session -> Seq(Seq(Byte))]
  <2>1. got' = got \/ got' = [got EXCEPT ![s] = Append(@, dst[s])]
    BY DEF Full, Eof, RecvFails, Timeout, Return
  <2> QED BY <1>1, <2>1, ReturnType DEF TypeOK
<1>5. wire' \in [Session -> Seq(Byte)] /\ open' \in [Session -> BOOLEAN]
  <2>1. CASE Full(s) \/ Timeout(s)
    BY <1>1, <2>1 DEF Full, Timeout, client, TypeOK
  <2>2. CASE Eof(s) \/ RecvFails(s)
    <3>1. wire' = [wire EXCEPT ![s] = <<>>] /\ open' = [open EXCEPT ![s] = FALSE]
      BY <2>2 DEF Eof, RecvFails, Gone
    <3> QED BY <1>1, <3>1 DEF TypeOK
  <2> QED BY <2>1, <2>2
<1>6. TypeOK'
  BY <1>1, <1>2, <1>3, <1>4, <1>5 DEF TypeOK, Place
<1>7. InSwitch'
  BY <1>1, <1>2, <1>3 DEF TypeOK, InSwitch, Room, ParserState
<1> QED
  BY <1>6, <1>7 DEF LineInv

(* recv is given the size of its buffer *)
LEMMA LineInvRecv ==
  ASSUME LineInv, NEW s \in Session, Recv(s)
  PROVE  LineInv'
<1>1. TypeOK /\ InSwitch
  BY DEF LineInv
<1>2. PICK n \in 1 .. BufSize :
        /\ n <= Len(wire[s])
        /\ rb' = [rb EXCEPT ![s] = SubSeq(wire[s], 1, n)]
        /\ wire' = [wire EXCEPT ![s] = SubSeq(wire[s], n + 1, Len(wire[s]))]
  BY DEF Recv
<1>3. UNCHANGED <<state, rpc, dst, got, sent, open>>
  BY DEF Recv
<1>4. /\ SubSeq(wire[s], 1, n) \in Seq(Byte) /\ Len(SubSeq(wire[s], 1, n)) = n
      /\ SubSeq(wire[s], n + 1, Len(wire[s])) \in Seq(Byte)
  BY <1>1, <1>2, SessionTypes
<1>5. n <= BufSize /\ n \in Nat
  BY Sizes
<1>6. TypeOK'
  BY <1>1, <1>2, <1>3, <1>4, <1>5 DEF TypeOK
<1>7. rpc[s] \notin ParserState
  BY DEF Recv, Waits, ParserState
<1>8. InSwitch'
  BY <1>1, <1>2, <1>3, <1>7 DEF TypeOK, InSwitch, Room
<1> QED
  BY <1>6, <1>8 DEF LineInv

(* The test of the loop is made before the switch is entered *)
LEMMA LineInvSwitch ==
  ASSUME LineInv, NEW s \in Session, Switch(s)
  PROVE  LineInv'
<1>1. TypeOK /\ InSwitch
  BY DEF LineInv
<1>2. /\ rpc' = [rpc EXCEPT ![s] = state] /\ Room(s) /\ rb[s] # <<>>
      /\ UNCHANGED <<state, rb, dst, got, sent, wire, open>>
  BY DEF Switch, Goto, client
<1>3. TypeOK'
  BY <1>1, <1>2 DEF TypeOK, Place
<1>4. InSwitch'
  BY <1>1, <1>2 DEF TypeOK, InSwitch, Room
<1> QED
  BY <1>3, <1>4 DEF LineInv

(* Whatever the switch does, it takes at most one character from the one    *)
(* buffer and puts at most one into the other                               *)
LEMMA LineInvParse ==
  ASSUME LineInv, NEW s \in Session, Data(s) \/ EndOfLine(s) \/ LoneCr(s) \/ Copy(s)
  PROVE  LineInv'
<1>1. TypeOK /\ InSwitch
  BY DEF LineInv
<1>2. rpc[s] \in ParserState
  BY DEF Data, EndOfLine, LoneCr, Copy, Goto, ParserState
<1>3. Len(dst[s]) < MaxSize - 1 /\ rb[s] # <<>>
  BY <1>1, <1>2 DEF InSwitch, Room
<1>4. PICK p \in {"command", "loop"} : rpc' = [rpc EXCEPT ![s] = p]
  BY DEF Data, EndOfLine, LoneCr, Copy, Goto
<1>5. UNCHANGED <<sent, wire, open>>
  BY DEF Data, EndOfLine, LoneCr, Copy, client
<1>6. state' \in ParserState
  BY <1>1 DEF Data, EndOfLine, LoneCr, Copy, TypeOK, ParserState
<1>7. rb' \in [Session -> Seq(Byte)] /\ \A r \in Session : Len(rb'[r]) <= BufSize
  <2>1. rb' = rb \/ rb' = [rb EXCEPT ![s] = Tail(@)]
    BY DEF Data, EndOfLine, LoneCr, Copy, Advance
  <2>2. Tail(rb[s]) \in Seq(Byte) /\ Len(Tail(rb[s])) <= BufSize
    BY <1>1, <1>3, SessionTypes
  <2> QED BY <1>1, <2>1, <2>2 DEF TypeOK
<1>8. dst' \in [Session -> Seq(Byte)] /\ \A r \in Session : Len(dst'[r]) < MaxSize
  <2>1. \/ dst' = dst
        \/ \E c \in Byte : dst' = [dst EXCEPT ![s] = Append(@, c)]
    <3>1. Head(rb[s]) \in Byte /\ Cr \in Byte
      BY <1>1, <1>3, SessionTypes DEF Byte
    <3> QED BY <3>1 DEF Data, EndOfLine, LoneCr, Copy, Put
  <2>2. \A c \in Byte : Append(dst[s], c) \in Seq(Byte) /\ Len(Append(dst[s], c)) < MaxSize
    BY <1>1, <1>3, SessionTypes
  <2> QED BY <1>1, <2>1, <2>2 DEF TypeOK
<1>9. got' \in [Session -> Seq(Seq(Byte))]
  <2>1. got' = got \/ got' = [got EXCEPT ![s] = Append(@, dst[s])]
    BY DEF Data, EndOfLine, LoneCr, Copy, Return
  <2> QED BY <1>1, <2>1, ReturnType DEF TypeOK
<1>10. TypeOK'
  BY <1>1, <1>4, <1>5, <1>6, <1>7, <1>8, <1>9 DEF TypeOK, Place
<1>11. InSwitch'
  <2>1. \A r \in Session : r # s => rpc'[r] = rpc[r] /\ rb'[r] = rb[r] /\ dst'[r] = dst[r]
    BY <1>1 DEF TypeOK, Data, EndOfLine, LoneCr, Copy, Goto, Advance, Put
  <2>2. rpc'[s] \notin ParserState
    BY <1>1, <1>4 DEF TypeOK, ParserState
  <2> QED BY <1>1, <2>1, <2>2 DEF InSwitch, Room
<1> QED
  BY <1>10, <1>11 DEF LineInv

(* LineInv is an invariant, for any number of sessions.                     *)
THEOREM LineInvariant == Spec => []LineInv
<1>1. LineInv /\ [Next]_vars => LineInv'
  <2> SUFFICES ASSUME LineInv, [Next]_vars PROVE LineInv'
    OBVIOUS
  <2>1. CASE UNCHANGED vars
    BY <2>1 DEF vars, session, client, LineInv, TypeOK, InSwitch, Room
  <2>2. ASSUME NEW s \in Session,
               Send(s) \/ Call(s) \/ Full(s) \/ Receive(s) \/ Parse(s)
        PROVE  LineInv'
    BY <2>2, LineInvSend, LineInvCall, LineInvLeave, LineInvRecv, LineInvSwitch, LineInvParse
    DEF Receive, Parse
  <2> QED
    BY <2>1, <2>2 DEF Next
<1> QED
  BY LineInvInit, <1>1, PTL DEF Spec

(* The buffers of recvstring_with_timeout keep their bounds.                *)
THEOREM BuffersInBounds == Spec => []TypeOK
BY LineInvariant, PTL DEF LineInv

-----------------------------------------------------------------------------
(* A session alone: the bytes between the client and the parser *)

Frame(l)   == l \o <<Cr, Lf>>
(* at[k] is where line k begins in what is pending, less one: not positive  *)
(* for the line of which taken bytes have been parsed                       *)
Aligned(at, pending, lines, now, taken) ==
  /\ at \in [1 .. Len(lines) + 1 -> Int]
  /\ now \in 1 .. Len(lines) + 1
  /\ at[now] + taken = 0
  /\ at[Len(lines) + 1] = Len(pending)
  /\ \A k \in 1 .. Len(lines) + 1 : at[k] <= Len(pending)
  /\ \A k \in 1 .. Len(lines) : at[k + 1] = at[k] + Len(lines[k]) + 2
  /\ \A k \in now .. Len(lines) : \A j \in 1 .. Len(lines[k]) + 2 :
       at[k] + j >= 1 => pending[at[k] + j] = Frame(lines[k])[j]

Taken(st, partial) == Len(partial) + IF st = "stCr" THEN 1 ELSE 0

(* What a session makes of a client that is still there: the command so far *)
(* is the beginning of the line that is being parsed, and each of the ones   *)
(* before was a line                                                        *)
Reading(st, partial, pending, lines, records) ==
  LET now == Len(records) + 1
  IN /\ st \in {"stData", "stCr"}
     /\ IF now <= Len(lines)
          THEN /\ Len(partial) <= Len(lines[now])
               /\ \A j \in 1 .. Len(partial) : partial[j] = lines[now][j]
               /\ st = "stCr" => Len(partial) = Len(lines[now])
          ELSE partial = <<>> /\ st = "stData"
     /\ \E at : Aligned(at, pending, lines, now, Taken(st, partial))
     /\ \A i \in 1 .. Len(records) : records[i] = lines[i]

Pending(s)   == rb[s] \o wire[s]
Listening(s) == Reading(state, Partial(s), Pending(s), sent[s], got[s])

Record(lines, records, i) ==
  IF i <= Len(lines) THEN IsPrefix(records[i], lines[i]) ELSE records[i] = <<>>

(* The client has gone *)
Drained(s) ==
  /\ rb[s] = <<>> /\ wire[s] = <<>>
  /\ rpc[s] \notin ParserState
  /\ rpc[s] = "loop" => dst[s] = <<>>
  /\ \A i \in 1 .. Len(got[s]) : Record(sent[s], got[s], i)

Follows(s) == Plain(s) /\ Short(s) => IF open[s] THEN Listening(s) ELSE Drained(s)

Stream(s) == (rpc[s] \in ParserState => rpc[s] = state) /\ Follows(s)

StreamInv == \A s \in Session : Stream(s)

(* A line is a sequence of bytes *)
LEMMA LinesOfBytes == Seq(Line) \subseteq Seq(Seq(Byte))
BY LineSet DEF Byte

(* A line as it is sent *)
LEMMA FrameProperties ==
  ASSUME NEW l \in Seq(Byte)
  PROVE  /\ Frame(l) \in Seq(Byte)
         /\ Len(Frame(l)) = Len(l) + 2
         /\ \A j \in 1 .. Len(l) : Frame(l)[j] = l[j]
         /\ Frame(l)[Len(l) + 1] = Cr
         /\ Frame(l)[Len(l) + 2] = Lf
<1>1. <<Cr, Lf>> \in Seq(Byte) /\ Len(<<Cr, Lf>>) = 2
  BY DEF Byte
<1> QED
  BY <1>1 DEF Frame

(* ... and behind what is pending *)
LEMMA FrameBehind ==
  ASSUME NEW p \in Seq(Byte), NEW l \in Seq(Byte)
  PROVE  /\ Len(p) \in Nat /\ p \o Frame(l) \in Seq(Byte)
         /\ Len(p \o Frame(l)) = Len(p) + Len(l) + 2 /\ Len(l) \in Nat
         /\ \A i \in 1 .. Len(p) : (p \o Frame(l))[i] = p[i]
         /\ \A j \in 1 .. Len(l) + 2 : (p \o Frame(l))[Len(p) + j] = Frame(l)[j]
<1> DEFINE f == Frame(l)
<1>1. f \in Seq(Byte) /\ Len(f) = Len(l) + 2
  BY FrameProperties
<1>2. Len(l) \in Nat /\ Len(p) \in Nat
  OBVIOUS
<1> HIDE DEF f
<1>3. p \o f \in Seq(Byte) /\ Len(p \o f) = Len(p) + Len(f)
  BY <1>1
<1>4. \A i \in 1 .. Len(p) : (p \o f)[i] = p[i]
  BY <1>1
<1>5. \A j \in 1 .. Len(f) : (p \o f)[Len(p) + j] = f[j]
  BY <1>1
<1> QED BY <1>1, <1>2, <1>3, <1>4, <1>5 DEF f

(* The places in what is pending, once its first byte is taken *)
LEMMA OneLess ==
  ASSUME NEW x \in Int, NEW y, y = x - 1, NEW j \in Int, y + j >= 1
  PROVE  (y + j) + 1 = x + j /\ x + j >= 1 /\ y \in Int
OBVIOUS

(* A byte of a line is before the next line *)
LEMMA Inside ==
  ASSUME NEW x \in Int, NEW y \in Int, NEW j \in Int, NEW n \in Nat, NEW end \in Nat,
         y = x + n + 2, y <= end, x + j >= 1, j <= n + 2
  PROVE  x + j \in 1 .. end
OBVIOUS

(* What is pending grows at its end *)
LEMMA AlignedSend ==
  ASSUME NEW pending \in Seq(Byte), NEW lines \in Seq(Seq(Byte)), NEW l \in Seq(Byte),
         NEW now, NEW taken \in Nat, NEW at, Aligned(at, pending, lines, now, taken)
  PROVE  \E a : Aligned(a, pending \o Frame(l), Append(lines, l), now, taken)
<1> DEFINE n   == Len(lines)
           end == Len(pending)
           len(k) == Len(lines[k])
           b   == at[n + 1] + Len(l) + 2
           a   == [k \in 1 .. n + 2 |-> IF k <= n + 1 THEN at[k] ELSE b]
           all == Append(lines, l)
           p   == pending \o Frame(l)
<1>1. n \in Nat /\ Len(all) = n + 1 /\ all[n + 1] = l /\ \A k \in 1 .. n : all[k] = lines[k]
  OBVIOUS
<1>2. \A k \in 1 .. n : len(k) \in Nat
  OBVIOUS
<1>3. /\ end \in Nat /\ p \in Seq(Byte) /\ Len(p) = end + Len(l) + 2 /\ Len(l) \in Nat
      /\ \A i \in 1 .. end : p[i] = pending[i]
      /\ \A j \in 1 .. Len(l) + 2 : p[end + j] = Frame(l)[j]
  BY FrameBehind
<1>4. at \in [1 .. n + 1 -> Int] /\ now \in 1 .. n + 1 /\ at[n + 1] = end /\ at[now] + taken = 0
  BY DEF Aligned
<1>5. \A k \in 1 .. n + 1 : at[k] \in Int /\ at[k] <= end
  BY <1>4 DEF Aligned
<1>6. \A k \in 1 .. n : at[k + 1] = at[k] + len(k) + 2
  BY DEF Aligned
<1>7. \A k \in now .. n : \A j \in 1 .. len(k) + 2 :
         at[k] + j >= 1 => pending[at[k] + j] = Frame(lines[k])[j]
  BY DEF Aligned
<1>8. b = Len(p)
  BY <1>3, <1>4
<1> HIDE DEF p, all, n, end, len, b
<1>9. \A k \in 1 .. n + 1 : a[k] = at[k]
  BY <1>1
<1>10. a[n + 2] = Len(p)
  BY <1>1, <1>8
<1>11. a \in [1 .. n + 2 -> Int]
  BY <1>1, <1>3, <1>4, <1>5, <1>8
<1> HIDE DEF a
<1>12. now \in 1 .. n + 2 /\ a[now] + taken = 0
  BY <1>1, <1>4, <1>9
<1>13. \A k \in 1 .. n + 2 : a[k] <= Len(p)
  <2> SUFFICES ASSUME NEW k \in 1 .. n + 2 PROVE a[k] <= Len(p)
    OBVIOUS
  <2>1. CASE k = n + 2
    BY <1>3, <1>10, <2>1
  <2>2. CASE k # n + 2
    <3>1. k \in 1 .. n + 1
      BY <1>1, <2>2
    <3>2. a[k] \in Int /\ a[k] <= end
      BY <1>5, <1>9, <3>1
    <3> QED BY <1>3, <3>2
  <2> QED BY <2>1, <2>2
<1>14. \A k \in 1 .. n + 1 : a[k + 1] = a[k] + Len(all[k]) + 2
  <2> SUFFICES ASSUME NEW k \in 1 .. n + 1 PROVE a[k + 1] = a[k] + Len(all[k]) + 2
    OBVIOUS
  <2>1. CASE k = n + 1
    BY <1>1, <1>3, <1>4, <1>9, <1>10, <2>1
  <2>2. CASE k # n + 1
    <3>1. k \in 1 .. n /\ k + 1 \in 1 .. n + 1 /\ k \in 1 .. n + 1
      BY <1>1, <2>2
    <3>2. a[k] = at[k] /\ a[k + 1] = at[k + 1] /\ Len(all[k]) = len(k)
      BY <1>1, <1>9, <3>1 DEF len
    <3> QED BY <1>6, <3>1, <3>2
  <2> QED BY <2>1, <2>2
<1>15. ASSUME NEW k \in now .. n + 1, NEW j \in 1 .. Len(all[k]) + 2, a[k] + j >= 1
       PROVE  p[a[k] + j] = Frame(all[k])[j]
  <2>1. CASE k = n + 1
    <3>1. a[k] = end /\ all[k] = l
      BY <1>1, <1>4, <1>9, <2>1
    <3> QED BY <1>3, <3>1
  <2>2. CASE k # n + 1
    <3>1. k \in now .. n /\ k \in 1 .. n /\ k \in 1 .. n + 1 /\ k + 1 \in 1 .. n + 1
      BY <1>1, <1>4, <2>2
    <3>2. a[k] = at[k] /\ all[k] = lines[k] /\ j \in 1 .. len(k) + 2
      BY <1>1, <1>9, <3>1 DEF len
    <3>3. /\ at[k] \in Int /\ at[k + 1] \in Int /\ at[k + 1] = at[k] + len(k) + 2
          /\ at[k + 1] <= end /\ len(k) \in Nat
      BY <1>2, <1>5, <1>6, <3>1
    <3>4. at[k] + j >= 1 /\ j \in Int /\ j <= len(k) + 2
      BY <1>15, <3>2, <3>3
    <3>5. at[k] + j \in 1 .. end
      BY <1>3, <3>3, <3>4, Inside
    <3> QED BY <1>3, <1>7, <3>1, <3>2, <3>4, <3>5
  <2> QED BY <2>1, <2>2
<1>16. Len(all) + 1 = n + 2
  BY <1>1
<1>17. Aligned(a, p, all, now, taken)
  BY <1>1, <1>10, <1>11, <1>12, <1>13, <1>14, <1>15, <1>16 DEF Aligned
<1> QED
  BY <1>17 DEF p, all

(* and is parsed from its beginning, *)
LEMMA AlignedTake ==
  ASSUME NEW pending \in Seq(Byte), pending # <<>>, NEW lines \in Seq(Seq(Byte)),
         NEW now, NEW taken \in Nat, NEW at, Aligned(at, pending, lines, now, taken)
  PROVE  \E a : Aligned(a, Tail(pending), lines, now, taken + 1)
<1> DEFINE n == Len(lines)
           end == Len(pending)
           len(k) == Len(lines[k])
           a == [k \in 1 .. n + 1 |-> at[k] - 1]
           p == Tail(pending)
<1>1. /\ p \in Seq(Byte) /\ Len(p) = end - 1 /\ end \in Nat
      /\ \A i \in 1 .. Len(p) : p[i] = pending[i + 1]
  OBVIOUS
<1>2. n \in Nat /\ \A k \in 1 .. n : len(k) \in Nat
  OBVIOUS
<1>3. at \in [1 .. n + 1 -> Int] /\ now \in 1 .. n + 1 /\ at[n + 1] = end /\ at[now] + taken = 0
  BY DEF Aligned
<1>4. \A k \in 1 .. n + 1 : at[k] \in Int /\ at[k] <= end
  BY <1>3 DEF Aligned
<1>5. \A k \in 1 .. n : at[k + 1] = at[k] + len(k) + 2
  BY DEF Aligned
<1>6. \A k \in now .. n : \A j \in 1 .. len(k) + 2 :
         at[k] + j >= 1 => pending[at[k] + j] = Frame(lines[k])[j]
  BY DEF Aligned
<1> HIDE DEF p, n, end, len
<1>7. a \in [1 .. n + 1 -> Int] /\ \A k \in 1 .. n + 1 : a[k] = at[k] - 1
  BY <1>4
<1> HIDE DEF a
<1>8. a[now] + (taken + 1) = 0 /\ a[n + 1] = Len(p) /\ \A k \in 1 .. n + 1 : a[k] <= Len(p)
  BY <1>1, <1>2, <1>3, <1>4, <1>7
<1>9. \A k \in 1 .. n : a[k + 1] = a[k] + len(k) + 2
  <2> SUFFICES ASSUME NEW k \in 1 .. n PROVE a[k + 1] = a[k] + len(k) + 2
    OBVIOUS
  <2>1. k \in 1 .. n + 1 /\ k + 1 \in 1 .. n + 1
    BY <1>2
  <2>2. a[k] = at[k] - 1 /\ a[k + 1] = at[k + 1] - 1 /\ at[k] \in Int /\ len(k) \in Nat
    BY <1>2, <1>4, <1>7, <2>1
  <2> QED BY <1>5, <2>2
<1>10. ASSUME NEW k \in now .. n, NEW j \in 1 .. len(k) + 2, a[k] + j >= 1
       PROVE  p[a[k] + j] = Frame(lines[k])[j]
  <2>1. k \in 1 .. n /\ k \in 1 .. n + 1 /\ k + 1 \in 1 .. n + 1
    BY <1>2, <1>3
  <2>2. a[k] = at[k] - 1 /\ at[k] \in Int /\ at[k + 1] \in Int /\ len(k) \in Nat
    BY <1>2, <1>4, <1>7, <2>1
  <2>3. at[k + 1] = at[k] + len(k) + 2 /\ at[k + 1] <= end
    BY <1>4, <1>5, <2>1
  <2>4. j \in Int /\ j <= len(k) + 2 /\ a[k] + j >= 1
    BY <1>10, <2>2
  <2>5. (a[k] + j) + 1 = at[k] + j /\ at[k] + j >= 1 /\ a[k] \in Int
    BY <2>2, <2>4, OneLess
  <2>6. at[k] + j \in 1 .. end
    BY <1>1, <2>2, <2>3, <2>4, <2>5, Inside
  <2>7. a[k] + j \in 1 .. Len(p)
    BY <1>1, <2>4, <2>5, <2>6
  <2>8. p[a[k] + j] = pending[at[k] + j]
    BY <1>1, <2>5, <2>7
  <2> QED BY <1>6, <2>5, <2>8
<1>11. Aligned(a, p, lines, now, taken + 1)
  BY <1>3, <1>7, <1>8, <1>9, <1>10 DEF Aligned, n, len
<1> QED
  BY <1>11 DEF p

(* a line after the other; *)
LEMMA AlignedNext ==
  ASSUME NEW pending \in Seq(Byte), NEW lines \in Seq(Seq(Byte)),
         NEW now, NEW taken \in Nat, NEW at, Aligned(at, pending, lines, now, taken),
         now <= Len(lines), taken = Len(lines[now]) + 2
  PROVE  Aligned(at, pending, lines, now + 1, 0)
<1>1. now \in 1 .. Len(lines) /\ Len(lines) \in Nat
  BY DEF Aligned
<1>2. Len(lines[now]) \in Nat
  BY <1>1
<1>3. at[now + 1] = at[now] + Len(lines[now]) + 2 /\ at[now] + taken = 0 /\ at[now] \in Int
  BY <1>1 DEF Aligned
<1>4. at[now + 1] + 0 = 0
  BY <1>2, <1>3
<1>5. now + 1 \in 1 .. Len(lines) + 1 /\ (now + 1) .. Len(lines) \subseteq now .. Len(lines)
  BY <1>1
<1> QED
  BY <1>4, <1>5 DEF Aligned

(* its first byte is the one that follows in the line that is parsed        *)
LEMMA AlignedHead ==
  ASSUME NEW pending \in Seq(Byte), pending # <<>>, NEW lines \in Seq(Seq(Byte)),
         NEW now, NEW taken \in Nat, NEW at, Aligned(at, pending, lines, now, taken),
         IF now <= Len(lines) THEN taken < Len(lines[now]) + 2 ELSE taken = 0
  PROVE  now <= Len(lines) /\ pending[1] = Frame(lines[now])[taken + 1]
<1>1. now \in 1 .. Len(lines) + 1 /\ Len(lines) \in Nat /\ Len(pending) \in Nat \ {0}
  BY DEF Aligned
<1>2. now <= Len(lines)
  <2> SUFFICES ASSUME now = Len(lines) + 1 PROVE FALSE
    BY <1>1
  <2> QED BY <1>1 DEF Aligned
<1>3. at[now] + taken = 0 /\ at[now] \in Int /\ now \in now .. Len(lines) /\ now \in 1 .. Len(lines)
  <2>1. at \in [1 .. Len(lines) + 1 -> Int] /\ at[now] + taken = 0
    BY DEF Aligned
  <2>2. now \in now .. Len(lines) /\ now \in 1 .. Len(lines)
    BY <1>1, <1>2
  <2>3. at[now] \in Int
    BY <1>1, <2>1
  <2> QED BY <2>1, <2>2, <2>3
<1>4. Len(lines[now]) \in Nat
  BY <1>3
<1>5. at[now] + (taken + 1) = 1 /\ taken + 1 \in 1 .. Len(lines[now]) + 2
  BY <1>2, <1>3, <1>4
<1>6. at[now] + (taken + 1) >= 1 => pending[at[now] + (taken + 1)] = Frame(lines[now])[taken + 1]
  BY <1>3, <1>5 DEF Aligned
<1> QED
  BY <1>2, <1>5, <1>6

-----------------------------------------------------------------------------
(* What the steps of a session make of Reading *)

(* How many bytes of the line have been parsed *)
LEMMA TakenBytes ==
  ASSUME NEW st, NEW c \in Seq(Byte)
  PROVE  /\ Taken(st, c) \in Nat
         /\ st = "stData" => Taken(st, c) = Len(c)
         /\ st = "stCr" => Taken(st, c) = Len(c) + 1
         /\ Taken("stData", <<>>) = 0
BY DEF Taken

(* The client sends a line *)
LEMMA ReadingSend ==
  ASSUME NEW st, NEW c \in Seq(Byte), NEW p \in Seq(Byte), NEW lines \in Seq(Seq(Byte)),
         NEW g \in Seq(Seq(Byte)), Reading(st, c, p, lines, g), NEW l \in Seq(Byte)
  PROVE  Reading(st, c, p \o Frame(l), Append(lines, l), g)
<1> DEFINE now   == Len(g) + 1
           taken == Taken(st, c)
           all   == Append(lines, l)
<1>1. now \in Nat /\ taken \in Nat /\ Len(lines) \in Nat
  BY TakenBytes
<1>2. PICK at : Aligned(at, p, lines, now, taken)
  BY DEF Reading
<1>3. \E a : Aligned(a, p \o Frame(l), all, now, taken)
  BY <1>1, <1>2, AlignedSend
<1>4. now <= Len(lines) + 1
  BY <1>1, <1>2 DEF Aligned
<1>5. Len(all) = Len(lines) + 1 /\ \A k \in 1 .. Len(lines) : all[k] = lines[k]
  OBVIOUS
<1>6. Len(all[Len(lines) + 1]) \in Nat
  BY <1>5
<1>7. \A i \in 1 .. Len(g) : g[i] = all[i]
  BY <1>1, <1>4, <1>5 DEF Reading
<1>8. CASE now <= Len(lines)
  <2>1. all[now] = lines[now] /\ now <= Len(all)
    BY <1>1, <1>5, <1>8
  <2>2. /\ Len(c) <= Len(lines[now])
        /\ \A j \in 1 .. Len(c) : c[j] = lines[now][j]
        /\ st = "stCr" => Len(c) = Len(lines[now])
    BY <1>8 DEF Reading
  <2>3. st \in {"stData", "stCr"}
    BY DEF Reading
  <2> HIDE DEF all
  <2>4. \A j \in 1 .. Len(c) : c[j] = all[now][j]
    BY <2>1, <2>2
  <2>5. Len(c) <= Len(all[now]) /\ (st = "stCr" => Len(c) = Len(all[now]))
    BY <2>1, <2>2
  <2>6. Reading(st, c, p \o Frame(l), all, g)
    BY <1>3, <1>7, <2>1, <2>3, <2>4, <2>5 DEF Reading
  <2> QED BY <2>6 DEF all
<1>9. CASE now = Len(lines) + 1
  <2>1. c = <<>> /\ st = "stData"
    BY <1>1, <1>9 DEF Reading
  <2>2. Len(c) = 0 /\ now <= Len(all) /\ all[now] = l /\ Len(l) \in Nat
    BY <1>1, <1>5, <1>9, <2>1
  <2> HIDE DEF all
  <2>3. Len(c) <= Len(all[now]) /\ \A j \in 1 .. Len(c) : c[j] = all[now][j]
    BY <2>2
  <2>4. Reading(st, c, p \o Frame(l), all, g)
    BY <1>3, <1>7, <2>1, <2>2, <2>3 DEF Reading
  <2> QED BY <2>4 DEF all
<1>10. now <= Len(lines) \/ now = Len(lines) + 1
  BY <1>1, <1>4
<1> QED
  BY <1>8, <1>9, <1>10

(* The next byte of a line *)
LEMMA ReadingHead ==
  ASSUME NEW st, NEW c \in Seq(Byte), NEW p \in Seq(Byte), NEW lines \in Seq(Seq(Byte)),
         NEW g \in Seq(Seq(Byte)), Reading(st, c, p, lines, g), p # <<>>
  PROVE  /\ Len(g) + 1 \in 1 .. Len(lines)
         /\ p[1] = Frame(lines[Len(g) + 1])[Taken(st, c) + 1]
         /\ \E at : Aligned(at, Tail(p), lines, Len(g) + 1, Taken(st, c) + 1)
<1> DEFINE now   == Len(g) + 1
           taken == Taken(st, c)
<1>1. now \in Nat /\ taken \in Nat /\ Len(lines) \in Nat /\ now >= 1 /\ Len(c) \in Nat
  BY TakenBytes
<1>2. PICK at : Aligned(at, p, lines, now, taken)
  BY DEF Reading
<1>3. IF now <= Len(lines) THEN taken < Len(lines[now]) + 2 ELSE taken = 0
  <2>1. CASE now <= Len(lines)
    <3>1. Len(c) <= Len(lines[now])
      BY <2>1 DEF Reading
    <3>2. Len(lines[now]) \in Nat
      BY <1>1, <2>1
    <3>3. taken <= Len(c) + 1
      BY <1>1, TakenBytes DEF Reading
    <3> QED BY <1>1, <2>1, <3>1, <3>2, <3>3
  <2>2. CASE ~(now <= Len(lines))
    <3>1. c = <<>> /\ st = "stData"
      BY <2>2 DEF Reading
    <3> QED BY <2>2, <3>1, TakenBytes
  <2> QED BY <2>1, <2>2
<1> HIDE DEF now, taken
<1>4. now <= Len(lines) /\ p[1] = Frame(lines[now])[taken + 1]
  BY <1>1, <1>2, <1>3, AlignedHead
<1>5. \E a : Aligned(a, Tail(p), lines, now, taken + 1)
  BY <1>1, <1>2, AlignedTake
<1> QED
  BY <1>1, <1>4, <1>5 DEF now, taken

(* A byte in stData *)
LEMMA ReadingData ==
  ASSUME NEW c \in Seq(Byte), NEW p \in Seq(Byte), NEW lines \in Seq(Seq(Byte)),
         NEW g \in Seq(Seq(Byte)), Reading("stData", c, p, lines, g), p # <<>>,
         \A i \in 1 .. Len(lines) : \A j \in 1 .. Len(lines[i]) : lines[i][j] \in Char
  PROVE  IF p[1] = Cr THEN Reading("stCr", c, Tail(p), lines, g)
                      ELSE Reading("stData", Append(c, p[1]), Tail(p), lines, g)
<1> DEFINE now == Len(g) + 1
           l   == lines[now]
<1>1. /\ now \in 1 .. Len(lines)
      /\ p[1] = Frame(l)[Len(c) + 1]
      /\ \E at : Aligned(at, Tail(p), lines, now, Len(c) + 1)
  <2>1. Taken("stData", c) = Len(c)
    BY TakenBytes
  <2> QED BY <2>1, ReadingHead
<1>2. l \in Seq(Byte) /\ Len(l) \in Nat /\ Len(c) \in Nat /\ now <= Len(lines)
  BY <1>1
<1>a. /\ \A j \in 1 .. Len(l) : Frame(l)[j] = l[j]
      /\ Frame(l)[Len(l) + 1] = Cr
  <2> HIDE DEF l
  <2> QED BY <1>2, FrameProperties
<1>3. Len(c) <= Len(l) /\ \A j \in 1 .. Len(c) : c[j] = l[j]
  BY <1>2 DEF Reading
<1>4. \A i \in 1 .. Len(g) : g[i] = lines[i]
  BY DEF Reading
<1>5. p[1] \in Byte
  OBVIOUS
<1>6. CASE Len(c) = Len(l)
  <2>1. p[1] = Cr
    BY <1>1, <1>6, <1>a
  <2>2. Reading("stCr", c, Tail(p), lines, g)
    BY TakenBytes, <1>1, <1>2, <1>3, <1>4, <1>6 DEF Reading
  <2> QED BY <2>1, <2>2
<1>7. CASE Len(c) < Len(l)
  <2>1. Len(c) + 1 \in 1 .. Len(l)
    BY <1>2, <1>7
  <2>2. p[1] = l[Len(c) + 1] /\ l[Len(c) + 1] \in Char
    BY <1>1, <2>1, <1>a
  <2>3. p[1] # Cr
    BY <2>2, Separators
  <2> DEFINE d == Append(c, p[1])
  <2>4. Len(d) = Len(c) + 1 /\ \A j \in 1 .. Len(d) : d[j] = l[j]
    BY <1>2, <1>3, <1>5, <2>2
  <2>5. Len(d) <= Len(l)
    BY <1>2, <2>1, <2>4
  <2> HIDE DEF d
  <2>6. Taken("stData", d) = Len(c) + 1
    BY <2>4 DEF Taken
  <2>7. Reading("stData", d, Tail(p), lines, g)
    BY <1>1, <1>2, <1>4, <2>4, <2>5, <2>6 DEF Reading
  <2> QED BY <2>3, <2>7 DEF d
<1> QED
  BY <1>2, <1>3, <1>6, <1>7

(* A byte in stCr is the Lf of the line *)
LEMMA ReadingEnd ==
  ASSUME NEW c \in Seq(Byte), NEW p \in Seq(Byte), NEW lines \in Seq(Seq(Byte)),
         NEW g \in Seq(Seq(Byte)), Reading("stCr", c, p, lines, g), p # <<>>
  PROVE  p[1] = Lf /\ Reading("stData", <<>>, Tail(p), lines, Append(g, c))
<1> DEFINE now == Len(g) + 1
           l   == lines[now]
           h   == Append(g, c)
           q   == Tail(p)
<1>1. /\ now \in 1 .. Len(lines)
      /\ p[1] = Frame(l)[Len(c) + 1 + 1]
      /\ \E at : Aligned(at, q, lines, now, Len(c) + 1 + 1)
  <2>1. Taken("stCr", c) = Len(c) + 1
    BY TakenBytes
  <2> QED BY <2>1, ReadingHead
<1>2. l \in Seq(Byte) /\ Len(l) \in Nat /\ Len(c) \in Nat /\ now <= Len(lines)
      /\ now \in Nat /\ Len(lines) \in Nat /\ q \in Seq(Byte)
  BY <1>1
<1>3. Len(c) = Len(l) /\ \A j \in 1 .. Len(c) : c[j] = l[j]
  BY <1>2 DEF Reading
<1>4. c = l
  BY <1>2, <1>3, SeqEqual
<1>5. p[1] = Lf
  <2>1. Len(c) + 1 + 1 = Len(l) + 2
    BY <1>2, <1>3
  <2>2. Frame(l)[Len(l) + 2] = Lf
    <3> HIDE DEF l
    <3> QED BY <1>2, FrameProperties
  <2> QED BY <1>1, <2>1, <2>2
<1>6. PICK at : Aligned(at, q, lines, now, Len(c) + 1 + 1)
  BY <1>1
<1>7. Len(c) + 1 + 1 \in Nat /\ Len(c) + 1 + 1 = Len(lines[now]) + 2
  BY <1>2, <1>3
<1>8. Aligned(at, q, lines, now + 1, 0)
  BY <1>2, <1>6, <1>7, AlignedNext
<1>9. Len(h) = now /\ \A i \in 1 .. Len(h) : h[i] = lines[i]
  <2>1. \A i \in 1 .. Len(g) : g[i] = lines[i]
    BY DEF Reading
  <2> QED BY <1>4, <2>1
<1>10. Len(<<>>) = 0 /\ (now + 1 <= Len(lines) => Len(lines[now + 1]) \in Nat)
  BY <1>2
<1> HIDE DEF h, q, now
<1>11. Reading("stData", <<>>, q, lines, h)
  BY TakenBytes, <1>2, <1>8, <1>9, <1>10 DEF Reading
<1> QED
  BY <1>5, <1>11 DEF h, q

(* What has been received when the client goes *)
LEMMA ReadingRecords ==
  ASSUME NEW st, NEW c \in Seq(Byte), NEW p \in Seq(Byte), NEW lines \in Seq(Seq(Byte)),
         NEW g \in Seq(Seq(Byte)), Reading(st, c, p, lines, g)
  PROVE  /\ Len(g) <= Len(lines)
         /\ \A i \in 1 .. Len(g) : Record(lines, g, i)
         /\ \A i \in 1 .. Len(g) + 1 : Record(lines, Append(g, c), i)
<1> DEFINE now == Len(g) + 1
           h   == Append(g, c)
<1>1. now \in Nat /\ Len(lines) \in Nat /\ Len(g) \in Nat /\ Len(c) \in Nat
  OBVIOUS
<1>2. PICK at : Aligned(at, p, lines, now, Taken(st, c))
  BY DEF Reading
<1>3. now <= Len(lines) + 1
  BY <1>1, <1>2 DEF Aligned
<1>4. \A i \in 1 .. Len(g) : g[i] = lines[i]
  BY DEF Reading
<1>5. h[now] = c /\ \A i \in 1 .. Len(g) : h[i] = g[i]
  OBVIOUS
<1>6. \A i \in 1 .. Len(g) : Record(lines, g, i)
  BY <1>1, <1>3, <1>4 DEF Record, IsPrefix
<1>7. Record(lines, h, now)
  <2>1. CASE now <= Len(lines)
    <3> DEFINE l == lines[now]
    <3>1. l \in Seq(Byte) /\ Len(l) \in Nat
      BY <1>1, <2>1
    <3>2. Len(c) <= Len(l) /\ \A j \in 1 .. Len(c) : c[j] = l[j]
      BY <2>1 DEF Reading
    <3> HIDE DEF l
    <3>3. SubSeq(c, 1, Len(c)) = SubSeq(l, 1, Len(c))
      BY <1>1, <3>1, <3>2
    <3> QED BY <1>5, <2>1, <3>2, <3>3 DEF Record, IsPrefix, l
  <2>2. CASE ~(now <= Len(lines))
    BY <1>5, <2>2 DEF Reading, Record
  <2> QED BY <2>1, <2>2
<1>8. \A i \in 1 .. Len(g) + 1 : Record(lines, h, i)
  <2> SUFFICES ASSUME NEW i \in 1 .. Len(g) + 1 PROVE Record(lines, h, i)
    OBVIOUS
  <2>1. i = now \/ i \in 1 .. Len(g)
    BY <1>1
  <2> HIDE DEF h
  <2> QED BY <1>5, <1>6, <1>7, <2>1 DEF Record
<1> QED
  BY <1>1, <1>3, <1>6, <1>8

-----------------------------------------------------------------------------
(* The steps of a session *)

(* What a session handles are bytes *)
LEMMA SessionBytes ==
  ASSUME TypeOK, NEW s \in Session
  PROVE  /\ Pending(s) \in Seq(Byte) /\ Partial(s) \in Seq(Byte)
         /\ sent[s] \in Seq(Seq(Byte)) /\ got[s] \in Seq(Seq(Byte))
         /\ rb[s] \in Seq(Byte) /\ wire[s] \in Seq(Byte) /\ dst[s] \in Seq(Byte)
<1>1. /\ rb[s] \in Seq(Byte) /\ wire[s] \in Seq(Byte) /\ dst[s] \in Seq(Byte)
      /\ got[s] \in Seq(Seq(Byte)) /\ sent[s] \in Seq(Line)
  BY SessionTypes
<1>2. rb[s] \o wire[s] \in Seq(Byte)
  BY <1>1
<1>3. Partial(s) \in Seq(Byte)
  BY <1>1 DEF Partial
<1> QED
  BY <1>1, <1>2, <1>3, LinesOfBytes DEF Pending

(* A line the client sends is behind what is pending *)
LEMMA PendingSend ==
  ASSUME TypeOK, NEW s \in Session, Send(s)
  PROVE  \E l \in Line : /\ l \in Seq(Byte)
                         /\ sent'[s] = Append(sent[s], l)
                         /\ Pending(s)' = Pending(s) \o Frame(l)
<1>1. PICK l \in Line : /\ sent' = [sent EXCEPT ![s] = Append(@, l)]
                        /\ wire' = [wire EXCEPT ![s] = @ \o l \o <<Cr, Lf>>]
  BY DEF Send
<1>2. UNCHANGED rb
  BY DEF Send, session
<1>3. sent'[s] = Append(sent[s], l) /\ wire'[s] = wire[s] \o l \o <<Cr, Lf>>
  BY <1>1 DEF TypeOK
<1>4. l \in Seq(Byte)
  BY LineSet DEF Byte
<1>5. Pending(s)' = Pending(s) \o Frame(l)
  <2> DEFINE r == rb[s]
             w == wire[s]
  <2>1. r \in Seq(Byte) /\ w \in Seq(Byte) /\ <<Cr, Lf>> \in Seq(Byte)
    BY SessionBytes DEF Byte
  <2>2. l \o <<Cr, Lf>> \in Seq(Byte)
    BY <1>4, <2>1
  <2> HIDE DEF r, w
  <2>3. (w \o l) \o <<Cr, Lf>> = w \o (l \o <<Cr, Lf>>)
    BY <1>4, <2>1, ConcatAssociative
  <2>4. (r \o w) \o (l \o <<Cr, Lf>>) = r \o (w \o (l \o <<Cr, Lf>>))
    BY <2>1, <2>2, ConcatAssociative
  <2> QED BY <1>2, <1>3, <2>3, <2>4 DEF Pending, Frame, r, w
<1> QED
  BY <1>3, <1>4, <1>5

(* The client sends a line *)
LEMMA StreamSend ==
  ASSUME LineInv, NEW s \in Session, Stream(s), Send(s)
  PROVE  Stream(s)'
<1>1. TypeOK
  BY DEF LineInv
<1>2. PICK l \in Line : /\ l \in Seq(Byte)
                        /\ sent'[s] = Append(sent[s], l)
                        /\ Pending(s)' = Pending(s) \o Frame(l)
  BY <1>1, PendingSend
<1>3. open[s] /\ UNCHANGED <<state, rpc, rb, dst, got, open>>
  BY DEF Send, session
<1>4. ASSUME Plain(s)', Short(s)' PROVE Listening(s)'
  <2>1. Plain(s) /\ Short(s)
    <3>1. sent[s] \in Seq(Line)
      BY <1>1, SessionTypes
    <3>2. \A i \in DOMAIN sent[s] : i \in DOMAIN sent'[s] /\ sent'[s][i] = sent[s][i]
      BY <1>2, <3>1
    <3> QED BY <1>4, <3>2 DEF Plain, Short
  <2>2. Reading(state, Partial(s), Pending(s), sent[s], got[s])
    BY <1>3, <2>1 DEF Stream, Follows, Listening
  <2>3. Reading(state, Partial(s), Pending(s) \o Frame(l), Append(sent[s], l), got[s])
    BY <1>1, <1>2, <2>2, SessionBytes, ReadingSend
  <2>4. Partial(s)' = Partial(s)
    BY <1>3 DEF Partial
  <2> QED BY <1>2, <1>3, <2>3, <2>4 DEF Listening
<1> QED
  BY <1>3, <1>4 DEF Stream, Follows

(* The command is empty when a session asks for one *)
LEMMA StreamCall ==
  ASSUME LineInv, NEW s \in Session, Stream(s), Call(s)
  PROVE  Stream(s)'
<1>1. TypeOK
  BY DEF LineInv
<1>2. /\ rpc[s] = "command" /\ rpc'[s] = "loop" /\ dst'[s] = <<>>
      /\ UNCHANGED <<state, rb, got, sent, wire, open>>
  BY <1>1 DEF Call, Goto, client, TypeOK
<1>3. Partial(s)' = Partial(s) /\ Pending(s)' = Pending(s)
  BY <1>2 DEF Partial, Pending
<1>4. Plain(s)' = Plain(s) /\ Short(s)' = Short(s) /\ Listening(s)' = Listening(s)
  BY <1>2, <1>3 DEF Plain, Short, Listening
<1>5. Drained(s) => Drained(s)'
  BY <1>2 DEF Drained, ParserState
<1> QED
  BY <1>2, <1>4, <1>5 DEF Stream, Follows, ParserState

(* The buffer is never full: the rest of the line is left for the next call *)
(* of a client whose lines are too long                                     *)
LEMMA StreamFull ==
  ASSUME LineInv, MaxSize > 1, NEW s \in Session, Stream(s), Full(s)
  PROVE  Stream(s)'
<1>1. TypeOK
  BY DEF LineInv
<1>2. /\ rpc[s] = "loop" /\ rpc'[s] = "command" /\ ~Room(s)
      /\ UNCHANGED <<sent, open>>
  BY <1>1 DEF Full, Goto, client, TypeOK
<1>3. ASSUME Plain(s), Short(s) PROVE FALSE
  <2>1. Len(dst[s]) \in Nat /\ Len(sent[s]) \in Nat /\ Len(got[s]) \in Nat /\ MaxSize \in Nat
    BY <1>1, SessionTypes
  <2>2. CASE open[s]
    <3>1. Reading(state, dst[s], Pending(s), sent[s], got[s])
      BY <1>2, <1>3, <2>2 DEF Stream, Follows, Listening, Partial
    <3>2. CASE Len(got[s]) + 1 <= Len(sent[s])
      <4>1. Len(got[s]) + 1 \in DOMAIN sent[s] /\ sent[s][Len(got[s]) + 1] \in Seq(Byte)
        BY <1>1, <2>1, <3>2, SessionBytes
      <4>2. Len(dst[s]) <= Len(sent[s][Len(got[s]) + 1])
        BY <3>1, <3>2 DEF Reading
      <4>3. Len(sent[s][Len(got[s]) + 1]) < MaxSize - 1 /\ Len(sent[s][Len(got[s]) + 1]) \in Nat
        BY <1>3, <4>1 DEF Short
      <4> QED BY <1>2, <2>1, <4>2, <4>3 DEF Room
    <3>3. CASE ~(Len(got[s]) + 1 <= Len(sent[s]))
      <4>1. Len(dst[s]) = 0
        BY <3>1, <3>3 DEF Reading
      <4> QED BY <1>2, <2>1, <4>1 DEF Room
    <3> QED BY <3>2, <3>3
  <2>3. CASE ~open[s]
    <3>1. Len(dst[s]) = 0
      BY <1>2, <1>3, <2>3 DEF Stream, Follows, Drained
    <3> QED BY <1>2, <2>1, <3>1 DEF Room
  <2> QED BY <2>2, <2>3
<1>4. Plain(s)' = Plain(s) /\ Short(s)' = Short(s)
  BY <1>2 DEF Plain, Short
<1> QED
  BY <1>2, <1>3, <1>4 DEF Stream, Follows, ParserState

(* The client has gone: what there is of its last line is the last command *)
LEMMA StreamGone ==
  ASSUME LineInv, NEW s \in Session, Stream(s), Eof(s) \/ RecvFails(s)
  PROVE  Stream(s)'
<1>1. TypeOK
  BY DEF LineInv
<1>2. /\ rpc[s] = "loop" /\ rb[s] = <<>> /\ rpc'[s] \in {"command", "over"}
      /\ wire'[s] = <<>> /\ ~open'[s] /\ UNCHANGED <<rb, sent>>
  BY <1>1 DEF Eof, RecvFails, Waits, Goto, Gone, TypeOK
<1>3. got'[s] = got[s] \/ got'[s] = Append(got[s], dst[s])
  BY <1>1 DEF Eof, RecvFails, Return, TypeOK
<1>4. got[s] \in Seq(Seq(Byte)) /\ dst[s] \in Seq(Byte) /\ Partial(s) = dst[s]
  BY <1>1, <1>2, SessionBytes DEF Partial
<1>5. Plain(s)' = Plain(s) /\ Short(s)' = Short(s)
  BY <1>2 DEF Plain, Short
<1>6. ASSUME Plain(s), Short(s)
      PROVE  /\ \A i \in 1 .. Len(got[s]) : Record(sent[s], got[s], i)
             /\ \A i \in 1 .. Len(got[s]) + 1 : Record(sent[s], Append(got[s], dst[s]), i)
  <2>1. CASE open[s]
    <3>1. Reading(state, Partial(s), Pending(s), sent[s], got[s])
      BY <1>6, <2>1 DEF Stream, Follows, Listening
    <3> QED BY <1>1, <1>4, <3>1, SessionBytes, ReadingRecords
  <2>2. CASE ~open[s]
    <3>1. dst[s] = <<>> /\ \A i \in 1 .. Len(got[s]) : Record(sent[s], got[s], i)
      BY <1>2, <1>6, <2>2 DEF Stream, Follows, Drained
    <3>2. SUFFICES ASSUME NEW i \in 1 .. Len(got[s]) + 1
                   PROVE  Record(sent[s], Append(got[s], dst[s]), i)
      BY <3>1
    <3>3. CASE i \in 1 .. Len(got[s])
      <4>1. Append(got[s], dst[s])[i] = got[s][i]
        BY <1>4, <3>3
      <4> QED BY <3>1, <3>3, <4>1 DEF Record
    <3>4. CASE i = Len(got[s]) + 1
      <4>1. Append(got[s], dst[s])[i] = <<>>
        BY <1>4, <3>1, <3>4
      <4>2. \A l : IsPrefix(<<>>, l) \/ ~(0 <= Len(l))
        BY DEF IsPrefix
      <4>3. i <= Len(sent[s]) => Len(sent[s][i]) \in Nat
        BY <1>1, SessionBytes
      <4> QED BY <4>1, <4>2, <4>3 DEF Record
    <3> QED BY <1>4, <3>3, <3>4
  <2> QED BY <2>1, <2>2
<1>7. ASSUME Plain(s), Short(s) PROVE Drained(s)'
  <2>1. \A i \in 1 .. Len(got'[s]) : Record(sent[s], got'[s], i)
    <3>1. CASE got'[s] = got[s]
      BY <1>6, <1>7, <3>1
    <3>2. CASE got'[s] = Append(got[s], dst[s])
      <4>1. Len(Append(got[s], dst[s])) = Len(got[s]) + 1
        BY <1>4
      <4> QED BY <1>6, <1>7, <3>2, <4>1
    <3> QED BY <1>3, <3>1, <3>2
  <2> QED BY <1>2, <2>1 DEF Drained, ParserState
<1> QED
  BY <1>2, <1>5, <1>7 DEF Stream, Follows, ParserState

(* What recv gives is the beginning of what was pending, and the rest of it  *)
(* remains                                                                 *)
LEMMA PendingWaits ==
  ASSUME TypeOK, NEW s \in Session, Recv(s) \/ Timeout(s)
  PROVE  Pending(s)' = Pending(s)
<1>1. CASE Recv(s)
  <2>1. PICK n \in 1 .. BufSize :
          /\ n <= Len(wire[s])
          /\ rb' = [rb EXCEPT ![s] = SubSeq(wire[s], 1, n)]
          /\ wire' = [wire EXCEPT ![s] = SubSeq(wire[s], n + 1, Len(wire[s]))]
    BY <1>1 DEF Recv
  <2>2. rb[s] = <<>> /\ rb'[s] = SubSeq(wire[s], 1, n)
        /\ wire'[s] = SubSeq(wire[s], n + 1, Len(wire[s]))
    BY <1>1, <2>1 DEF Recv, Waits, TypeOK
  <2> DEFINE w == wire[s]
  <2>3. w \in Seq(Byte) /\ Len(w) \in Nat /\ n \in Nat /\ BufSize \in Nat /\ n >= 1
    BY SessionTypes
  <2> HIDE DEF w
  <2>4. 1 \in 1 .. Len(w) + 1 /\ n \in 1 - 1 .. Len(w) /\ Len(w) \in n .. Len(w)
    BY <2>1, <2>3 DEF w
  <2>5. SubSeq(w, 1, n) \o SubSeq(w, n + 1, Len(w)) = SubSeq(w, 1, Len(w))
    BY <2>3, <2>4, ConcatAdjacentSubSeq
  <2>6. SubSeq(w, 1, Len(w)) = w /\ <<>> \o w = w
    BY <2>3
  <2> QED BY <2>2, <2>5, <2>6 DEF Pending, w
<1>2. CASE Timeout(s)
  BY <1>2 DEF Timeout, client, Pending
<1> QED BY <1>1, <1>2

(* Neither select nor recv changes what is pending *)
LEMMA StreamWaits ==
  ASSUME LineInv, NEW s \in Session, Stream(s), Recv(s) \/ Timeout(s)
  PROVE  Stream(s)'
<1>1. TypeOK
  BY DEF LineInv
<1>2. /\ rpc[s] = "loop" /\ rpc'[s] \in {"loop", "over"}
      /\ UNCHANGED <<state, dst, got, sent, open>>
  BY <1>1 DEF Recv, Timeout, Waits, Goto, client, TypeOK
<1>3. Pending(s)' = Pending(s)
  BY <1>1, PendingWaits
<1>4. Partial(s)' = Partial(s)
  BY <1>2 DEF Partial
<1>5. Plain(s)' = Plain(s) /\ Short(s)' = Short(s) /\ Listening(s)' = Listening(s)
  BY <1>2, <1>3, <1>4 DEF Plain, Short, Listening
<1>6. ASSUME Drained(s) PROVE Drained(s)'
  <2>1. CASE Recv(s)
    <3>1. Len(wire[s]) = 0
      BY <1>6 DEF Drained
    <3> QED BY <2>1, <3>1 DEF Recv
  <2>2. CASE Timeout(s)
    <3>1. UNCHANGED <<rb, wire>>
      BY <2>2 DEF Timeout, client
    <3> QED BY <1>2, <1>6, <3>1 DEF Drained, ParserState
  <2> QED BY <2>1, <2>2
<1> QED
  BY <1>2, <1>5, <1>6 DEF Stream, Follows, ParserState

(* The state that is read stays what it is: no other session changes it *)
LEMMA StreamSwitch ==
  ASSUME LineInv, NEW s \in Session, Stream(s), Switch(s)
  PROVE  Stream(s)'
<1>1. TypeOK
  BY DEF LineInv
<1>2. /\ rpc[s] = "loop" /\ rpc'[s] = state /\ rb[s] # <<>> /\ state \in ParserState
      /\ UNCHANGED <<state, rb, dst, got, sent, wire, open>>
  BY <1>1 DEF Switch, Goto, client, TypeOK
<1>3. Partial(s)' = Partial(s) /\ Pending(s)' = Pending(s)
  BY <1>2 DEF Partial, Pending, ParserState
<1>4. Plain(s)' = Plain(s) /\ Short(s)' = Short(s) /\ Listening(s)' = Listening(s)
  BY <1>2, <1>3 DEF Plain, Short, Listening
<1>5. ~Drained(s)
  BY <1>2 DEF Drained
<1> QED
  BY <1>2, <1>4, <1>5 DEF Stream, Follows

(* In the switch there is a byte, the first of what is pending *)
LEMMA PendingByte ==
  ASSUME LineInv, NEW s \in Session, rpc[s] \in ParserState
  PROVE  /\ Pending(s) # <<>> /\ Pending(s)[1] = Head(rb[s])
         /\ Tail(Pending(s)) = Tail(rb[s]) \o wire[s]
<1>1. TypeOK /\ rb[s] # <<>>
  BY DEF LineInv, InSwitch
<1>2. Pending(s) # <<>> /\ Pending(s)[1] = Head(rb[s]) /\ Tail(Pending(s)) = Tail(rb[s]) \o wire[s]
  <2> DEFINE r == rb[s]
             w == wire[s]
  <2>1. r \in Seq(Byte) /\ w \in Seq(Byte) /\ r # <<>>
    BY <1>1, SessionBytes
  <2> HIDE DEF r, w
  <2>2. Len(r \o w) >= 1 /\ (r \o w)[1] = Head(r)
    BY <2>1
  <2>3. Tail(r \o w) = Tail(r) \o w
    BY <2>1
  <2>4. r \o w # <<>>
    BY <2>1
  <2> QED BY <2>2, <2>3, <2>4 DEF Pending, r, w
<1> QED
  BY <1>2

(* In the switch the state of the parser is the one that was read *)
LEMMA SwitchByte ==
  ASSUME LineInv, NEW s \in Session, Stream(s), rpc[s] \in ParserState
  PROVE  /\ state = rpc[s] /\ Partial(s) = dst[s]
         /\ Pending(s) # <<>> /\ Pending(s)[1] = Head(rb[s])
         /\ Tail(Pending(s)) = Tail(rb[s]) \o wire[s]
         /\ Plain(s) /\ Short(s) =>
              open[s] /\ Reading(state, dst[s], Pending(s), sent[s], got[s])
<1>1. TypeOK /\ rb[s] # <<>>
  BY DEF LineInv, InSwitch
<1>2. state = rpc[s] /\ Partial(s) = dst[s]
  BY DEF Stream, Partial, ParserState
<1>3. Pending(s) # <<>> /\ Pending(s)[1] = Head(rb[s]) /\ Tail(Pending(s)) = Tail(rb[s]) \o wire[s]
  BY PendingByte
<1>4. ~Drained(s)
  BY <1>1 DEF Drained
<1> QED
  BY <1>2, <1>3, <1>4 DEF Stream, Follows, Listening

(* A character of the command, or the Cr that ends it *)
LEMMA StreamData ==
  ASSUME LineInv, NEW s \in Session, Stream(s), Data(s)
  PROVE  Stream(s)'
<1>1. TypeOK
  BY DEF LineInv
<1>2. /\ rpc[s] = "stData" /\ rpc'[s] = "loop" /\ rb'[s] = Tail(rb[s])
      /\ UNCHANGED <<got, sent, wire, open>>
  BY <1>1 DEF Data, Goto, Advance, client, TypeOK
<1>3. IF Head(rb[s]) = Cr THEN state' = "stCr" /\ dst'[s] = dst[s]
      ELSE state' = state /\ dst'[s] = Append(dst[s], Head(rb[s]))
  BY <1>1 DEF Data, Put, TypeOK
<1>4. rpc[s] \in ParserState
  BY <1>2 DEF ParserState
<1>5. Plain(s)' = Plain(s) /\ Short(s)' = Short(s)
  BY <1>2 DEF Plain, Short
<1>6. Partial(s)' = dst'[s] /\ Pending(s)' = Tail(Pending(s))
  BY <1>2, <1>4, SwitchByte DEF Partial, Pending
<1>7. ASSUME Plain(s), Short(s) PROVE open[s] /\ Listening(s)'
  <2>1. open[s] /\ Reading("stData", dst[s], Pending(s), sent[s], got[s]) /\ state = "stData"
    BY <1>2, <1>4, <1>7, SwitchByte
  <2>2. \A i \in 1 .. Len(sent[s]) : \A j \in 1 .. Len(sent[s][i]) : sent[s][i][j] \in Char
    <3> SUFFICES ASSUME NEW i \in 1 .. Len(sent[s]), NEW j \in 1 .. Len(sent[s][i])
                 PROVE  sent[s][i][j] \in Char
      OBVIOUS
    <3>1. i \in DOMAIN sent[s] /\ sent[s][i] \in Seq(Byte)
      BY <1>1, SessionBytes
    <3>2. j \in DOMAIN sent[s][i]
      BY <3>1
    <3> QED BY <1>7, <3>1, <3>2 DEF Plain, ToSet
  <2>3. IF Pending(s)[1] = Cr
          THEN Reading("stCr", dst[s], Tail(Pending(s)), sent[s], got[s])
          ELSE Reading("stData", Append(dst[s], Pending(s)[1]), Tail(Pending(s)), sent[s], got[s])
    <3>1. Pending(s) # <<>>
      BY <1>4, SwitchByte
    <3> QED BY <1>1, <2>1, <2>2, <3>1, SessionBytes, ReadingData
  <2>4. Pending(s)[1] = Head(rb[s])
    BY <1>4, SwitchByte
  <2> QED BY <1>2, <1>3, <1>6, <2>1, <2>3, <2>4 DEF Listening
<1> QED
  BY <1>2, <1>5, <1>7 DEF Stream, Follows, ParserState

(* The Lf: the command is returned *)
LEMMA StreamEndOfLine ==
  ASSUME LineInv, NEW s \in Session, Stream(s), EndOfLine(s)
  PROVE  Stream(s)'
<1>1. TypeOK
  BY DEF LineInv
<1>2. /\ rpc[s] = "stCr" /\ rpc'[s] = "command" /\ rb'[s] = Tail(rb[s])
      /\ got'[s] = Append(got[s], dst[s]) /\ state' = "stData"
      /\ UNCHANGED <<dst, sent, wire, open>>
  BY <1>1 DEF EndOfLine, Goto, Advance, Return, client, TypeOK
<1>3. rpc[s] \in ParserState
  BY <1>2 DEF ParserState
<1>4. Plain(s)' = Plain(s) /\ Short(s)' = Short(s)
  BY <1>2 DEF Plain, Short
<1>5. Partial(s)' = <<>> /\ Pending(s)' = Tail(Pending(s))
  BY <1>2, <1>3, SwitchByte DEF Partial, Pending
<1>6. ASSUME Plain(s), Short(s) PROVE open[s] /\ Listening(s)'
  <2>1. open[s] /\ Reading("stCr", dst[s], Pending(s), sent[s], got[s]) /\ Pending(s) # <<>>
    BY <1>2, <1>3, <1>6, SwitchByte
  <2>2. Reading("stData", <<>>, Tail(Pending(s)), sent[s], Append(got[s], dst[s]))
    BY <1>1, <2>1, SessionBytes, ReadingEnd
  <2> QED BY <1>2, <1>5, <2>1, <2>2 DEF Listening
<1> QED
  BY <1>2, <1>4, <1>6 DEF Stream, Follows, ParserState

(* These are for a carriage return inside a line *)
LEMMA StreamLoneCr ==
  ASSUME LineInv, NEW s \in Session, Stream(s), LoneCr(s) \/ Copy(s)
  PROVE  Stream(s)'
<1>1. TypeOK
  BY DEF LineInv
<1>2. /\ rpc[s] \in ParserState /\ rpc'[s] = "loop" /\ UNCHANGED <<got, sent, wire, open>>
  BY <1>1 DEF LoneCr, Copy, Goto, client, TypeOK, ParserState
<1>3. Plain(s)' = Plain(s) /\ Short(s)' = Short(s)
  BY <1>2 DEF Plain, Short
<1>4. ASSUME Plain(s), Short(s) PROVE FALSE
  <2>1. Reading(state, dst[s], Pending(s), sent[s], got[s]) /\ state = rpc[s]
        /\ Pending(s) # <<>> /\ Pending(s)[1] = Head(rb[s])
    BY <1>2, <1>4, SwitchByte
  <2>2. CASE LoneCr(s)
    <3>1. rpc[s] = "stCr" /\ Head(rb[s]) # Lf
      BY <2>2 DEF LoneCr, Goto
    <3>2. Reading("stCr", dst[s], Pending(s), sent[s], got[s])
      BY <2>1, <3>1
    <3>3. Pending(s)[1] = Lf
      BY <1>1, <2>1, <3>2, SessionBytes, ReadingEnd
    <3> QED BY <2>1, <3>1, <3>3
  <2>3. CASE Copy(s)
    <3>1. rpc[s] = "stCopy"
      BY <2>3 DEF Copy, Goto
    <3> QED BY <2>1, <3>1 DEF Reading
  <2> QED BY <2>2, <2>3
<1> QED
  BY <1>2, <1>3, <1>4 DEF Stream, Follows, ParserState

(* No line is sent, none is read *)
LEMMA StreamInit == Init => StreamInv
<1> SUFFICES ASSUME Init, NEW s \in Session PROVE Stream(s)
  BY DEF StreamInv
<1>1. /\ rpc[s] = "command" /\ state = "stData" /\ got[s] = <<>> /\ sent[s] = <<>> /\ open[s]
      /\ rb[s] = <<>> /\ wire[s] = <<>>
  BY DEF Init
<1>2. Pending(s) = <<>> /\ Partial(s) = <<>>
  BY <1>1 DEF Pending, Partial
<1>3. \E at : Aligned(at, <<>>, <<>>, 1, 0)
  <2> DEFINE at == [k \in 1 .. 1 |-> 0]
  <2>1. 0 + 1 = 1 /\ 0 + 0 = 0 /\ Len(<<>>) = 0
    OBVIOUS
  <2>2. at \in [1 .. 1 -> Int] /\ at[1] = 0
    OBVIOUS
  <2> HIDE DEF at
  <2>3. Aligned(at, <<>>, <<>>, 1, 0)
    BY <2>1, <2>2 DEF Aligned
  <2> QED BY <2>3
<1>4. Taken("stData", <<>>) = 0 /\ Len(<<>>) = 0
  BY DEF Taken
<1>5. Reading("stData", <<>>, <<>>, <<>>, <<>>)
  BY <1>3, <1>4 DEF Reading
<1> QED
  BY <1>1, <1>2, <1>5 DEF Stream, Follows, Listening, ParserState

(* The step of the one session is the step of all *)
LEMMA StreamNext ==
  ASSUME LineInv, StreamInv, [Next]_vars, MaxSize > 1, \A r, s \in Session : r = s
  PROVE  StreamInv'
<1>1. CASE UNCHANGED vars
  <2> SUFFICES ASSUME NEW s \in Session PROVE Stream(s)'
    BY DEF StreamInv
  <2>1. UNCHANGED <<state, rpc, rb, dst, got, sent, wire, open>>
    BY <1>1 DEF vars, session, client
  <2>2. Pending(s)' = Pending(s) /\ Partial(s)' = Partial(s)
    BY <2>1 DEF Pending, Partial
  <2> QED BY <2>1, <2>2 DEF StreamInv, Stream, Follows, Plain, Short, Listening, Drained
<1>2. ASSUME NEW s \in Session,
             Send(s) \/ Call(s) \/ Full(s) \/ Receive(s) \/ Parse(s)
      PROVE  StreamInv'
  <2>1. Stream(s)
    BY DEF StreamInv
  <2>2. Stream(s)'
    BY <1>2, <2>1, StreamSend, StreamCall, StreamFull, StreamGone, StreamWaits,
       StreamSwitch, StreamData, StreamEndOfLine, StreamLoneCr
    DEF Receive, Parse
  <2>3. \A r \in Session : r = s
    OBVIOUS
  <2> QED BY <2>2, <2>3 DEF StreamInv
<1> QED
  BY <1>1, <1>2 DEF Next

(* "works with fragmented socket stream" (altsocklib.c:543): the commands a *)
(* session reads are the lines of its client, for lines of any number and   *)
(* length that leave room for the final '\0', however recv cuts them, if    *)
(* no other session uses the parser.  (Of two sessions it is not true: the  *)
(* state they share is the finding of this project.)                       *)
THEOREM CommandsAreLines ==
  ASSUME \A r, s \in Session : r = s, MaxSize > 1
  PROVE  Spec => []RecordsAreLines
<1>1. LineInv /\ StreamInv /\ [Next]_vars => StreamInv'
  BY StreamNext
<1>2. LineInv /\ StreamInv => RecordsAreLines
  <2> SUFFICES ASSUME LineInv, StreamInv, NEW s \in Session, Plain(s), Short(s),
                      NEW i \in DOMAIN got[s]
               PROVE  IF i <= Len(sent[s])
                        THEN \/ got[s][i] = sent[s][i]
                             \/ ~open[s] /\ IsPrefix(got[s][i], sent[s][i])
                        ELSE ~open[s] /\ got[s][i] = <<>>
    BY DEF RecordsAreLines
  <2>1. TypeOK /\ Follows(s)
    BY DEF LineInv, StreamInv, Stream
  <2>2. got[s] \in Seq(Seq(Byte)) /\ sent[s] \in Seq(Seq(Byte))
    BY <2>1, SessionBytes
  <2>3. i \in 1 .. Len(got[s]) /\ Len(got[s]) \in Nat /\ Len(sent[s]) \in Nat
    BY <2>2
  <2>4. CASE open[s]
    <3>1. Reading(state, Partial(s), Pending(s), sent[s], got[s])
      BY <2>1, <2>4 DEF Follows, Listening
    <3>2. Len(got[s]) <= Len(sent[s])
      BY <2>1, <3>1, SessionBytes, ReadingRecords
    <3>3. got[s][i] = sent[s][i]
      BY <2>3, <3>1 DEF Reading
    <3> QED BY <2>3, <3>2, <3>3
  <2>5. CASE ~open[s]
    BY <2>1, <2>3, <2>5 DEF Follows, Drained, Record
  <2> QED BY <2>4, <2>5
<1> QED
  BY LineInvariant, StreamInit, <1>1, <1>2, PTL DEF Spec

-----------------------------------------------------------------------------
(* Sequences of sequences, one behind the other *)

(* Induction over the naturals, of what a set of them has: the minimal one  *)
(* that it does not have is not 0, nor the successor of one that it has     *)
LEMMA SetInduction ==
  ASSUME NEW T, 0 \in T, \A n \in Nat : n \in T => n + 1 \in T
  PROVE  Nat \subseteq T
<1> DEFINE R == OpToRel(<, Nat)
           U == Nat \ T
<1>1. IsWellFoundedOn(R, Nat)
  BY NatLessThanWellFounded
<1>2. \A x, y \in Nat : x < y => <<x, y>> \in R
  BY DEF OpToRel
<1> HIDE DEF R
<1> SUFFICES ASSUME U # {} PROVE FALSE
  OBVIOUS
<1>3. PICK x \in U : \A y \in U : ~(<<y, x>> \in R)
  <2>1. U \subseteq Nat /\ U # {}
    OBVIOUS
  <2> HIDE DEF U
  <2> QED BY <1>1, <2>1, WFMin
<1>4. x # 0 /\ x \in Nat
  OBVIOUS
<1>5. x - 1 \in Nat /\ x - 1 < x /\ (x - 1) + 1 = x
  BY <1>4
<1>6. x - 1 \in T
  BY <1>2, <1>3, <1>4, <1>5
<1> QED
  BY <1>5, <1>6

(* What FlattenSeq goes by: what the elements up to each one come to        *)
Added(s, f, i)  == IF i = 1 THEN s[i] ELSE f[i - 1] \o s[i]
Flattens(s, f) == f = [i \in 1 .. Len(s) |-> Added(s, f, i)]

(* There is such a function: up to each length, by induction *)
LEMMA FlattensExists ==
  ASSUME NEW S, NEW s \in Seq(Seq(S))
  PROVE  \E f : Flattens(s, f) /\ f \in [1 .. Len(s) -> Seq(S)]
<1> DEFINE n == Len(s)
           Upto(m) == \E f \in [1 .. m -> Seq(S)] : \A i \in 1 .. m : f[i] = Added(s, f, i)
           T == {m \in Nat : m <= n => Upto(m)}
<1>1. n \in Nat
  OBVIOUS
<1>2. 0 \in T
  <2> DEFINE f == [i \in 1 .. 0 |-> <<>>]
  <2>1. 1 .. 0 = {}
    OBVIOUS
  <2>2. f \in [1 .. 0 -> Seq(S)] /\ \A i \in 1 .. 0 : f[i] = Added(s, f, i)
    BY <2>1
  <2> QED BY <2>2
<1>3. ASSUME NEW m \in Nat, m \in T
      PROVE  m + 1 \in T
  <2> SUFFICES ASSUME m + 1 <= n PROVE Upto(m + 1)
    BY SMTT(20)
  <2>1. m < n /\ m <= n /\ m + 1 \in 1 .. n /\ (m + 1) - 1 = m
    BY <1>1
  <2>2. PICK f \in [1 .. m -> Seq(S)] : \A i \in 1 .. m : f[i] = Added(s, f, i)
    BY <1>3, <2>1
  <2> DEFINE x == Added(s, f, m + 1)
             g == [i \in 1 .. m + 1 |-> IF i = m + 1 THEN x ELSE f[i]]
  <2>3. x \in Seq(S)
    <3>1. s[m + 1] \in Seq(S)
      BY <2>1
    <3>2. CASE m = 0
      BY <3>1, <3>2 DEF Added
    <3>3. CASE m # 0
      <4>1. m \in 1 .. m /\ m + 1 # 1
        BY <3>3
      <4>2. f[m] \in Seq(S)
        BY <4>1
      <4>3. x = f[m] \o s[m + 1]
        BY <2>1, <4>1 DEF Added
      <4> QED BY <3>1, <4>2, <4>3, ConcatProperties, ZenonT(40)
    <3> QED BY <3>2, <3>3
  <2> HIDE DEF x
  <2>4. \A i \in 1 .. m + 1 : i = m + 1 \/ i \in 1 .. m
    OBVIOUS
  <2>5. g \in [1 .. m + 1 -> Seq(S)]
    BY <2>3, <2>4
  <2>6. \A i \in 1 .. m : g[i] = f[i]
    OBVIOUS
  <2>7. g[m + 1] = x
    OBVIOUS
  <2> HIDE DEF g
  <2>8. \A i \in 1 .. m + 1 : Added(s, g, i) = Added(s, f, i)
    <3> SUFFICES ASSUME NEW i \in 1 .. m + 1, i # 1 PROVE g[i - 1] = f[i - 1]
      BY DEF Added
    <3>1. i - 1 \in 1 .. m
      OBVIOUS
    <3> QED BY <2>6, <3>1
  <2>9. \A i \in 1 .. m + 1 : g[i] = Added(s, g, i)
    BY <2>2, <2>4, <2>6, <2>7, <2>8 DEF x
  <2> QED BY <2>5, <2>9
<1>4. Upto(n)
  <2> HIDE DEF Upto
  <2>1. 0 \in T /\ \A m \in Nat : m \in T => m + 1 \in T
    BY <1>2, <1>3
  <2> HIDE DEF T
  <2>2. Nat \subseteq T
    BY <2>1, SetInduction
  <2>3. n \in T
    BY <1>1, <2>2
  <2> QED BY <1>1, <2>3 DEF T
<1>5. PICK f \in [1 .. n -> Seq(S)] : \A i \in 1 .. n : f[i] = Added(s, f, i)
  BY <1>4
<1> QED
  BY <1>5 DEF Flattens

(* There is only one, and it depends on what comes before only *)
LEMMA FlattensUnique ==
  ASSUME NEW s, NEW t, NEW f, NEW g, Flattens(s, f), Flattens(t, g),
         Len(s) \in Nat, Len(t) \in Nat, Len(s) <= Len(t),
         \A i \in 1 .. Len(s) : s[i] = t[i]
  PROVE  \A i \in 1 .. Len(s) : f[i] = g[i]
<1> DEFINE T == {m \in Nat : m \in 1 .. Len(s) => f[m] = g[m]}
<1>1. 0 \in T
  OBVIOUS
<1>2. ASSUME NEW m \in Nat, m \in T
      PROVE  m + 1 \in T
  <2> SUFFICES ASSUME m + 1 \in 1 .. Len(s) PROVE f[m + 1] = g[m + 1]
    OBVIOUS
  <2>1. m + 1 \in 1 .. Len(t) /\ s[m + 1] = t[m + 1] /\ (m + 1) - 1 = m
    OBVIOUS
  <2>2. f[m + 1] = Added(s, f, m + 1) /\ g[m + 1] = Added(t, g, m + 1)
    BY <2>1 DEF Flattens
  <2>3. m + 1 = 1 \/ f[m] = g[m]
    BY <1>2
  <2> QED BY <2>1, <2>2, <2>3 DEF Added
<1> HIDE DEF T
<1>3. Nat \subseteq T
  BY <1>1, <1>2, SetInduction
<1> QED
  BY <1>3 DEF T

(* So FlattenSeq, which chooses one, is its last value *)
LEMMA FlattenSeqIs ==
  ASSUME NEW S, NEW s \in Seq(Seq(S)), Len(s) > 0
  PROVE  \E f : Flattens(s, f) /\ f \in [1 .. Len(s) -> Seq(S)] /\ FlattenSeq(s) = f[Len(s)]
<1> DEFINE flatten == CHOOSE f : f = [i \in 1 .. Len(s) |-> IF i = 1 THEN s[i] ELSE f[i - 1] \o s[i]]
<1>1. PICK f : Flattens(s, f) /\ f \in [1 .. Len(s) -> Seq(S)]
  BY FlattensExists
<1>2. f = [i \in 1 .. Len(s) |-> IF i = 1 THEN s[i] ELSE f[i - 1] \o s[i]]
  BY <1>1 DEF Flattens, Added
<1>3. flatten = [i \in 1 .. Len(s) |-> IF i = 1 THEN s[i] ELSE flatten[i - 1] \o s[i]]
  BY <1>2, Zenon
<1>4. FlattenSeq(s) = flatten[Len(s)]
  <2>1. ~(Len(s) = 0)
    OBVIOUS
  <2> QED BY <2>1, Zenon DEF FlattenSeq
<1> HIDE DEF flatten
<1>5. Flattens(s, flatten)
  BY <1>3 DEF Flattens, Added
<1>6. \A i \in 1 .. Len(s) : f[i] = flatten[i]
  <2>1. Len(s) \in Nat /\ Len(s) <= Len(s)
    OBVIOUS
  <2> QED BY <1>1, <1>5, <2>1, FlattensUnique
<1>7. flatten \in [1 .. Len(s) -> Seq(S)]
  BY <1>1, <1>3, <1>6
<1> QED
  BY <1>4, <1>5, <1>7

(* FlattenSeq of no sequence *)
LEMMA FlattenNone == FlattenSeq(<<>>) = <<>>
<1>1. Len(<<>>) = 0
  OBVIOUS
<1> QED
  BY <1>1, Zenon DEF FlattenSeq

(* FlattenSeq of sequences over S is a sequence over S *)
LEMMA FlattenType ==
  ASSUME NEW S, NEW s \in Seq(Seq(S))
  PROVE  FlattenSeq(s) \in Seq(S)
<1>1. CASE s = <<>>
  <2>1. FlattenSeq(s) = <<>> /\ <<>> \in Seq(S)
    BY <1>1, FlattenNone
  <2> QED BY <2>1
<1>2. CASE s # <<>>
  <2>1. Len(s) > 0 /\ Len(s) \in 1 .. Len(s)
    BY <1>2, EmptySeq
  <2> QED BY <2>1, FlattenSeqIs
<1> QED
  BY <1>1, <1>2

(* FlattenSeq of a sequence with one more element                           *)
LEMMA FlattenAppend ==
  ASSUME NEW S, NEW s \in Seq(Seq(S)), NEW x \in Seq(S)
  PROVE  FlattenSeq(Append(s, x)) = FlattenSeq(s) \o x
<1> DEFINE Q == Seq(S)
           t == Append(s, x)
<1>1. t \in Seq(Q) /\ Len(t) = Len(s) + 1 /\ Len(s) \in Nat /\ t[Len(t)] = x
      /\ \A i \in 1 .. Len(s) : t[i] = s[i]
  <2> HIDE DEF Q
  <2> QED BY DEF Q
<1> HIDE DEF t
<1>2. PICK g : Flattens(t, g) /\ FlattenSeq(t) = g[Len(t)]
  BY <1>1, FlattenSeqIs
<1>3. g[Len(t)] = Added(t, g, Len(t))
  <2>1. Len(t) \in 1 .. Len(t)
    BY <1>1
  <2> QED BY <1>2, <2>1, Zenon DEF Flattens
<1>4. CASE s = <<>>
  <2>1. Len(t) = 1
    BY <1>1, <1>4
  <2> QED BY <1>1, <1>2, <1>3, <1>4, <2>1, FlattenNone, ConcatEmptySeq DEF Added, t
<1>5. CASE s # <<>>
  <2>1. Len(s) > 0 /\ Len(s) \in 1 .. Len(s)
    BY <1>1, <1>5, EmptySeq
  <2>2. PICK f : Flattens(s, f) /\ FlattenSeq(s) = f[Len(s)]
    BY <2>1, FlattenSeqIs
  <2>3. f[Len(s)] = g[Len(s)]
    <3>1. Len(s) \in Nat /\ Len(t) \in Nat /\ Len(s) <= Len(t)
      BY <1>1
    <3>2. \A i \in 1 .. Len(s) : f[i] = g[i]
      <4>1. \A i \in 1 .. Len(s) : s[i] = t[i]
        BY <1>1
      <4>2. Flattens(s, f) /\ Flattens(t, g)
        BY <1>2, <2>2
      <4> QED BY <3>1, <4>1, <4>2, FlattensUnique
    <3> QED BY <2>1, <3>2
  <2>4. Len(t) # 1 /\ Len(t) - 1 = Len(s)
    BY <1>1, <2>1
  <2> QED BY <1>1, <1>2, <1>3, <2>2, <2>3, <2>4 DEF Added, t
<1> QED
  BY <1>4, <1>5


(* FlattenSeq of one sequence *)
LEMMA FlattenOne ==
  ASSUME NEW S, NEW x \in Seq(S)
  PROVE  FlattenSeq(<<x>>) = x
<1> DEFINE Q == Seq(S)
<1>1. <<>> \in Seq(Q) /\ Append(<<>>, x) = <<x>>
  OBVIOUS
<1>2. FlattenSeq(Append(<<>>, x)) = FlattenSeq(<<>>) \o x
  BY <1>1, FlattenAppend
<1> QED
  BY <1>1, <1>2, FlattenNone, ConcatEmptySeq

(* FlattenSeq of two sequences, one behind the other                        *)
LEMMA FlattenConcat ==
  ASSUME NEW S, NEW s \in Seq(Seq(S)), NEW t \in Seq(Seq(S))
  PROVE  FlattenSeq(s \o t) = FlattenSeq(s) \o FlattenSeq(t)
<1> DEFINE Q == Seq(S)
           Splits(u) == FlattenSeq(s \o u) = FlattenSeq(s) \o FlattenSeq(u)
           T == {n \in Nat : \A u \in Seq(Q) : Len(u) = n => Splits(u)}
<1>1. s \in Seq(Q) /\ t \in Seq(Q) /\ FlattenSeq(s) \in Seq(S)
  BY FlattenType
<1>2. 0 \in T
  <2> SUFFICES ASSUME NEW u \in Seq(Q), Len(u) = 0 PROVE Splits(u)
    OBVIOUS
  <2>1. u = <<>>
    <3> HIDE DEF Q
    <3> QED BY EmptySeq
  <2>2. s \o u = s
    <3> HIDE DEF Q
    <3> QED BY <1>1, <2>1, ConcatEmptySeq
  <2>3. FlattenSeq(s) \o <<>> = FlattenSeq(s)
    BY <1>1, ConcatEmptySeq
  <2> QED BY <2>1, <2>2, <2>3, FlattenNone
<1>3. ASSUME NEW n \in Nat, n \in T
      PROVE  n + 1 \in T
  <2> SUFFICES ASSUME NEW u \in Seq(Q), Len(u) = n + 1 PROVE Splits(u)
    OBVIOUS
  <2> DEFINE v == SubSeq(u, 1, n)
             x == u[n + 1]
  <2>1. /\ x \in Q /\ v \in Seq(Q) /\ Len(v) = n /\ u = Append(v, x)
        /\ s \o u = Append(s \o v, x) /\ s \o v \in Seq(Q)
    <3> HIDE DEF Q
    <3>1. x \in Q /\ v \in Seq(Q) /\ Len(v) = n
      OBVIOUS
    <3>2. u = Append(v, x)
      BY <3>1
    <3>3. s \o v \in Seq(Q)
      BY <1>1, <3>1
    <3> HIDE DEF v, x
    <3>4. s \o Append(v, x) = Append(s \o v, x)
      BY <1>1, <3>1
    <3> QED BY <3>1, <3>2, <3>3, <3>4
  <2> HIDE DEF v, x
  <2>2. Splits(v)
    BY <1>3, <2>1
  <2>3. FlattenSeq(s \o u) = FlattenSeq(s \o v) \o x
    BY <2>1, FlattenAppend
  <2>4. FlattenSeq(u) = FlattenSeq(v) \o x
    BY <2>1, FlattenAppend
  <2>5. FlattenSeq(v) \in Seq(S)
    BY <2>1, FlattenType
  <2>6. (FlattenSeq(s) \o FlattenSeq(v)) \o x = FlattenSeq(s) \o (FlattenSeq(v) \o x)
    <3>1. x \in Seq(S)
      BY <2>1
    <3>2. FlattenSeq(s) \in Seq(S)
      BY <1>1
    <3> QED BY <2>5, <3>1, <3>2, ConcatAssociative, SMTT(20)
  <2> QED BY <2>2, <2>3, <2>4, <2>6
<1> HIDE DEF Splits
<1>4. 0 \in T /\ \A n \in Nat : n \in T => n + 1 \in T
  BY <1>2, <1>3
<1> HIDE DEF T
<1>5. Nat \subseteq T
  BY <1>4, SetInduction
<1>6. Len(t) \in T /\ Len(t) = Len(t)
  <2>1. Len(t) \in Nat
    OBVIOUS
  <2> QED BY <1>5, <2>1
<1> QED
  BY <1>1, <1>6 DEF T, Splits

-----------------------------------------------------------------------------
(* The characters on their way from the client to the commands *)

(* What Chars keeps of each byte *)
Piece(c)  == IF c \in Char THEN <<c>> ELSE <<>>
Pieces(u) == [i \in DOMAIN u |-> Piece(u[i])]

(* Chars is FlattenSeq of what is kept of each byte *)
LEMMA CharsArePieces ==
  ASSUME NEW u \in Seq(Byte)
  PROVE  /\ Pieces(u) \in Seq(Seq(Char)) /\ Len(Pieces(u)) = Len(u)
         /\ \A i \in 1 .. Len(u) : Pieces(u)[i] = Piece(u[i])
         /\ Chars(u) = FlattenSeq(Pieces(u)) /\ Chars(u) \in Seq(Char)
<1> DEFINE Q == Seq(Char)
<1>1. \A c : Piece(c) \in Q
  BY DEF Piece
<1> HIDE DEF Q
<1>2. Pieces(u) \in Seq(Q) /\ Len(Pieces(u)) = Len(u)
      /\ \A i \in 1 .. Len(u) : Pieces(u)[i] = Piece(u[i])
  BY <1>1 DEF Pieces
<1>3. Chars(u) = FlattenSeq(Pieces(u))
  BY Zenon DEF Chars, Pieces, Piece
<1>4. Pieces(u) \in Seq(Seq(Char))
  BY <1>2 DEF Q
<1> HIDE DEF Q
<1>5. FlattenSeq(Pieces(u)) \in Seq(Char)
  BY <1>4, FlattenType
<1> QED
  BY <1>2, <1>3, <1>4, <1>5

(* Chars of two pieces of the stream, one behind the other *)
LEMMA CharsConcat ==
  ASSUME NEW u \in Seq(Byte), NEW v \in Seq(Byte)
  PROVE  Chars(u \o v) = Chars(u) \o Chars(v)
<1> DEFINE Q == Seq(Char)
<1>1. u \o v \in Seq(Byte)
  OBVIOUS
<1>2. /\ Pieces(u) \in Seq(Q) /\ Pieces(v) \in Seq(Q) /\ Pieces(u \o v) \in Seq(Q)
      /\ Len(Pieces(u)) = Len(u) /\ Len(Pieces(v)) = Len(v)
      /\ Len(Pieces(u \o v)) = Len(u \o v)
  BY <1>1, CharsArePieces
<1>3. Pieces(u \o v) = Pieces(u) \o Pieces(v)
  <2> HIDE DEF Q
  <2>1. Len(Pieces(u \o v)) = Len(Pieces(u) \o Pieces(v)) /\ Pieces(u) \o Pieces(v) \in Seq(Q)
    <3>1. /\ Pieces(u) \o Pieces(v) \in Seq(Q)
          /\ Len(Pieces(u) \o Pieces(v)) = Len(Pieces(u)) + Len(Pieces(v))
      BY <1>2, ConcatProperties
    <3>2. Len(u \o v) = Len(u) + Len(v)
      OBVIOUS
    <3> QED BY <1>2, <3>1, <3>2
  <2>2. \A i \in 1 .. Len(u) + Len(v) :
           Pieces(u \o v)[i] = (Pieces(u) \o Pieces(v))[i]
    <3> SUFFICES ASSUME NEW i \in 1 .. Len(u) + Len(v)
                 PROVE  Pieces(u \o v)[i] = (Pieces(u) \o Pieces(v))[i]
      OBVIOUS
    <3>1. Pieces(u \o v)[i] = Piece((u \o v)[i])
      <4>1. i \in 1 .. Len(u \o v)
        OBVIOUS
      <4> QED BY <1>1, <4>1, CharsArePieces
    <3>2. CASE i \in 1 .. Len(u)
      <4>1. (u \o v)[i] = u[i] /\ (Pieces(u) \o Pieces(v))[i] = Pieces(u)[i]
        BY <1>2, <3>2
      <4>2. Pieces(u)[i] = Piece(u[i])
        BY <3>2, CharsArePieces
      <4> QED BY <3>1, <4>1, <4>2
    <3>3. CASE ~(i \in 1 .. Len(u))
      <4>1. i - Len(u) \in 1 .. Len(v)
        BY <3>3
      <4>2. (u \o v)[i] = v[i - Len(u)] /\ (Pieces(u) \o Pieces(v))[i] = Pieces(v)[i - Len(u)]
        BY <1>2, <3>3, <4>1
      <4>3. Pieces(v)[i - Len(u)] = Piece(v[i - Len(u)])
        BY <4>1, CharsArePieces
      <4> QED BY <3>1, <4>2, <4>3
    <3> QED BY <3>2, <3>3
  <2>3. Len(Pieces(u \o v)) = Len(u) + Len(v)
    BY <1>2
  <2> QED BY <1>2, <2>1, <2>2, <2>3, SeqEqual
<1>4. Chars(u) = FlattenSeq(Pieces(u)) /\ Chars(v) = FlattenSeq(Pieces(v))
      /\ Chars(u \o v) = FlattenSeq(Pieces(u \o v))
  BY <1>1, CharsArePieces
<1>5. FlattenSeq(Pieces(u) \o Pieces(v)) = FlattenSeq(Pieces(u)) \o FlattenSeq(Pieces(v))
  BY <1>2, FlattenConcat
<1> QED
  BY <1>3, <1>4, <1>5

(* Chars of nothing *)
LEMMA CharsOfNone == Chars(<<>>) = <<>>
<1>1. <<>> \in Seq(Byte)
  OBVIOUS
<1>2. Chars(<<>>) = FlattenSeq(Pieces(<<>>)) /\ Pieces(<<>>) = <<>>
  <2> DEFINE Q == Seq(Char)
             p == Pieces(<<>>)
  <2>1. p \in Seq(Q) /\ Len(p) = Len(<<>>) /\ Chars(<<>>) = FlattenSeq(p)
    BY <1>1, CharsArePieces
  <2> HIDE DEF Q, p
  <2>2. p = <<>>
    BY <2>1, EmptySeq
  <2> QED BY <2>1, <2>2 DEF p
<1> QED
  BY <1>2, FlattenNone

(* Chars of one byte *)
LEMMA CharsOfOne ==
  ASSUME NEW c \in Byte
  PROVE  Chars(<<c>>) = Piece(c)
<1> DEFINE Q == Seq(Char)
           x == Piece(c)
<1>1. <<c>> \in Seq(Byte) /\ Len(<<c>>) = 1 /\ <<c>>[1] = c /\ 1 \in 1 .. 1
  OBVIOUS
<1>2. Pieces(<<c>>) \in Seq(Q) /\ Len(Pieces(<<c>>)) = 1 /\ Pieces(<<c>>)[1] = x
      /\ Chars(<<c>>) = FlattenSeq(Pieces(<<c>>))
  BY <1>1, CharsArePieces
<1>3. x \in Seq(Char)
  BY DEF Piece
<1>4. Pieces(<<c>>) = <<x>>
  <2> HIDE DEF Q, x
  <2> QED BY <1>2
<1> HIDE DEF x
<1>5. FlattenSeq(<<x>>) = x
  BY <1>3, FlattenOne
<1> QED
  BY <1>2, <1>4, <1>5 DEF x

(* A line, of characters only, is kept as it is *)
LEMMA CharsOfLine ==
  ASSUME NEW l \in Seq(Char)
  PROVE  Chars(l) = l
<1> DEFINE T == {n \in Nat : \A u \in Seq(Char) : Len(u) = n => Chars(u) = u}
<1>1. 0 \in T
  <2> SUFFICES ASSUME NEW u \in Seq(Char), Len(u) = 0 PROVE Chars(u) = u
    OBVIOUS
  <2>1. u = <<>>
    BY EmptySeq
  <2> QED BY <2>1, CharsOfNone
<1>2. ASSUME NEW n \in Nat, n \in T
      PROVE  n + 1 \in T
  <2> SUFFICES ASSUME NEW u \in Seq(Char), Len(u) = n + 1 PROVE Chars(u) = u
    OBVIOUS
  <2> DEFINE v == SubSeq(u, 1, n)
             c == u[n + 1]
  <2>1. c \in Char /\ v \in Seq(Char) /\ Len(v) = n
    OBVIOUS
  <2>2. u = v \o <<c>>
    BY <2>1
  <2> HIDE DEF v, c
  <2>3. v \in Seq(Byte) /\ c \in Byte /\ <<c>> \in Seq(Byte)
    BY <2>1 DEF Byte
  <2>4. Chars(v) = v
    BY <1>2, <2>1
  <2>5. Chars(<<c>>) = <<c>>
    BY <2>1, <2>3, CharsOfOne DEF Piece
  <2>6. Chars(v \o <<c>>) = Chars(v) \o Chars(<<c>>)
    BY <2>3, CharsConcat
  <2> QED BY <2>2, <2>4, <2>5, <2>6
<1>3. 0 \in T /\ \A n \in Nat : n \in T => n + 1 \in T
  BY <1>1, <1>2
<1> HIDE DEF T
<1>4. Nat \subseteq T
  BY <1>3, SetInduction
<1>5. Len(l) \in T /\ Len(l) = Len(l)
  <2>1. Len(l) \in Nat
    OBVIOUS
  <2> QED BY <1>4, <2>1
<1> QED
  BY <1>5 DEF T

(* Of a line as it is sent the line is kept, not its end *)
LEMMA CharsOfFrame ==
  ASSUME NEW l \in Seq(Char)
  PROVE  Chars(Frame(l)) = l
<1>1. Cr \in Byte /\ Lf \in Byte /\ Cr \notin Char /\ Lf \notin Char
  BY Separators DEF Byte
<1>2. Chars(<<Cr>>) = <<>> /\ Chars(<<Lf>>) = <<>>
  BY <1>1, CharsOfOne DEF Piece
<1>3. <<Cr>> \in Seq(Byte) /\ <<Lf>> \in Seq(Byte) /\ <<Cr, Lf>> = <<Cr>> \o <<Lf>>
      /\ <<Cr, Lf>> \in Seq(Byte)
  <2>1. \A c \in Byte : <<c>> \in Seq(Byte)
    OBVIOUS
  <2>2. \A c, d \in Byte : <<c, d>> \in Seq(Byte)
    OBVIOUS
  <2>3. <<Cr, Lf>> = <<Cr>> \o <<Lf>>
    <3> DEFINE p == <<Cr>>
               q == <<Lf>>
    <3>1. p \in Seq(Byte) /\ Len(p) = 1 /\ p[1] = Cr /\ q \in Seq(Byte) /\ Len(q) = 1 /\ q[1] = Lf
      BY <1>1
    <3> HIDE DEF p, q
    <3>2. p \o q \in Seq(Byte) /\ Len(p \o q) = 2 /\ (p \o q)[1] = Cr /\ (p \o q)[2] = Lf
      BY <3>1
    <3>3. <<Cr, Lf>> \in Seq(Byte) /\ Len(<<Cr, Lf>>) = 2
          /\ <<Cr, Lf>>[1] = Cr /\ <<Cr, Lf>>[2] = Lf
      BY <1>1
    <3>4. \A i \in 1 .. 2 : i = 1 \/ i = 2
      OBVIOUS
    <3>5. p \o q = <<Cr, Lf>>
      BY <3>2, <3>3, <3>4, SeqEqual
    <3> QED BY <3>5 DEF p, q
  <2> QED BY <1>1, <2>1, <2>2, <2>3
<1>4. Chars(<<Cr, Lf>>) = <<>> \o <<>>
  BY <1>2, <1>3, CharsConcat
<1>5. l \in Seq(Byte)
  BY DEF Byte
<1>6. Chars(l \o <<Cr, Lf>>) = Chars(l) \o Chars(<<Cr, Lf>>)
  BY <1>3, <1>5, CharsConcat
<1>7. <<>> \o <<>> = <<>> /\ l \o <<>> = l
  BY ConcatEmptySeq
<1> QED
  BY <1>4, <1>6, <1>7, CharsOfLine DEF Frame

(* The first byte that is pending, and the rest *)
LEMMA CharsOfHead ==
  ASSUME NEW u \in Seq(Byte), u # <<>>
  PROVE  Chars(u) = Piece(u[1]) \o Chars(Tail(u))
<1>1. u[1] \in Byte /\ Tail(u) \in Seq(Byte) /\ <<u[1]>> \in Seq(Byte)
  OBVIOUS
<1>2. u = <<u[1]>> \o Tail(u)
  OBVIOUS
<1>3. Chars(<<u[1]>> \o Tail(u)) = Chars(<<u[1]>>) \o Chars(Tail(u))
  BY <1>1, CharsConcat
<1> QED
  BY <1>1, <1>2, <1>3, CharsOfOne

(* What is pending of lines without a lone carriage return: where a line    *)
(* ends there is a Cr and behind it an Lf, and if the parser is between the *)
(* two the Lf comes first                                                   *)
Paired(st, u) ==
  /\ st \in {"stData", "stCr"}
  /\ st = "stCr" => u # <<>> /\ u[1] = Lf
  /\ \A i \in 1 .. Len(u) : u[i] = Cr => i + 1 <= Len(u) /\ u[i + 1] = Lf
  /\ \A i \in 1 .. Len(u) : u[i] = Lf => IF i = 1 THEN st = "stCr" ELSE u[i - 1] = Cr

(* The characters sent are those of the commands returned, of the command   *)
(* so far and of what is pending, in this order                             *)
Balanced(records, partial, pending, lines) ==
  FlattenSeq(records) \o partial \o Chars(pending) = FlattenSeq(lines)

Flow(s) ==
  /\ rpc[s] \in ParserState => rpc[s] = state
  /\ Plain(s) /\ open[s] =>
       Paired(state, Pending(s)) /\ Balanced(got[s], Partial(s), Pending(s), sent[s])

FlowInv == \A s \in Session : Flow(s)

(* The client sends a line *)
LEMMA PairedSend ==
  ASSUME NEW st, NEW u \in Seq(Byte), Paired(st, u), NEW l \in Seq(Char)
  PROVE  Paired(st, u \o Frame(l))
<1> DEFINE p == u \o Frame(l)
           n == Len(u)
           m == Len(l)
<1>1. l \in Seq(Byte) /\ m \in Nat /\ \A j \in 1 .. m : l[j] \notin {Cr, Lf}
  BY Separators DEF Byte
<1>2. /\ p \in Seq(Byte) /\ Len(p) = n + m + 2 /\ n \in Nat
      /\ \A i \in 1 .. n : p[i] = u[i]
      /\ \A j \in 1 .. m + 2 : p[n + j] = Frame(l)[j]
  BY <1>1, FrameBehind
<1>3. /\ \A j \in 1 .. m : p[n + j] \notin {Cr, Lf}
      /\ p[n + m + 1] = Cr /\ p[n + m + 2] = Lf
  <2>1. /\ \A j \in 1 .. m : Frame(l)[j] = l[j]
        /\ Frame(l)[m + 1] = Cr /\ Frame(l)[m + 2] = Lf
    BY <1>1, FrameProperties
  <2>2. m + 1 \in 1 .. m + 2 /\ m + 2 \in 1 .. m + 2
        /\ n + (m + 1) = n + m + 1 /\ n + (m + 2) = n + m + 2
    BY <1>1, <1>2
  <2>3. \A j \in 1 .. m : j \in 1 .. m + 2
    BY <1>1
  <2> HIDE DEF p, n, m
  <2> QED BY <1>1, <1>2, <2>1, <2>2, <2>3
<1>4. /\ st = "stCr" => n >= 1 /\ u[1] = Lf
      /\ \A i \in 1 .. n : u[i] = Cr => i + 1 <= n /\ u[i + 1] = Lf
      /\ \A i \in 1 .. n : u[i] = Lf => IF i = 1 THEN st = "stCr" ELSE u[i - 1] = Cr
  BY EmptySeq DEF Paired
<1>5. Cr # Lf
  BY Separators
<1> HIDE DEF p, n, m
<1>6. \A i \in 1 .. n + m + 2 :
         \/ i \in 1 .. n
         \/ \E j \in 1 .. m : i = n + j
         \/ i = n + m + 1 \/ i = n + m + 2
  <2> SUFFICES ASSUME NEW i \in 1 .. n + m + 2, ~(i \in 1 .. n), i # n + m + 1, i # n + m + 2
               PROVE  \E j \in 1 .. m : i = n + j
    OBVIOUS
  <2>1. n \in Nat /\ m \in Nat
    BY <1>1, <1>2
  <2>2. i - n \in 1 .. m /\ i = n + (i - n)
    BY <2>1
  <2> QED BY <2>2
<1>7. st = "stCr" => p # <<>> /\ p[1] = Lf
  <2> SUFFICES ASSUME st = "stCr" PROVE p # <<>> /\ p[1] = Lf
    OBVIOUS
  <2>1. 1 \in 1 .. n /\ Len(p) # 0
    BY <1>1, <1>2, <1>4
  <2> QED BY <1>2, <1>4, <2>1, EmptySeq
<1>8. ASSUME NEW i \in 1 .. Len(p), p[i] = Cr
      PROVE  i + 1 <= Len(p) /\ p[i + 1] = Lf
  <2>1. CASE i \in 1 .. n
    <3>1. i + 1 <= n /\ u[i + 1] = Lf
      BY <1>2, <1>4, <1>8, <2>1
    <3>2. i + 1 \in 1 .. n
      BY <1>2, <2>1, <3>1
    <3> QED BY <1>1, <1>2, <3>1, <3>2
  <2>2. CASE i = n + m + 1
    BY <1>1, <1>2, <1>3, <2>2
  <2> QED BY <1>2, <1>3, <1>5, <1>6, <1>8, <2>1, <2>2
<1>9. ASSUME NEW i \in 1 .. Len(p), p[i] = Lf
      PROVE  IF i = 1 THEN st = "stCr" ELSE p[i - 1] = Cr
  <2>1. CASE i \in 1 .. n
    <3>1. IF i = 1 THEN st = "stCr" ELSE u[i - 1] = Cr
      BY <1>2, <1>4, <1>9, <2>1
    <3>2. i # 1 => i - 1 \in 1 .. n
      BY <1>2, <2>1
    <3> QED BY <1>2, <3>1, <3>2
  <2>2. CASE i = n + m + 2
    BY <1>1, <1>2, <1>3, <2>2
  <2> QED BY <1>2, <1>3, <1>5, <1>6, <1>9, <2>1, <2>2
<1>10. st \in {"stData", "stCr"}
  BY DEF Paired
<1>11. Paired(st, p)
  BY <1>7, <1>8, <1>9, <1>10 DEF Paired
<1> QED
  BY <1>11 DEF p

(* The parser takes a byte *)
LEMMA PairedTake ==
  ASSUME NEW st, NEW u \in Seq(Byte), Paired(st, u), u # <<>>
  PROVE  /\ st = "stCr" => u[1] = Lf /\ Paired("stData", Tail(u))
         /\ st = "stData" /\ u[1] = Cr => Paired("stCr", Tail(u))
         /\ st = "stData" /\ u[1] # Cr => u[1] \in Char /\ Paired("stData", Tail(u))
<1> DEFINE n == Len(u)
           v == Tail(u)
<1>1. /\ n \in Nat /\ n >= 1 /\ 1 \in 1 .. n /\ v \in Seq(Byte) /\ Len(v) = n - 1
      /\ u[1] \in Byte /\ \A i \in 1 .. n - 1 : v[i] = u[i + 1]
  OBVIOUS
<1>2. /\ st \in {"stData", "stCr"} /\ (st = "stCr" => u[1] = Lf)
      /\ \A i \in 1 .. n : u[i] = Cr => i + 1 <= n /\ u[i + 1] = Lf
      /\ \A i \in 1 .. n : u[i] = Lf => IF i = 1 THEN st = "stCr" ELSE u[i - 1] = Cr
  BY DEF Paired
<1>3. Cr # Lf
  BY Separators
<1> HIDE DEF n, v
<1>4. ASSUME NEW i \in 1 .. Len(v), v[i] = Cr
      PROVE  i + 1 <= Len(v) /\ v[i + 1] = Lf
  <2>1. i + 1 \in 1 .. n /\ u[i + 1] = Cr
    BY <1>1, <1>4
  <2>2. (i + 1) + 1 <= n /\ u[(i + 1) + 1] = Lf
    BY <1>2, <2>1
  <2>3. i + 1 \in 1 .. n - 1 /\ i + 1 <= Len(v)
    BY <1>1, <2>2
  <2> QED BY <1>1, <2>2, <2>3
<1>5. ASSUME NEW i \in 1 .. Len(v), v[i] = Lf
      PROVE  IF i = 1 THEN u[1] = Cr ELSE v[i - 1] = Cr
  <2>1. i + 1 \in 1 .. n /\ u[i + 1] = Lf /\ i + 1 # 1 /\ (i + 1) - 1 = i
    BY <1>1, <1>5
  <2>2. u[i] = Cr
    BY <1>2, <2>1
  <2>3. i # 1 => i - 1 \in 1 .. n - 1 /\ (i - 1) + 1 = i
    BY <1>1, <1>5
  <2> QED BY <1>1, <2>2, <2>3
<1>6. u[1] = Cr => v # <<>> /\ v[1] = Lf
  <2> SUFFICES ASSUME u[1] = Cr PROVE v # <<>> /\ v[1] = Lf
    OBVIOUS
  <2>1. 1 + 1 <= n /\ u[1 + 1] = Lf
    BY <1>1, <1>2
  <2>2. 1 \in 1 .. n - 1
    BY <1>1, <2>1
  <2> QED BY <1>1, <2>1, <2>2, EmptySeq
<1>7. ASSUME u[1] # Cr PROVE Paired("stData", v)
  BY <1>4, <1>5, <1>7 DEF Paired
<1>8. ASSUME u[1] = Cr PROVE Paired("stCr", v)
  BY <1>4, <1>5, <1>6, <1>8 DEF Paired
<1>9. st = "stData" /\ u[1] # Cr => u[1] \in Char
  BY <1>1, <1>2 DEF Byte
<1> QED
  BY <1>2, <1>3, <1>7, <1>8, <1>9 DEF v

(* The client sends a line *)
LEMMA BalancedSend ==
  ASSUME NEW records \in Seq(Seq(Byte)), NEW partial \in Seq(Byte), NEW u \in Seq(Byte),
         NEW lines \in Seq(Seq(Byte)), NEW l \in Seq(Char), Balanced(records, partial, u, lines)
  PROVE  Balanced(records, partial, u \o Frame(l), Append(lines, l))
<1> DEFINE r == FlattenSeq(records)
           c == Chars(u)
<1>1. l \in Seq(Byte)
  BY DEF Byte
<1>2. r \in Seq(Byte) /\ c \in Seq(Byte)
  <2>1. c \in Seq(Char)
    BY CharsArePieces
  <2> QED BY <2>1, FlattenType DEF Byte
<1>3. FlattenSeq(Append(lines, l)) = FlattenSeq(lines) \o l
  BY <1>1, FlattenAppend
<1>4. Chars(u \o Frame(l)) = c \o l
  <2>1. Frame(l) \in Seq(Byte)
    BY <1>1, FrameProperties
  <2> QED BY <2>1, CharsConcat, CharsOfFrame, ZenonT(40)
<1>5. r \o partial \o c = FlattenSeq(lines)
  BY DEF Balanced
<1> HIDE DEF r, c
<1> DEFINE p == r \o partial
<1>6. p \in Seq(Byte)
  BY <1>2
<1>7. (p \o c) \o l = p \o (c \o l)
  <2> HIDE DEF p
  <2> QED BY <1>1, <1>2, <1>6, ConcatAssociative, SMTT(20)
<1> QED
  BY <1>3, <1>4, <1>5, <1>7 DEF Balanced, r

(* A command is returned *)
LEMMA BalancedReturn ==
  ASSUME NEW records \in Seq(Seq(Byte)), NEW partial \in Seq(Byte), NEW u, NEW lines,
         Balanced(records, partial, u, lines)
  PROVE  Balanced(Append(records, partial), <<>>, u, lines)
<1> DEFINE r == FlattenSeq(records)
<1>1. FlattenSeq(Append(records, partial)) = r \o partial
  BY FlattenAppend
<1>2. r \in Seq(Byte)
  BY FlattenType
<1> HIDE DEF r
<1>3. r \o partial \in Seq(Byte)
  BY <1>2
<1>4. (r \o partial) \o <<>> = r \o partial
  BY <1>3, ConcatEmptySeq
<1> QED
  BY <1>1, <1>4 DEF Balanced, r

(* The parser takes a byte: a character goes to the command, an end of line nowhere *)
LEMMA BalancedTake ==
  ASSUME NEW records \in Seq(Seq(Byte)), NEW partial \in Seq(Byte), NEW u \in Seq(Byte),
         NEW lines, u # <<>>, Balanced(records, partial, u, lines)
  PROVE  IF u[1] \in Char THEN Balanced(records, Append(partial, u[1]), Tail(u), lines)
                          ELSE Balanced(records, partial, Tail(u), lines)
<1> DEFINE r == FlattenSeq(records)
           c == Chars(Tail(u))
           p == Piece(u[1])
<1>1. Tail(u) \in Seq(Byte) /\ u[1] \in Byte
  OBVIOUS
<1>2. r \in Seq(Byte) /\ c \in Seq(Byte) /\ p \in Seq(Byte)
  <2>1. c \in Seq(Char)
    BY <1>1, CharsArePieces
  <2>2. p \in Seq(Byte)
    BY <1>1 DEF Piece
  <2> QED BY <2>1, <2>2, FlattenType DEF Byte
<1>3. r \o partial \o (p \o c) = FlattenSeq(lines)
  BY CharsOfHead DEF Balanced
<1>4. u[1] \in Char => p = <<u[1]>>
  BY DEF Piece
<1>5. u[1] \notin Char => p = <<>>
  BY DEF Piece
<1> HIDE DEF r, c, p
<1>6. r \o partial \in Seq(Byte)
  BY <1>2
<1>7. (r \o partial) \o (p \o c) = ((r \o partial) \o p) \o c
  <2> DEFINE q == r \o partial
  <2>1. q \in Seq(Byte)
    BY <1>6
  <2> HIDE DEF q
  <2>2. p \in Seq(Byte) /\ c \in Seq(Byte)
    BY <1>2
  <2>3. (q \o p) \o c = q \o (p \o c)
    BY <2>1, <2>2, ConcatAssociative, SMTT(20)
  <2> QED BY <2>3 DEF q
<1>8. (r \o partial) \o p = r \o (partial \o p)
  BY <1>2, ConcatAssociative, SMTT(20)
<1>9. partial \o <<>> = partial
  BY ConcatEmptySeq
<1>10. partial \o <<u[1]>> = Append(partial, u[1])
  BY <1>1
<1> QED
  BY <1>3, <1>4, <1>5, <1>7, <1>8, <1>9, <1>10 DEF Balanced, r, c

(* The client sends a line *)
LEMMA FlowSend ==
  ASSUME LineInv, NEW s \in Session, Flow(s), Send(s)
  PROVE  Flow(s)'
<1>1. TypeOK
  BY DEF LineInv
<1>2. open[s] /\ UNCHANGED <<state, rpc, rb, dst, got, open>>
  BY DEF Send, session
<1>3. PICK l \in Line : /\ l \in Seq(Byte)
                        /\ sent'[s] = Append(sent[s], l)
                        /\ Pending(s)' = Pending(s) \o Frame(l)
  BY <1>1, PendingSend
<1>4. Partial(s)' = Partial(s)
  BY <1>2 DEF Partial
<1>5. ASSUME Plain(s)'
      PROVE  Paired(state, Pending(s))' /\ Balanced(got[s], Partial(s), Pending(s), sent[s])'
  <2>1. Plain(s) /\ l \in Seq(Char)
    <3>1. sent[s] \in Seq(Line)
      BY <1>1, SessionTypes
    <3>2. \A i \in DOMAIN sent[s] : i \in DOMAIN sent'[s] /\ sent'[s][i] = sent[s][i]
      BY <1>3, <3>1
    <3>3. Len(sent[s]) + 1 \in DOMAIN sent'[s] /\ sent'[s][Len(sent[s]) + 1] = l
      BY <1>3, <3>1
    <3>4. ToSet(l) \subseteq Char
      BY <1>5, <3>3 DEF Plain
    <3>5. \A j \in 1 .. Len(l) : l[j] \in Char
      BY <1>3, <3>4 DEF ToSet
    <3> QED BY <1>3, <1>5, <3>2, <3>5 DEF Plain
  <2>2. Paired(state, Pending(s)) /\ Balanced(got[s], Partial(s), Pending(s), sent[s])
    BY <1>2, <2>1 DEF Flow
  <2>3. Paired(state, Pending(s) \o Frame(l))
    BY <1>1, <2>1, <2>2, SessionBytes, PairedSend
  <2>4. Balanced(got[s], Partial(s), Pending(s) \o Frame(l), Append(sent[s], l))
    BY <1>1, <2>1, <2>2, SessionBytes, BalancedSend
  <2> QED BY <1>2, <1>3, <1>4, <2>3, <2>4
<1> QED
  BY <1>2, <1>5 DEF Flow

(* Nothing moves *)
LEMMA FlowStays ==
  ASSUME LineInv, NEW s \in Session, Flow(s), Call(s) \/ Recv(s) \/ Timeout(s) \/ Switch(s)
  PROVE  Flow(s)'
<1>1. TypeOK
  BY DEF LineInv
<1>2. UNCHANGED <<state, got, sent, open>>
  BY DEF Call, Recv, Timeout, Switch, client
<1>3. rpc'[s] \in ParserState => rpc'[s] = state
  <2>1. \/ rpc'[s] = state
        \/ rpc'[s] = rpc[s]
        \/ rpc'[s] \in {"loop", "over"}
    BY <1>1 DEF Call, Recv, Timeout, Switch, Goto, TypeOK
  <2> QED BY <2>1 DEF Flow, ParserState
<1>4. Pending(s)' = Pending(s)
  <2>1. CASE Call(s) \/ Switch(s)
    BY <2>1 DEF Call, Switch, client, Pending
  <2>2. CASE Recv(s) \/ Timeout(s)
    BY <1>1, <2>2, PendingWaits
  <2> QED BY <2>1, <2>2
<1>5. Partial(s)' = Partial(s)
  BY <1>1 DEF Call, Recv, Waits, Timeout, Switch, Goto, TypeOK, ParserState, Partial
<1>6. Plain(s)' = Plain(s)
  BY <1>2 DEF Plain
<1> QED
  BY <1>2, <1>3, <1>4, <1>5, <1>6 DEF Flow

(* The rest of a line that is too long stays where it is *)
LEMMA FlowFull ==
  ASSUME LineInv, NEW s \in Session, Flow(s), Full(s)
  PROVE  Flow(s)'
<1>1. TypeOK
  BY DEF LineInv
<1>2. /\ rpc[s] = "loop" /\ rpc'[s] = "command" /\ got'[s] = Append(got[s], dst[s])
      /\ UNCHANGED <<state, rb, dst, sent, wire, open>>
  BY <1>1 DEF Full, Goto, Return, client, TypeOK
<1>3. Partial(s) = dst[s] /\ Partial(s)' = <<>> /\ Pending(s)' = Pending(s)
  BY <1>2 DEF Partial, Pending
<1>4. Plain(s)' = Plain(s)
  BY <1>2 DEF Plain
<1>5. Balanced(got[s], dst[s], Pending(s), sent[s]) =>
        Balanced(Append(got[s], dst[s]), <<>>, Pending(s), sent[s])
  BY <1>1, SessionBytes, BalancedReturn
<1> QED
  BY <1>2, <1>3, <1>4, <1>5 DEF Flow, ParserState

(* Of a client that has gone nothing is said *)
LEMMA FlowGone ==
  ASSUME LineInv, NEW s \in Session, Flow(s), Eof(s) \/ RecvFails(s)
  PROVE  Flow(s)'
<1>1. TypeOK
  BY DEF LineInv
<1>2. ~open'[s] /\ rpc'[s] \in {"command", "over"}
  BY <1>1 DEF Eof, RecvFails, Goto, Gone, TypeOK
<1> QED
  BY <1>2 DEF Flow, ParserState

(* In the switch the state of the parser is the one that was read *)
LEMMA FlowByte ==
  ASSUME LineInv, NEW s \in Session, Flow(s), rpc[s] \in ParserState
  PROVE  /\ state = rpc[s] /\ Partial(s) = dst[s]
         /\ Plain(s) /\ open[s] => Paired(state, Pending(s))
                                   /\ Balanced(got[s], dst[s], Pending(s), sent[s])
<1>1. Partial(s) = dst[s]
  BY DEF Partial, ParserState
<1> QED
  BY <1>1 DEF Flow

(* A character of the command, or the Cr that ends it *)
LEMMA FlowData ==
  ASSUME LineInv, NEW s \in Session, Flow(s), Data(s)
  PROVE  Flow(s)'
<1>1. TypeOK
  BY DEF LineInv
<1>2. /\ rpc[s] = "stData" /\ rpc'[s] = "loop" /\ rb'[s] = Tail(rb[s])
      /\ UNCHANGED <<got, sent, wire, open>>
  BY <1>1 DEF Data, Goto, Advance, client, TypeOK
<1>3. IF Head(rb[s]) = Cr THEN state' = "stCr" /\ dst'[s] = dst[s]
      ELSE state' = state /\ dst'[s] = Append(dst[s], Head(rb[s]))
  BY <1>1 DEF Data, Put, TypeOK
<1>4. rpc[s] \in ParserState
  BY <1>2 DEF ParserState
<1>5. Plain(s)' = Plain(s)
  BY <1>2 DEF Plain
<1> DEFINE u == Pending(s)
<1>6. u # <<>> /\ u[1] = Head(rb[s]) /\ u \in Seq(Byte)
      /\ Partial(s)' = dst'[s] /\ Pending(s)' = Tail(u)
  BY <1>1, <1>2, <1>4, SessionBytes, PendingByte DEF Partial, Pending
<1> HIDE DEF u
<1>7. ASSUME Plain(s), open[s]
      PROVE  Paired(state', Tail(u)) /\ Balanced(got[s], dst'[s], Tail(u), sent[s])
  <2>1. Paired("stData", u) /\ Balanced(got[s], dst[s], u, sent[s]) /\ state = "stData"
    BY <1>2, <1>4, <1>7, FlowByte DEF u
  <2>2. IF u[1] = Cr THEN Paired("stCr", Tail(u))
                     ELSE u[1] \in Char /\ Paired("stData", Tail(u))
    BY <1>6, <2>1, PairedTake
  <2>3. IF u[1] \in Char THEN Balanced(got[s], Append(dst[s], u[1]), Tail(u), sent[s])
                         ELSE Balanced(got[s], dst[s], Tail(u), sent[s])
    BY <1>1, <1>6, <2>1, SessionBytes, BalancedTake
  <2> QED BY <1>3, <1>6, <2>1, <2>2, <2>3, Separators
<1> QED
  BY <1>2, <1>5, <1>6, <1>7 DEF Flow, ParserState

(* The Lf: the command is returned *)
LEMMA FlowEndOfLine ==
  ASSUME LineInv, NEW s \in Session, Flow(s), EndOfLine(s)
  PROVE  Flow(s)'
<1>1. TypeOK
  BY DEF LineInv
<1>2. /\ rpc[s] = "stCr" /\ rpc'[s] = "command" /\ rb'[s] = Tail(rb[s])
      /\ got'[s] = Append(got[s], dst[s]) /\ state' = "stData"
      /\ UNCHANGED <<dst, sent, wire, open>>
  BY <1>1 DEF EndOfLine, Goto, Advance, Return, client, TypeOK
<1>3. rpc[s] \in ParserState
  BY <1>2 DEF ParserState
<1>4. Plain(s)' = Plain(s)
  BY <1>2 DEF Plain
<1> DEFINE u == Pending(s)
<1>5. u # <<>> /\ u \in Seq(Byte) /\ Partial(s)' = <<>> /\ Pending(s)' = Tail(u)
  BY <1>1, <1>2, <1>3, SessionBytes, PendingByte DEF Partial, Pending
<1> HIDE DEF u
<1>6. ASSUME Plain(s), open[s]
      PROVE  Paired("stData", Tail(u)) /\ Balanced(got'[s], <<>>, Tail(u), sent[s])
  <2>1. Paired("stCr", u) /\ Balanced(got[s], dst[s], u, sent[s])
    BY <1>2, <1>3, <1>6, FlowByte DEF u
  <2>2. u[1] = Lf /\ Paired("stData", Tail(u))
    BY <1>5, <2>1, PairedTake
  <2>3. Balanced(got[s], dst[s], Tail(u), sent[s])
    BY <1>1, <1>5, <2>1, <2>2, SessionBytes, BalancedTake, Separators
  <2>4. Balanced(Append(got[s], dst[s]), <<>>, Tail(u), sent[s])
    BY <1>1, <2>3, SessionBytes, BalancedReturn
  <2> QED BY <1>2, <2>2, <2>4
<1> QED
  BY <1>2, <1>4, <1>5, <1>6 DEF Flow, ParserState

(* There is no carriage return inside a plain line *)
LEMMA FlowLoneCr ==
  ASSUME LineInv, NEW s \in Session, Flow(s), LoneCr(s) \/ Copy(s)
  PROVE  Flow(s)'
<1>1. TypeOK
  BY DEF LineInv
<1>2. /\ rpc[s] \in ParserState /\ rpc'[s] = "loop" /\ UNCHANGED <<sent, open>>
  BY <1>1 DEF LoneCr, Copy, Goto, client, TypeOK, ParserState
<1>3. Plain(s)' = Plain(s)
  BY <1>2 DEF Plain
<1>4. ASSUME Plain(s), open[s] PROVE FALSE
  <2>1. Paired(state, Pending(s)) /\ state = rpc[s]
    BY <1>2, <1>4, FlowByte
  <2>2. Pending(s)[1] = Head(rb[s])
    BY <1>2, PendingByte
  <2> QED BY <2>1, <2>2 DEF LoneCr, Copy, Goto, Paired
<1> QED
  BY <1>2, <1>3, <1>4 DEF Flow, ParserState

(* Nothing is sent, nothing is read *)
LEMMA FlowInit == Init => FlowInv
<1> SUFFICES ASSUME Init, NEW s \in Session PROVE Flow(s)
  BY DEF FlowInv
<1>1. /\ rpc[s] = "command" /\ state = "stData" /\ got[s] = <<>> /\ sent[s] = <<>>
      /\ rb[s] = <<>> /\ wire[s] = <<>>
  BY DEF Init
<1>2. Pending(s) = <<>> /\ Partial(s) = <<>>
  BY <1>1 DEF Pending, Partial
<1>3. Len(<<>>) = 0
  OBVIOUS
<1>4. Paired("stData", <<>>)
  BY <1>3 DEF Paired
<1>5. Balanced(<<>>, <<>>, <<>>, <<>>)
  <2>1. <<>> \o <<>> = <<>>
    BY ConcatEmptySeq
  <2> QED BY <2>1, FlattenNone, CharsOfNone DEF Balanced
<1> QED
  BY <1>1, <1>2, <1>4, <1>5 DEF Flow, ParserState

(* The step of the one session is the step of all *)
LEMMA FlowNext ==
  ASSUME LineInv, FlowInv, [Next]_vars, \A r, s \in Session : r = s
  PROVE  FlowInv'
<1>1. CASE UNCHANGED vars
  <2> SUFFICES ASSUME NEW s \in Session PROVE Flow(s)'
    BY DEF FlowInv
  <2>1. UNCHANGED <<state, rpc, rb, dst, got, sent, wire, open>>
    BY <1>1 DEF vars, session, client
  <2>2. Pending(s)' = Pending(s) /\ Partial(s)' = Partial(s) /\ Plain(s)' = Plain(s)
    BY <2>1 DEF Pending, Partial, Plain
  <2> QED BY <2>1, <2>2 DEF FlowInv, Flow
<1>2. ASSUME NEW s \in Session,
             Send(s) \/ Call(s) \/ Full(s) \/ Receive(s) \/ Parse(s)
      PROVE  FlowInv'
  <2>1. Flow(s)
    BY DEF FlowInv
  <2>2. Flow(s)'
    BY <1>2, <2>1, FlowSend, FlowStays, FlowFull, FlowGone, FlowData, FlowEndOfLine, FlowLoneCr
    DEF Receive, Parse
  <2>3. \A r \in Session : r = s
    OBVIOUS
  <2> QED BY <2>2, <2>3 DEF FlowInv
<1> QED
  BY <1>1, <1>2 DEF Next

(* "fragments returned records correctly if sent size > maxsize"            *)
(* (altsocklib.c:544): while the client is there every character of its     *)
(* lines is in a command that was returned, in the one that is being read,  *)
(* in the receive buffer or in the network, once and in order, for lines    *)
(* of any length and buffers of any size, if no other session uses the      *)
(* parser.                                                                  *)
THEOREM NoCharacterIsLost ==
  ASSUME \A r, s \in Session : r = s
  PROVE  Spec => []NoCharLost
<1>1. LineInv /\ FlowInv /\ [Next]_vars => FlowInv'
  BY FlowNext
<1>2. FlowInv => NoCharLost
  BY DEF FlowInv, Flow, Balanced, Pending, Unread, NoCharLost
<1> QED
  BY LineInvariant, FlowInit, <1>1, <1>2, PTL DEF Spec
=============================================================================
