----------------------------- MODULE StringHack -----------------------------
(***************************************************************************)
(* The two transformations a message undergoes on its way to the client    *)
(* (modules/src/stringhack_lua/lstringhack.c), piece by piece as the       *)
(* website delivers it: dothack doubles the dot of a line that is a single *)
(* dot, tophack cuts the message after the lines a TOP asks for.           *)
(***************************************************************************)
EXTENDS Integers, FiniteSets, SequencesExt

CONSTANTS
  Char,    \* what a message is made of, besides
  Cr, Lf,  \* the ends of its lines
  Dot,     \* and the dot
  Before   \* what memory shows before a string of less than 3 characters:
           \* <<>> for a zero byte, else two bytes

ASSUME Characters == Cr # Lf /\ {Cr, Lf} \cap Char = {} /\ Dot \notin Char \cup {Cr, Lf}

Byte == Char \cup {Cr, Lf, Dot}
Crlf == <<Cr, Lf>>
LoneDot   == <<Cr, Lf, Dot, Cr>>
BlankLine == Crlf \o Crlf

ASSUME MemoryBefore == Before # {} /\ Before \subseteq {<<>>} \cup (Byte \X Byte)

-----------------------------------------------------------------------------
(* The places of s where p begins                                          *)
Matches(p, s) == {i \in 1 .. Len(s) - Len(p) + 1 : SubSeq(s, i, i + Len(p) - 1) = p}
First(S)      == CHOOSE i \in S : \A j \in S : i <= j
Lines(s)      == Cardinality(Matches(Crlf, s))

FirstThree(s) == SubSeq(s, 1, IF Len(s) < 3 THEN Len(s) ELSE 3)
LastThree(s)  == SubSeq(s, Len(s) - 2, Len(s))

(* What is kept of a piece to recognise a pattern the next one completes:  *)
(* the three bytes before its end, those before the string if it is short  *)
KeepLast(s) ==
  IF Len(s) >= 3 THEN {LastThree(s)}
  ELSE {IF m = <<>> THEN <<>> ELSE LastThree(m \o s) : m \in Before}

(* Fault: the dot in the piece before is not looked for                    *)
Rejoin_SamePiece(last, s) ==
  LET defrag == last \o FirstThree(s)
      d      == First(Matches(<<Dot>>, defrag))
  IN IF Matches(LoneDot, defrag) # {} /\ d \in 4 .. 5
       THEN SubSeq(s, 1, d - 4) \o <<Dot>> \o SubSeq(s, d - 3, Len(s))
       ELSE s

(* A lone dot cut by the end of the last piece: the pattern is looked for   *)
(* across the cut, the dot to double is the first dot there is (it counts  *)
(* from 0 in the code: 2, 3, 4 are handled, 0, 1, 5 skipped)               *)
Rejoin(last, s) ==
  LET defrag == last \o FirstThree(s)
      d      == First(Matches(<<Dot>>, defrag))
      at     == IF d = 3 THEN 0 ELSE d - 4
  IN IF Matches(LoneDot, defrag) # {} /\ d \in 3 .. 5
       THEN SubSeq(s, 1, at) \o <<Dot>> \o SubSeq(s, at + 1, Len(s))
       ELSE s

(* Fault: the search goes on after the pattern, whose last character may   *)
(* begin the next one                                                      *)
Stuff_Skips(s) ==
  FlattenSeq([i \in 1 .. Len(s) |->
    IF i - 2 \in Matches(LoneDot, s) /\ i - 5 \notin Matches(LoneDot, s)
      THEN <<Dot, Dot>> ELSE <<s[i]>>])

(* The lone dots inside a piece                                            *)
Stuff(s) ==
  FlattenSeq([i \in 1 .. Len(s) |->
    IF i - 2 \in Matches(LoneDot, s) THEN <<Dot, Dot>> ELSE <<s[i]>>])

dothack(last4, s) == Stuff(Rejoin(last4, s))

-----------------------------------------------------------------------------
(* Where tophack finds the end of the header in a piece: across the cut,   *)
(* or inside                                                               *)
HeaderCut(last3, s) == Matches(BlankLine, last3 \o FirstThree(s)) # {}
HeaderEnds(last3, s) == HeaderCut(last3, s) \/ Matches(BlankLine, s) # {}

(* Fault: the line end that belongs to the header is counted                *)
BodyLines_Uncorrected(last3, s) ==
  IF HeaderCut(last3, s) THEN Lines(s)
  ELSE LET e == First(Matches(BlankLine, s)) + 4 IN Lines(SubSeq(s, e, Len(s)))

(* The lines of the body in the piece that ends the header                 *)
BodyLines(last3, s) ==
  IF HeaderCut(last3, s)
    THEN LET defrag == last3 \o FirstThree(s)
             second == Len(defrag) = 6 /\ {2, 3} \cap Matches(BlankLine, defrag) # {}
         IN Lines(s) - IF second THEN 1 ELSE 0
    ELSE LET e == First(Matches(BlankLine, s)) + 4 IN Lines(SubSeq(s, e, Len(s)))

(* check_stop: more lines than asked for have been seen                    *)
check_stop(headerDone, count, lines) == count > lines \/ (lines = 0 /\ headerDone)

(* The piece that goes too far, cut from its end: one line end more than    *)
(* there are lines too many, one more still if none was asked for.  A      *)
(* piece with too few of them, or that begins with the one to cut at, is   *)
(* left whole.                                                             *)
TopCut(s, count, lines) ==
  LET ends == Matches(Crlf, s)
      k    == count - lines + 1 + IF lines = 0 THEN 1 ELSE 0
      cut  == {p \in ends : p >= 3 /\ Cardinality({q \in ends : q >= p}) = k}
      at   == First(cut)
  IN IF cut = {} THEN s
     ELSE IF Len(s) - 1 - at >= 3 THEN SubSeq(s, 1, at + 1) ELSE SubSeq(s, 1, at - 1)
=============================================================================
